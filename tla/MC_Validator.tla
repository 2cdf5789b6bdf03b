---------------------------- MODULE MC_Validator ----------------------------
(* Two validations at a time over every signing fault, a key rollover and  *)
(* an anchor replacement.                                                  *)
EXTENDS Validator, TLC

MCScene ==
    [kind : {"roll", "revoke"}, zone : {None}, cut : {0}, loss : {FALSE}, ticks : {4}, runs : {3}]
      \cup [kind : {"none"}, zone : {None}, cut : {0}, loss : {TRUE}, ticks : {2}, runs : {3}]
      \cup [kind : {"none", "answerUnsigned", "answerMissigned"}, zone : {None},
            cut : 0 .. 2, loss : {TRUE}, ticks : {1}, runs : {2}]
      \cup [kind : LinkFaults, zone : {T, L}, cut : 0 .. 2, loss : {TRUE}, ticks : {1}, runs : {2}]
      \cup [kind : {"noAnchor"}, zone : {None}, cut : {0}, loss : {TRUE}, ticks : {1}, runs : {2}]

\* The step of T expires before the step of L below it.
MCDsTtl == T :> 1 @@ L :> 3

Symmetry == Permutations(Job)
=============================================================================
