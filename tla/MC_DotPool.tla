----------------------------- MODULE MC_DotPool -----------------------------
(* Instances of DotPool: two exchanges, a direct and two tor forwarders. *)
EXTENDS DotPool, TLC

CONSTANTS plain, onion1, onion2

MC_Via == [d \in Domain |-> IF d = plain THEN "direct" ELSE "tor"]
=============================================================================
