----------------------------- MODULE AtomicFile -----------------------------
(***************************************************************************)
(* What atomic_write (src/recursor/anchor.rs) promises its callers: the    *)
(* file always holds one whole version, a save replaces it in one step,    *)
(* and a power loss leaves the version before or after the last save.      *)
(***************************************************************************)
CONSTANTS Version, Missing

VARIABLES val,      \* what a reader of the path sees
          durable   \* what the disk holds

Init == val = Missing /\ durable = Missing

Save(v) == val' = v /\ UNCHANGED durable

Settle == durable' = val /\ UNCHANGED val

PowerLoss ==
    /\ val' \in {val, durable}
    /\ durable' = val'

Next == (\E v \in Version : Save(v)) \/ Settle \/ PowerLoss

Spec == Init /\ [][Next]_<<val, durable>>
=============================================================================
