----------------------------- MODULE MC_Reload -----------------------------
(* Instances of Reload: two addresses, two peers, four config files. *)
EXTENDS Reload, TLC

CONSTANTS v1, v2, v3, v4, a1, a2, p1, p2

L(a, protos, peers) == [addr |-> a, protos |-> protos, allow_from |-> peers]

\* v2 drops p2 from the first listener; v3 replaces its tcp side by a new one;
\* v4, whose forwarders are rejected, has no listener.
MC_Listeners ==
    (v1 :> {L(a1, {"udp", "tcp"}, {p1, p2})}) @@
    (v2 :> {L(a1, {"udp", "tcp"}, {p1})}) @@
    (v3 :> {L(a1, {"udp"}, {p1, p2}), L(a2, {"tcp"}, {p2})}) @@
    (v4 :> {})
=============================================================================
