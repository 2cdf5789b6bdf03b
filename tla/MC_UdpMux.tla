------------------------------ MODULE MC_UdpMux ------------------------------
(* Three query futures, one or two servers each, and a single TXID. *)
EXTENDS UdpMux, TLC

CONSTANTS q1, q2, q3, p1, p2, n1, n2

\* q1 and q2 ask for two types of one name, q3 for another name.
MC_Asks == [q \in Query |-> [name |-> IF q = q3 THEN n2 ELSE n1,
                            type |-> IF q = q2 THEN "AAAA" ELSE "A"]]
MC_TwoServers == [q \in Query |-> IF q = q1 THEN <<p1, p2>> ELSE <<p1>>]
=============================================================================
