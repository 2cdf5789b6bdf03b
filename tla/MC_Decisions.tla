---- MODULE MC_Decisions ----
EXTENDS Decisions

(* Zones with a wildcard, a deeper wildcard and names below an empty       *)
(* non-terminal.                                                           *)
Zones(names) ==
    UNION {[own : {own \union {Apex}}, has : SUBSET (own \union {Apex})] : own \in SUBSET names}

MCNsecZones == Zones({<<Star>>, <<1>>, <<2>>, <<2, Star>>, <<2, 1>>, <<3>>})
MCNsecQueries == {<<>>, <<1>>, <<2>>, <<2, 1>>, <<2, 2>>, <<3>>, <<4>>}

MCNsec3Zones == {z \in Zones({<<Star>>, <<1>>, <<1, 1>>}) : z.has \in {{}, z.own \ {Apex}}}
MCNsec3Queries == {<<1>>, <<1, 1>>, <<1, 2>>}
Hashed == {<<>>, <<Star>>, <<1>>, <<1, Star>>, <<1, 1>>, <<1, 2>>}
MCHashes == {f \in [Hashed -> 1..6] : \A a, b \in Hashed : f[a] = f[b] => a = b}

MCCacheConfigs == [min_ttl : 0..2, max_ttl : {2, 4}, negative_ttl : {1, 3}, max_negative_ttl : {1, 2}]
MCMessages == [rcode : {"NoError", "NXDomain", "ServFail"}, answers : SUBSET {0, 2, 5},
               soa : BOOLEAN, minimum : {0, 3}]

MCNat64Prefixes ==
    {[addr |-> [i \in 1..16 |-> IF 8 * i <= len THEN <<2, i>> ELSE host], len |-> len] :
        len \in {l \in 0..128 : valid_prefix_length(l)}, host \in {Zero, <<15, 15>>}}
MCV4Addresses == [1..4 -> {<<0, 0>>, <<1, 2>>, <<3, 0>>}]
===========================================================================
