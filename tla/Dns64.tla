---- MODULE Dns64 ----
(***************************************************************************)
(* The address arithmetic of DNS64 (recursor/dns64.rs).  An octet is a     *)
(* pair of nibbles; an IPv4 address has 4 of them and an IPv6 address 16.  *)
(* prefix is [addr, len], addr as the operator wrote it, host bits         *)
(* included.                                                               *)
(***************************************************************************)
EXTENDS Naturals, Sequences, SequencesExt

NoAddress == <<>>
Zero == <<0, 0>>

valid_prefix_length(len) == len \in {32, 40, 48, 56, 64, 96}

(* Mutant: the reserved octet at bits 64..72 is not skipped for /56. *)
Slots_NoSkip(len) ==
    CASE len = 32 -> <<5, 6, 7, 8>>
      [] len = 40 -> <<6, 7, 8, 10>>
      [] len = 48 -> <<7, 8, 10, 11>>
      [] len = 56 -> <<8, 9, 10, 11>>
      [] len = 64 -> <<10, 11, 12, 13>>
      [] len = 96 -> <<13, 14, 15, 16>>

(* Where embed_v4 writes the four octets.                                  *)
Slots(len) ==
    CASE len = 32 -> <<5, 6, 7, 8>>
      [] len = 40 -> <<6, 7, 8, 10>>
      [] len = 48 -> <<7, 8, 10, 11>>
      [] len = 56 -> <<8, 10, 11, 12>>
      [] len = 64 -> <<10, 11, 12, 13>>
      [] len = 96 -> <<13, 14, 15, 16>>

embed_v4(prefix, v4) ==
    LET at == Slots(prefix.len)
    IN  [i \in 1..16 |->
           IF \E k \in 1..4 : at[k] = i THEN v4[CHOOSE k \in 1..4 : at[k] = i]
           ELSE IF i = 9 /\ prefix.len \in {40, 48, 56, 64} THEN Zero
           ELSE prefix.addr[i]]

InPrefix(prefix, addr) ==
    \A i \in 1..16 : 8 * i <= prefix.len => addr[i] = prefix.addr[i]

(* The octets extract_v4 reads, o[0] being addr[1].                        *)
extract_v4(prefix, addr) ==
    LET Take(a, b, c, d) == <<addr[a + 1], addr[b + 1], addr[c + 1], addr[d + 1]>>
    IN  IF ~InPrefix(prefix, addr) THEN NoAddress
        ELSE CASE prefix.len = 32 -> Take(4, 5, 6, 7)
               [] prefix.len = 40 -> Take(5, 6, 7, 9)
               [] prefix.len = 48 -> Take(6, 7, 9, 10)
               [] prefix.len = 56 -> Take(7, 9, 10, 11)
               [] prefix.len = 64 -> Take(9, 10, 11, 12)
               [] prefix.len = 96 -> Take(12, 13, 14, 15)
               [] OTHER -> NoAddress

(* ip6_arpa_to_addr: 32 labels, the lowest nibble first.                   *)
ip6_arpa_to_addr(labels) ==
    IF Len(labels) # 32 THEN NoAddress
    ELSE LET nibbles == Reverse(labels)
         IN  [i \in 1..16 |-> <<nibbles[2 * i - 1], nibbles[2 * i]>>]

(* rewrite_ptr_question: the in-addr.arpa labels, the last octet first.    *)
rewrite_ptr_question(prefix, labels) ==
    LET addr == ip6_arpa_to_addr(labels)
        v4 == IF addr = NoAddress THEN NoAddress ELSE extract_v4(prefix, addr)
    IN  Reverse(v4)

(* The ip6.arpa labels a client asks for the name of an address (external).*)
ArpaLabels(addr) ==
    LET nibbles == [k \in 1..32 |-> addr[(k + 1) \div 2][IF k % 2 = 1 THEN 1 ELSE 2]]
    IN  Reverse(nibbles)
===========================================================================
