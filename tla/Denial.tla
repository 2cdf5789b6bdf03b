---- MODULE Denial ----
(***************************************************************************)
(* Denial of existence (recursor/dnssec.rs): the verdict on a negative     *)
(* answer, from the NSEC or NSEC3 records in its authority section.        *)
(*                                                                         *)
(* A name is a sequence of labels from the apex of the zone down, so the   *)
(* canonical order is the lexicographic one; label 0 is "*", which sorts   *)
(* before every letter.  A record is a denial RRset that covers an         *)
(* interval: owner, next, bits (the queried type is in the type bitmap)    *)
(* and sig (what became of its RRSIG).  For NSEC3, owner and next are      *)
(* hashes.  Query names do not begin with "*".                             *)
(***************************************************************************)
EXTENDS Naturals, Sequences, FiniteSetsExt, SequencesExt

Apex == <<>>
Star == 0

wildcard(n) == Append(n, Star)
trim_to(n, k) == SubSeq(n, 1, k)

(* canonical_lt, which is Name::cmp of the library: by labels from the     *)
(* root, a name before the names below it.                                 *)
canonical_lt(a, b) ==
    \/ a # b /\ IsPrefix(a, b)
    \/ \E i \in 1..Len(a) :
          /\ i <= Len(b)
          /\ trim_to(a, i - 1) = trim_to(b, i - 1)
          /\ a[i] < b[i]

(* Mutant: the owner itself counts as covered. *)
Between_Closed(n, owner, next) ==
    (n = owner \/ canonical_lt(owner, n)) /\ canonical_lt(n, next)

Between(n, owner, next) == canonical_lt(owner, n) /\ canonical_lt(n, next)

(* closest_encloser: the longest suffix of qname (itself included) that is *)
(* also a suffix of one of the candidates.                                 *)
closest_encloser(q, cands) ==
    trim_to(q, Max({k \in 0..Len(q) :
                       k = 0 \/ \E c \in cands : IsPrefix(trim_to(q, k), c)}))

(* prove_denial_nsec.  Every record looks for its own encloser.            *)
prove_denial_nsec(sets, q, rcode) ==
    LET here == {r \in sets : r.owner = q}
        star(r) == wildcard(closest_encloser(q, {r.owner, r.next}))
        nameCover == \E r \in sets : Between(q, r.owner, r.next)
        wildcardCover ==
            \E r \in sets : \/ Between(star(r), r.owner, r.next)
                            \/ r.owner = star(r) /\ ~r.bits
    IN  CASE rcode = "NoError" ->
               IF here = {} THEN "Insecure"
               ELSE IF \E r \in here : r.bits THEN "Bogus" ELSE "Secure"
          [] rcode = "NXDomain" ->
               IF nameCover /\ wildcardCover THEN "Secure" ELSE "Bogus"

(* hash_in_range: the last interval of a zone wraps around zero.           *)
hash_in_range(h, owner, next) ==
    \/ owner < h /\ h < next
    \/ owner > next /\ (owner < h \/ h < next)

(* prove_denial_nsec3, under the zone's hash function.                     *)
prove_denial_nsec3(sets, q, rcode, hash) ==
    LET Owns(n) == \E r \in sets : r.owner = hash[n]
        Covered(n) == \E r \in sets : hash_in_range(hash[n], r.owner, r.next)
        here == {r \in sets : r.owner = hash[q]}
        enclosers == {k \in 0..(Len(q) - 1) : Owns(trim_to(q, k))}
        nextCloser == trim_to(q, Max(enclosers) + 1)
        star == wildcard(trim_to(q, Max(enclosers)))
    IN  CASE rcode = "NoError" ->
               IF here = {} THEN "Insecure"
               ELSE IF \E r \in here : r.bits THEN "Bogus" ELSE "Secure"
          [] rcode = "NXDomain" ->
               IF /\ enclosers # {}
                  /\ Covered(nextCloser)
                  /\ Covered(star) \/ Owns(star)
               THEN "Secure" ELSE "Bogus"

(* verify_authority_rrsets: every denial RRset has an RRSIG that is in its *)
(* window and verifies under the keys of the closest zone of the chain.    *)
verify_authority_rrsets(sets) == \A r \in sets : r.sig = "valid"

(* validate_denial: NSEC3 wins over NSEC; without either the answer is     *)
(* that of an unsigned zone.                                               *)
validate_denial(nsec, nsec3, q, rcode, hash) ==
    IF nsec \union nsec3 = {} THEN "Insecure"
    ELSE IF ~verify_authority_rrsets(nsec \union nsec3) THEN "Bogus"
    ELSE IF nsec3 # {} THEN prove_denial_nsec3(nsec3, q, rcode, hash)
    ELSE prove_denial_nsec(nsec, q, rcode)

---------------------------------------------------------------------------
(* check_rrsig_validity over words of W values, with SKEW for CLOCK_SKEW.  *)
(* The sums wrap in a release build.                                       *)

(* Mutant: no tolerance for a clock that runs ahead. *)
check_rrsig_validity_NoSkew(inception, expiration, now, skew, W) ==
    /\ expiration >= inception
    /\ (now + skew) % W >= inception
    /\ now <= expiration

check_rrsig_validity(inception, expiration, now, skew, W) ==
    /\ expiration >= inception
    /\ (now + skew) % W >= inception
    /\ now <= (expiration + skew) % W

---------------------------------------------------------------------------
(* The zone a denial is about, and what an authoritative server sends for  *)
(* it (external): own are the names with records, has those of them with   *)
(* the queried type.                                                       *)

Exists(z, n) == \E o \in z.own : IsPrefix(n, o)
Encloser(z, q) == trim_to(q, Max({k \in 0..Len(q) : Exists(z, trim_to(q, k))}))

(* The chain of a set of points in a cyclic order: each with its successor.*)
NextName(points, p) ==
    LET after == {x \in points : canonical_lt(p, x)}
    IN  IF after = {} THEN Apex
        ELSE CHOOSE x \in after : \A y \in after : x = y \/ canonical_lt(x, y)

NextHash(points, h) ==
    LET after == {x \in points : h < x}
    IN  IF after = {} THEN Min(points) ELSE Min(after)

NsecChain(z) ==
    {[owner |-> o, next |-> NextName(z.own, o), bits |-> o \in z.has, sig |-> "valid"] :
        o \in z.own}

Nsec3Chain(z, hash) ==
    LET nodes == {n \in DOMAIN hash : Exists(z, n)}
        points == {hash[n] : n \in nodes}
    IN  {[owner |-> hash[n], next |-> NextHash(points, hash[n]),
          bits |-> n \in z.has, sig |-> "valid"] : n \in nodes}

(* Whether the zone answers the question with data: the name has the type, *)
(* or does not exist and the wildcard of its closest encloser has it.      *)
Positive(z, q) ==
    \/ q \in z.has
    \/ ~Exists(z, q) /\ wildcard(Encloser(z, q)) \in z.has

(* The response code of the zone for a question it answers negatively.     *)
Rcode(z, q) ==
    IF Exists(z, q) \/ wildcard(Encloser(z, q)) \in z.own THEN "NoError" ELSE "NXDomain"

(* The records of an honest denial: for a name that exists its own record, *)
(* otherwise the one that covers it (with NSEC3: the closest encloser's    *)
(* and the one that covers the next closer name) and the one at or around  *)
(* the wildcard.                                                           *)
NsecProof(z, q) ==
    LET star == wildcard(Encloser(z, q))
        Around(n) == {r \in NsecChain(z) :
                        \/ r.owner = n
                        \/ n \notin z.own /\ canonical_lt(r.owner, n)
                           /\ (canonical_lt(n, r.next) \/ r.next = Apex)}
    IN  IF Exists(z, q) THEN Around(q) ELSE Around(q) \union Around(star)

Nsec3Proof(z, q, hash) ==
    LET chain == Nsec3Chain(z, hash)
        points == {r.owner : r \in chain}
        At(n) == {r \in chain : r.owner = hash[n]}
        Around(n) == IF hash[n] \in points THEN At(n)
                     ELSE {r \in chain : \/ r.owner < hash[n] /\ hash[n] < r.next
                                         \/ r.next <= r.owner
                                            /\ (hash[n] > r.owner \/ hash[n] < r.next)}
        ce == Encloser(z, q)
    IN  IF Exists(z, q) THEN At(q)
        ELSE At(ce) \union Around(trim_to(q, Len(ce) + 1)) \union Around(wildcard(ce))

===========================================================================
