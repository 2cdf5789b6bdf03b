---- MODULE Decisions ----
(***************************************************************************)
(* Pure decisions of the resolver: a question of one topic is drawn, and   *)
(* the operator that models the code answers it.                           *)
(***************************************************************************)
EXTENDS Integers, FiniteSets, Denial, Dns64, Policy

CONSTANTS NsecZones, NsecQueries,               \* zones with NSEC, names asked for
          Nsec3Zones, Nsec3Queries, Hashes,     \* with NSEC3, and its hash functions
          Word, Skew,                           \* the values of a u32, CLOCK_SKEW
          CacheConfigs, Messages,               \* caps of the cache, responses
          Nat64Prefixes, V4Addresses

VARIABLES topic, input,
          output        \* <<>>, then <<the answer>>

IsZone(z) ==
    /\ z.own \subseteq Seq(Nat) /\ IsFiniteSet(z.own)
    /\ Apex \in z.own
    /\ z.has \subseteq z.own

(* The names of a zone, those above them, the names asked for and those    *)
(* the code derives from them have hashes, no two the same.                *)
IsHash(h) ==
    /\ IsFiniteSet(DOMAIN h) /\ DOMAIN h \subseteq Seq(Nat)
    /\ \A n \in DOMAIN h : h[n] \in Nat
    /\ \A a, b \in DOMAIN h : h[a] = h[b] => a = b
    /\ \A z \in Nsec3Zones : \A o \in z.own :
          \A k \in 0..Len(o) : trim_to(o, k) \in DOMAIN h
    /\ \A q \in Nsec3Queries :
          /\ \A k \in 0..Len(q) : trim_to(q, k) \in DOMAIN h
          /\ \A k \in 0..(Len(q) - 1) : wildcard(trim_to(q, k)) \in DOMAIN h

ASSUME ZoneAssumption ==
    /\ \A z \in NsecZones \union Nsec3Zones : IsZone(z)
    /\ NsecQueries \union Nsec3Queries \subseteq Seq(Nat)
    /\ \A h \in Hashes : IsHash(h)

Octet == Nat \X Nat
IsPrefix64(p) ==
    /\ valid_prefix_length(p.len)
    /\ \A i \in 1..16 : p.addr[i] \in Octet

ASSUME NumberAssumption ==
    /\ Word \in Nat \ {0} /\ Skew \in Nat /\ 6 * Skew <= Word
    /\ \A c \in CacheConfigs :
          /\ c.min_ttl \in Nat /\ c.max_ttl \in Nat
          /\ c.negative_ttl \in Nat /\ c.max_negative_ttl \in Nat
    /\ \A m \in Messages : m.answers \subseteq Nat /\ m.minimum \in Nat
    /\ \A p \in Nat64Prefixes : IsPrefix64(p)
    /\ V4Addresses \subseteq [1..4 -> Octet]

Decided(t) == topic = t /\ output # <<>>
Answer == output[1]

---------------------------------------------------------------------------
(* Denials: the records are any part of the zone's chain, one of them with *)
(* a signature that may be missing.                                        *)

AskNsec ==
    /\ topic = "nsec"
    /\ \E z \in NsecZones, q \in NsecQueries, rcode \in {"NoError", "NXDomain"},
          sig \in {"valid", "absent", "expired"} :
       \E records \in SUBSET NsecChain(z) :
          input = [zone |-> z, q |-> q, rcode |-> rcode, records |-> records, sig |-> sig]

AskNsec3 ==
    /\ topic = "nsec3"
    /\ \E z \in Nsec3Zones, q \in Nsec3Queries, rcode \in {"NoError", "NXDomain"},
          hash \in Hashes :
       \E records \in SUBSET Nsec3Chain(z, hash) :
          input = [zone |-> z, q |-> q, rcode |-> rcode, records |-> records,
                   sig |-> "valid", hash |-> hash]

(* One of the records, if there are any, has its signature in this state.  *)
Signed(records, sig) ==
    IF records = {} THEN {}
    ELSE LET r == CHOOSE r \in records : TRUE
         IN  (records \ {r}) \union {[r EXCEPT !.sig = sig]}

DecideNsec ==
    /\ topic = "nsec"
    /\ output' = <<validate_denial(Signed(input.records, input.sig), {}, input.q, input.rcode, <<>>)>>

DecideNsec3 ==
    /\ topic = "nsec3"
    /\ output' = <<validate_denial({}, input.records, input.q, input.rcode, input.hash)>>

---------------------------------------------------------------------------
AskSignature ==
    /\ topic = "signature"
    /\ input \in [inception : 0..(Word - 1), expiration : 0..(Word - 1), now : 0..(Word - 1)]

DecideSignature ==
    /\ topic = "signature"
    /\ output' = <<check_rrsig_validity(input.inception, input.expiration, input.now, Skew, Word)>>

AskTtl ==
    /\ topic = "ttl"
    /\ input \in [cfg : CacheConfigs, msg : Messages]

DecideTtl ==
    /\ topic = "ttl"
    /\ output' = <<compute_ttl(input.cfg, input.msg)>>

AskNat64 ==
    /\ topic = "nat64"
    /\ input \in [prefix : Nat64Prefixes, other : Nat64Prefixes, v4 : V4Addresses]

DecideNat64 ==
    /\ topic = "nat64"
    /\ output' = <<rewrite_ptr_question(input.prefix,
                        ArpaLabels(embed_v4(input.other, input.v4)))>>

---------------------------------------------------------------------------
Ask ==
    /\ topic \in {"nsec", "nsec3", "signature", "ttl", "nat64"}
    /\ AskNsec \/ AskNsec3 \/ AskSignature \/ AskTtl \/ AskNat64
    /\ output = <<>>

Decide ==
    /\ output = <<>>
    /\ DecideNsec \/ DecideNsec3 \/ DecideSignature \/ DecideTtl \/ DecideNat64
    /\ UNCHANGED <<topic, input>>

Spec == Ask /\ [][Decide]_<<topic, input, output>>

---------------------------------------------------------------------------
(* A response with the code and the records RFC 4035 and RFC 5155 ask for. *)
Honest ==
    /\ ~Positive(input.zone, input.q)
    /\ input.rcode = Rcode(input.zone, input.q)
    /\ input.sig = "valid"
    /\ input.records = IF topic = "nsec" THEN NsecProof(input.zone, input.q)
                       ELSE Nsec3Proof(input.zone, input.q, input.hash)

(* An interval of the zone that ends at its apex: prove_denial_nsec has no *)
(* wrap-around, so what falls behind the last name stays unproved; nor has *)
(* hash_in_range for the one interval of a zone with one name.             *)
InLastGap(z, n) == n \notin z.own /\ \A o \in z.own : canonical_lt(o, n)
Unprovable ==
    /\ input.rcode = "NXDomain"
    /\ IF topic = "nsec"
         THEN \/ InLastGap(input.zone, input.q)
              \/ InLastGap(input.zone, wildcard(Encloser(input.zone, input.q)))
         ELSE Cardinality(Nsec3Chain(input.zone, input.hash)) = 1

(* A proof of NXDOMAIN that leaves out the wildcard of the closest         *)
(* encloser.  With NSEC a record that is not near the name finds an        *)
(* encloser of its own, and the wildcard it denies is another; with NSEC3  *)
(* the wildcard's own record counts as its denial.                         *)
WildcardOverlooked ==
    LET z == input.zone
        ce == Encloser(z, input.q)
    IN  /\ input.rcode = "NXDomain"
        /\ IF topic = "nsec"
             THEN \E r \in input.records : closest_encloser(input.q, {r.owner, r.next}) # ce
             ELSE \E r \in input.records : r.owner = input.hash[wildcard(ce)]

(* Denials are judged exactly.  Whatever part of the zone's own denial     *)
(* records a response carries, validate_denial calls a denial Secure only  *)
(* if every record is signed, the name lacks the type, and for NXDOMAIN    *)
(* has no records at all; and, unless the proof is one of the two kinds    *)
(* that overlook it, only if no wildcard answers for the name.  And an     *)
(* honest denial is accepted, for a missing name and for a missing type,   *)
(* outside the last interval of an NSEC zone and in NSEC3 zones of more    *)
(* than one name.                                                          *)
DenialIsExact ==
    (Decided("nsec") \/ Decided("nsec3")) =>
        /\ Answer = "Secure" =>
              /\ input.sig = "valid"
              /\ input.q \notin input.zone.has
              /\ input.rcode = "NXDomain" => input.q \notin input.zone.own
              /\ Positive(input.zone, input.q) => WildcardOverlooked
        /\ (Honest /\ ~Unprovable) =>
              Answer = IF \/ input.rcode = "NXDomain"
                          \/ input.q \in input.zone.own
                          \/ topic = "nsec3" /\ Exists(input.zone, input.q)
                       THEN "Secure" ELSE "Insecure"

(* The time from a to b on the circle of 32-bit times (RFC 1982), and the  *)
(* window of a signature on it, widened by the skew on both sides.         *)
Since(a, b) == (b + Word - a) % Word

InWindow(i) ==
    \/ Since(i.inception, i.now) <= Since(i.inception, i.expiration) + Skew
    \/ Since(i.now, i.inception) <= Skew

(* Within the skew of the end of the epoch, or a window that spans it.     *)
AtEpochEnd(i) ==
    \/ i.expiration < i.inception
    \/ i.now + Skew >= Word
    \/ i.expiration + Skew >= Word

(* The comparisons and the sums that wrap are those of plain integers, yet *)
(* check_rrsig_validity accepts no signature outside its RFC 1982 window:  *)
(* with windows of less than half the circle, overflow only ever rejects.  *)
(* And away from the end of the epoch it rejects none that is inside.      *)
SignatureWindow ==
    Decided("signature") =>
        /\ (Answer /\ 2 * Since(input.inception, input.expiration) < Word) => InWindow(input)
        /\ (InWindow(input) /\ ~AtEpochEnd(input)) => Answer

(* A response is kept no longer than its shortest record, the SOA MINIMUM  *)
(* or the operator's caps allow, unless min_ttl asks for more; a failure   *)
(* is not kept at all (compute_ttl).                                       *)
TtlIsHonest ==
    Decided("ttl") =>
        /\ input.msg.rcode = "ServFail" => Answer = 0
        /\ Answer > input.cfg.min_ttl =>
              /\ \A t \in input.msg.answers : Answer <= t
              /\ Answer <= IF input.msg.answers = {} THEN input.cfg.max_negative_ttl
                           ELSE input.cfg.max_ttl
              /\ (input.msg.answers = {} /\ input.msg.soa) => Answer <= input.msg.minimum

(* A PTR question for an address that synthesis made leads back to the     *)
(* IPv4 address it was made from, for every prefix length, and an address  *)
(* outside the prefix is passed on (embed_v4, extract_v4).                 *)
Nat64RoundTrip ==
    Decided("nat64") =>
        /\ input.prefix = input.other => Answer = Reverse(input.v4)
        /\ ~InPrefix(input.prefix, embed_v4(input.other, input.v4)) => Answer = NoAddress

===========================================================================
