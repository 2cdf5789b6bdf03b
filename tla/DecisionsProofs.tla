---- MODULE DecisionsProofs ----
(***************************************************************************)
(* The pure decisions of Decisions, for every zone, name and number.  The  *)
(* canonical order is shown strict and total, its intervals empty of the   *)
(* zone's names and covering all others; the hashed chain likewise; from   *)
(* these, what validate_denial accepts is what the zone lacks.             *)
(***************************************************************************)
EXTENDS Decisions, FiniteSetTheorems, SequenceTheorems, WellFoundedInduction, TLAPS

\* The leaves are first-order steps; the ones that need arithmetic, sequences or
\* records cite SMT.
USE ZenonT(30)

(* A set of natural numbers has a least element. *)
LEMMA LeastNat ==
    ASSUME NEW S \in SUBSET Nat, S # {}
    PROVE  \E x \in S : \A y \in S : x <= y
<1> DEFINE R == {p \in Nat \X Nat : p[1] < p[2]}
<1>1. IsWellFoundedOn(OpToRel(<, Nat), Nat)
    BY NatLessThanWellFounded
<1>2. OpToRel(<, Nat) = R
    BY DEF OpToRel
<1>3. IsWellFoundedOn(R, Nat)
    BY <1>1, <1>2
<1>4. \E x \in S : \A y \in S : ~(<<y, x>> \in R)
    BY <1>3, WFMin
<1>5. \A x, y \in Nat : <<y, x>> \notin R => x <= y
    <2>1. ASSUME NEW x \in Nat, NEW y \in Nat, ~(x <= y)
          PROVE  <<y, x>> \in R
        BY <2>1, SMTT(30)
    <2> QED
        BY <2>1
<1> HIDE DEF R
<1> QED
    BY <1>4, <1>5

(* A finite set has a minimal element under a strict order. *)
LEMMA MinimalElement ==
    ASSUME NEW S, IsFiniteSet(S), S # {}, NEW R,
           \A x \in S : <<x, x>> \notin R,
           \A x, y, z \in S : <<x, y>> \in R /\ <<y, z>> \in R => <<x, z>> \in R
    PROVE  \E x \in S : \A y \in S : <<y, x>> \notin R
<1> DEFINE Below(x) == {y \in S : <<y, x>> \in R}
           Size(x) == Cardinality(Below(x))
           Sizes == {Size(x) : x \in S}
<1>1. \A x \in S : IsFiniteSet(Below(x)) /\ Size(x) \in Nat
    <2>1. ASSUME NEW x \in S
          PROVE  IsFiniteSet(Below(x)) /\ Size(x) \in Nat
        <3>1. Below(x) \in SUBSET S
            OBVIOUS
        <3>2. IsFiniteSet(Below(x))
            BY <3>1, FS_Subset
        <3> QED
            BY <3>2, FS_CardinalityType
    <2> QED
        BY <2>1
<1>2. PICK n \in Sizes : \A m \in Sizes : n <= m
    <2> HIDE DEF Size
    <2>1. Sizes \in SUBSET Nat
        BY <1>1
    <2>2. Sizes # {}
        <3>1. PICK x \in S : TRUE
            OBVIOUS
        <3>2. Size(x) \in Sizes
            BY <3>1
        <3> QED
            BY <3>2
    <2> HIDE DEF Sizes
    <2> QED
        BY <2>1, <2>2, LeastNat
<1>3. PICK x \in S : n = Size(x)
    OBVIOUS
<1>4. ASSUME NEW y \in S, <<y, x>> \in R
      PROVE  FALSE
    <2>1. Below(y) \in SUBSET Below(x) /\ y \in Below(x) /\ y \notin Below(y)
        BY <1>4
    <2>2. n <= Size(y)
        <3> HIDE DEF Size
        <3> QED
            BY <1>2, SMTT(30)
    <2>3. Size(x) = Size(y)
        <3>1. Size(y) <= Size(x)
            BY <2>1, <1>1, FS_Subset
        <3> HIDE DEF Below, Size, Sizes
        <3> QED
            BY <3>1, <2>2, <1>3, <1>1, SMTT(30)
    <2> HIDE DEF Below
    <2> QED
        BY <2>1, <2>3, <1>1, FS_Subset
<1> QED
    BY <1>4

---------------------------------------------------------------------------
(* The canonical order. *)

\* Where two names part: before position i they agree, and there b has a label
\* that a has not or a lesser one.
Parts(a, b, i) ==
    /\ i \in 1..Len(b)
    /\ i <= Len(a) + 1
    /\ \A j \in 1..(i - 1) : a[j] = b[j]
    /\ i <= Len(a) => a[i] < b[i]

\* The first labels of a name.
LEMMA TrimTo ==
    ASSUME NEW a \in Seq(Nat), NEW k \in 0..Len(a)
    PROVE  /\ trim_to(a, k) \in Seq(Nat)
           /\ Len(trim_to(a, k)) = k
           /\ \A j \in 1..k : trim_to(a, k)[j] = a[j]
<1>1. \A j \in 1..k : a[j] \in Nat
    BY SMTT(30)
<1> QED
    BY <1>1, SubSeqProperties, SMTT(30) DEF trim_to

\* Two names have the same first labels if they agree position by position.
LEMMA TrimEqual ==
    ASSUME NEW a \in Seq(Nat), NEW b \in Seq(Nat), NEW k \in Nat, k <= Len(a), k <= Len(b)
    PROVE  trim_to(a, k) = trim_to(b, k) <=> \A j \in 1..k : a[j] = b[j]
<1>1. k \in 0..Len(a) /\ k \in 0..Len(b)
    BY SMTT(30)
<1> DEFINE s == trim_to(a, k)
           t == trim_to(b, k)
<1>2. s \in Seq(Nat) /\ Len(s) = k /\ \A j \in 1..k : s[j] = a[j]
    BY <1>1, TrimTo
<1>3. t \in Seq(Nat) /\ Len(t) = k /\ \A j \in 1..k : t[j] = b[j]
    BY <1>1, TrimTo
<1> HIDE DEF s, t
<1>4. (\A j \in 1..k : a[j] = b[j]) => s = t
    BY <1>2, <1>3, SeqEqual
<1>5. s = t => \A j \in 1..k : a[j] = b[j]
    BY <1>2, <1>3
<1> QED
    BY <1>4, <1>5 DEF s, t

\* A prefix agrees position by position.
LEMMA PrefixAgrees ==
    ASSUME NEW a \in Seq(Nat), NEW b \in Seq(Nat)
    PROVE  IsPrefix(a, b) <=> Len(a) <= Len(b) /\ \A j \in 1..Len(a) : a[j] = b[j]
<1>1. Len(a) \in Nat /\ Len(b) \in Nat
    BY SMTT(30)
<1>2. Len(a) <= Len(b) =>
         (SubSeq(a, 1, Len(a)) = SubSeq(b, 1, Len(a)) <=> \A j \in 1..Len(a) : a[j] = b[j])
    BY <1>1, TrimEqual, SMTT(30) DEF trim_to
<1> QED
    BY <1>2 DEF IsPrefix

\* canonical_lt finds the position where the names part.
LEMMA LtParts ==
    ASSUME NEW a \in Seq(Nat), NEW b \in Seq(Nat)
    PROVE  canonical_lt(a, b) <=> \E i \in Nat : Parts(a, b, i)
<1>0. Len(a) \in Nat /\ Len(b) \in Nat
    BY SMTT(30)
<1>1. ASSUME a # b, IsPrefix(a, b)
      PROVE  Parts(a, b, Len(a) + 1)
    <2>1. Len(a) <= Len(b) /\ \A j \in 1..Len(a) : a[j] = b[j]
        BY <1>1, PrefixAgrees
    <2>2. Len(a) # Len(b)
        BY <2>1, <1>1, SeqEqual
    <2> QED
        BY <2>1, <2>2, <1>0, SMTT(30) DEF Parts
<1>2. ASSUME NEW i \in 1..Len(a), i <= Len(b), trim_to(a, i - 1) = trim_to(b, i - 1), a[i] < b[i]
      PROVE  Parts(a, b, i)
    <2>0. i - 1 \in Nat /\ i - 1 <= Len(a) /\ i - 1 <= Len(b)
        BY <1>2, <1>0, SMTT(30)
    <2>1. \A j \in 1..(i - 1) : a[j] = b[j]
        BY <1>2, <2>0, TrimEqual
    <2> QED
        BY <1>2, <2>1, <1>0, SMTT(30) DEF Parts
<1>3. ASSUME NEW i \in Nat, Parts(a, b, i)
      PROVE  canonical_lt(a, b)
    <2>1. CASE i = Len(a) + 1
        <3>1. IsPrefix(a, b)
            BY <2>1, <1>3, <1>0, PrefixAgrees, SMTT(30) DEF Parts
        <3>2. Len(a) # Len(b)
            BY <2>1, <1>3, <1>0, SMTT(30) DEF Parts
        <3> QED
            BY <3>1, <3>2 DEF canonical_lt
    <2>2. CASE i <= Len(a)
        <3>1. i \in 1..Len(a) /\ i <= Len(b) /\ a[i] < b[i] /\ \A j \in 1..(i - 1) : a[j] = b[j]
            BY <2>2, <1>3, <1>0, SMTT(30) DEF Parts
        <3>2. i - 1 \in Nat /\ i - 1 <= Len(a) /\ i - 1 <= Len(b)
            BY <3>1, <1>0, SMTT(30)
        <3>3. trim_to(a, i - 1) = trim_to(b, i - 1)
            BY <3>1, <3>2, TrimEqual
        <3> QED
            BY <3>1, <3>3 DEF canonical_lt
    <2> QED
        BY <2>1, <2>2, <1>3, <1>0, SMTT(30) DEF Parts
<1> QED
    BY <1>0, <1>1, <1>2, <1>3, SMTT(30) DEF canonical_lt

\* The canonical order is a strict one.
LEMMA LtIrreflexive ==
    ASSUME NEW a \in Seq(Nat)
    PROVE  ~canonical_lt(a, a)
<1>1. \A i \in Nat : ~Parts(a, a, i)
    BY SMTT(30) DEF Parts
<1> QED
    BY <1>1, LtParts

\* So the order of three names is that of the outer two.
LEMMA LtTransitive ==
    ASSUME NEW a \in Seq(Nat), NEW b \in Seq(Nat), NEW c \in Seq(Nat),
           canonical_lt(a, b), canonical_lt(b, c)
    PROVE  canonical_lt(a, c)
<1>1. PICK i \in Nat : Parts(a, b, i)
    BY LtParts
<1>2. PICK k \in Nat : Parts(b, c, k)
    BY LtParts
<1>0. /\ Len(a) \in Nat /\ Len(b) \in Nat /\ Len(c) \in Nat
      /\ \A j \in 1..Len(a) : a[j] \in Nat
      /\ \A j \in 1..Len(b) : b[j] \in Nat
      /\ \A j \in 1..Len(c) : c[j] \in Nat
    BY SMTT(30)
<1>3. CASE i <= k
    <2>1. i \in 1..Len(c) /\ i <= Len(a) + 1
        BY <1>0, <1>1, <1>2, <1>3, SMTT(30) DEF Parts
    <2>2. \A j \in 1..(i - 1) : a[j] = c[j]
        BY <1>0, <1>1, <1>2, <1>3, SMTT(30) DEF Parts
    <2>3. ASSUME i <= Len(a)
          PROVE  a[i] < c[i]
        <3>1. a[i] < b[i] /\ i \in 1..Len(a) /\ i \in 1..Len(b) /\ i \in 1..Len(c)
            BY <1>0, <1>1, <2>1, <2>3, SMTT(30) DEF Parts
        <3>2. b[i] = c[i] \/ b[i] < c[i]
            BY <1>0, <1>2, <1>3, <3>1, SMTT(30) DEF Parts
        <3>3. a[i] \in Nat /\ b[i] \in Nat /\ c[i] \in Nat
            BY <3>1, <1>0
        <3> QED
            BY <3>1, <3>2, <3>3, SMTT(30)
    <2> QED
        BY <2>1, <2>2, <2>3, LtParts DEF Parts
<1>4. CASE k < i
    <2>1. Parts(a, c, k)
        BY <1>0, <1>1, <1>2, <1>4, SMTT(30) DEF Parts
    <2> QED
        BY <2>1, LtParts
<1> QED
    BY <1>3, <1>4, SMTT(30)

\* Any two names are ordered.
LEMMA LtTotal ==
    ASSUME NEW a \in Seq(Nat), NEW b \in Seq(Nat), a # b
    PROVE  canonical_lt(a, b) \/ canonical_lt(b, a)
<1> DEFINE D == {i \in Nat : i >= 1 /\ i <= Len(a) /\ i <= Len(b) /\ a[i] # b[i]}
<1>0. Len(a) \in Nat /\ Len(b) \in Nat
    BY SMTT(30)
<1>1. CASE D = {}
    <2>1. \A j \in Nat : j >= 1 /\ j <= Len(a) /\ j <= Len(b) => a[j] = b[j]
        BY <1>1
    <2>2. Len(a) # Len(b)
        BY <2>1, <1>0, SeqEqual, SMTT(30)
    <2>3. CASE Len(a) < Len(b)
        <3>1. IsPrefix(a, b)
            BY <2>1, <2>3, <1>0, PrefixAgrees, SMTT(30)
        <3> QED
            BY <3>1 DEF canonical_lt
    <2>4. CASE Len(b) < Len(a)
        <3>1. IsPrefix(b, a)
            BY <2>1, <2>4, <1>0, PrefixAgrees, SMTT(30)
        <3> QED
            BY <3>1 DEF canonical_lt
    <2> QED
        BY <2>2, <2>3, <2>4, <1>0, SMTT(30)
<1>2. CASE D # {}
    <2>1. PICK i \in D : \A j \in D : i <= j
        BY <1>2, LeastNat
    <2>2. \A j \in 1..(i - 1) : a[j] = b[j]
        BY <2>1, <1>0, SMTT(30)
    <2>3. a[i] \in Nat /\ b[i] \in Nat /\ a[i] # b[i] /\ i >= 1 /\ i <= Len(a) /\ i <= Len(b) /\ i \in Nat
        BY <2>1, <1>0, SMTT(30)
    <2>4. Parts(a, b, i) \/ Parts(b, a, i)
        BY <2>2, <2>3, <1>0, SMTT(30) DEF Parts
    <2> QED
        BY <2>3, <2>4, LtParts
<1> QED
    BY <1>1, <1>2

\* Names between two descendants of a name are its descendants.
LEMMA Sandwich ==
    ASSUME NEW p \in Seq(Nat), NEW a \in Seq(Nat), NEW b \in Seq(Nat), NEW c \in Seq(Nat),
           IsPrefix(p, a), IsPrefix(p, c),
           a = b \/ canonical_lt(a, b), b = c \/ canonical_lt(b, c)
    PROVE  IsPrefix(p, b)
<1>0. /\ Len(p) \in Nat /\ Len(a) \in Nat /\ Len(b) \in Nat /\ Len(c) \in Nat
      /\ \A j \in 1..Len(a) : a[j] \in Nat
      /\ \A j \in 1..Len(b) : b[j] \in Nat
      /\ \A j \in 1..Len(c) : c[j] \in Nat
    BY SMTT(30)
<1> SUFFICES ASSUME canonical_lt(a, b), canonical_lt(b, c)
             PROVE  IsPrefix(p, b)
    OBVIOUS
<1>1. PICK i \in Nat : Parts(a, b, i)
    BY LtParts
<1>2. PICK k \in Nat : Parts(b, c, k)
    BY LtParts
<1>3. /\ Len(p) <= Len(a) /\ Len(p) <= Len(c)
      /\ \A j \in 1..Len(p) : p[j] = a[j] /\ p[j] = c[j]
    BY PrefixAgrees
<1>4. i > Len(p)
    <2> SUFFICES ASSUME i <= Len(p)
                 PROVE  FALSE
        BY <1>0, SMTT(30)
    <2>1. i \in 1..Len(p) /\ i \in 1..Len(b) /\ i \in 1..Len(a) /\ i \in 1..Len(c)
        BY <1>0, <1>1, <1>3, SMTT(30) DEF Parts
    <2>2. a[i] < b[i] /\ a[i] = c[i] /\ a[i] \in Nat /\ b[i] \in Nat
        BY <1>0, <1>1, <1>3, <2>1, SMTT(30) DEF Parts
    <2>3. CASE k < i
        <3>0. k >= 1
            BY <1>2, SMTT(30) DEF Parts
        <3>1. k \in 1..Len(p) /\ k \in 1..Len(b) /\ k \in 1..(i - 1)
            BY <1>0, <3>0, <2>1, <2>3, SMTT(30)
        <3>2. b[k] < c[k] /\ a[k] = b[k] /\ a[k] = c[k]
            BY <1>1, <1>2, <1>3, <3>1, SMTT(30) DEF Parts
        <3>3. b[k] \in Nat
            BY <3>1, <1>0
        <3> QED
            BY <3>2, <3>3, SMTT(30)
    <2>4. CASE k = i
        <3>1. b[i] < c[i]
            BY <1>2, <2>1, <2>4, SMTT(30) DEF Parts
        <3> QED
            BY <2>2, <3>1, SMTT(30)
    <2>5. CASE k > i
        <3>1. b[i] = c[i]
            BY <1>2, <2>1, <2>5, SMTT(30) DEF Parts
        <3> QED
            BY <3>1, <2>2, SMTT(30)
    <2> QED
        BY <2>3, <2>4, <2>5, SMTT(30)
<1>5. Len(p) <= Len(b) /\ \A j \in 1..Len(p) : p[j] = b[j]
    BY <1>0, <1>1, <1>3, <1>4, SMTT(30) DEF Parts
<1> QED
    BY <1>5, PrefixAgrees

---------------------------------------------------------------------------
(* The chain of a zone. *)

\* A finite set of names that has a name after p has a first one.
LEMMA NextIsFirst ==
    ASSUME NEW S \in SUBSET Seq(Nat), IsFiniteSet(S), NEW p, NEW x \in S, canonical_lt(p, x)
    PROVE  /\ NextName(S, p) \in S
           /\ canonical_lt(p, NextName(S, p))
           /\ NextName(S, p) = x \/ canonical_lt(NextName(S, p), x)
<1> DEFINE after == {y \in S : canonical_lt(p, y)}
           R == {e \in after \X after : canonical_lt(e[1], e[2])}
           First(y) == \A w \in after : y = w \/ canonical_lt(y, w)
<1>1. IsFiniteSet(after) /\ after # {} /\ after \subseteq Seq(Nat) /\ x \in after
    <2>1. after \in SUBSET S
        OBVIOUS
    <2> QED
        BY <2>1, FS_Subset
<1>2. \A y, w \in after : <<y, w>> \in R <=> canonical_lt(y, w)
    OBVIOUS
<1>3. \A y \in after : <<y, y>> \notin R
    BY <1>1, <1>2, LtIrreflexive
<1>4. \A y, w, v \in after : <<y, w>> \in R /\ <<w, v>> \in R => <<y, v>> \in R
    BY <1>1, <1>2, LtTransitive
<1>5. PICK y \in after : \A w \in after : <<w, y>> \notin R
    <2> HIDE DEF after, R
    <2> QED
        BY <1>1, <1>3, <1>4, MinimalElement
<1>6. First(y)
    BY <1>1, <1>2, <1>5, LtTotal
<1>7. NextName(S, p) = CHOOSE v \in after : First(v)
    BY <1>1 DEF NextName
<1>8. NextName(S, p) \in after /\ First(NextName(S, p))
    <2> HIDE DEF after, First
    <2> QED
        BY <1>6, <1>7
<1> QED
    BY <1>1, <1>8

\* The chain leads from name to name of the zone.
LEMMA NextIsOwn ==
    ASSUME NEW z, IsZone(z), NEW o
    PROVE  NextName(z.own, o) \in z.own
<1>1. CASE \E x \in z.own : canonical_lt(o, x)
    BY <1>1, NextIsFirst DEF IsZone
<1>2. CASE ~\E x \in z.own : canonical_lt(o, x)
    BY <1>2 DEF NextName, IsZone
<1> QED
    BY <1>1, <1>2

\* Nothing the zone has lies inside an interval of its chain.
LEMMA GapsAreEmpty ==
    ASSUME NEW z, IsZone(z), NEW r \in NsecChain(z), NEW n \in z.own
    PROVE  ~Between(n, r.owner, r.next)
<1>1. PICK o \in z.own : r.owner = o /\ r.next = NextName(z.own, o)
    BY SMTT(30) DEF NsecChain
<1>2. ASSUME canonical_lt(o, n), canonical_lt(n, NextName(z.own, o))
      PROVE  FALSE
    <2> DEFINE x == NextName(z.own, o)
    <2>1. x \in z.own /\ (x = n \/ canonical_lt(x, n))
        BY <1>2, NextIsFirst DEF IsZone
    <2>2. x \in Seq(Nat) /\ n \in Seq(Nat)
        BY <2>1 DEF IsZone
    <2> HIDE DEF x
    <2>3. canonical_lt(n, x)
        BY <1>2 DEF x
    <2> QED
        BY <2>1, <2>2, <2>3, LtIrreflexive, LtTransitive
<1> QED
    BY <1>1, <1>2 DEF Between

\* A name that is not in the zone and comes before one that is lies in an interval.
LEMMA GapsCover ==
    ASSUME NEW z, IsZone(z), NEW n \in Seq(Nat), n \notin z.own,
           NEW y \in z.own, canonical_lt(n, y)
    PROVE  \E r \in NsecChain(z) : Between(n, r.owner, r.next)
<1> DEFINE before == {o \in z.own : canonical_lt(o, n)}
           R == {e \in before \X before : canonical_lt(e[2], e[1])}
<1>0. z.own \subseteq Seq(Nat) /\ IsFiniteSet(z.own) /\ Apex \in z.own
    BY DEF IsZone
<1>1. IsFiniteSet(before) /\ before \subseteq Seq(Nat)
    <2>1. before \in SUBSET z.own
        OBVIOUS
    <2> QED
        BY <2>1, <1>0, FS_Subset
<1>2. Apex \in before
    <2>1. Len(Apex) = 0 /\ Apex \in Seq(Nat) /\ n # Apex
        BY <1>0 DEF Apex
    <2>2. IsPrefix(Apex, n)
        <3>1. Len(n) \in Nat /\ Len(Apex) <= Len(n) /\ \A j \in 1..Len(Apex) : Apex[j] = n[j]
            BY <2>1, SMTT(30)
        <3> QED
            BY <2>1, <3>1, PrefixAgrees
    <2> QED
        BY <2>1, <2>2, <1>0 DEF canonical_lt
<1>3. \A a, b \in before : <<a, b>> \in R <=> canonical_lt(b, a)
    OBVIOUS
<1>4. \A a \in before : <<a, a>> \notin R
    BY <1>1, <1>3, LtIrreflexive
<1>5. \A a, b, c \in before : <<a, b>> \in R /\ <<b, c>> \in R => <<a, c>> \in R
    BY <1>1, <1>3, LtTransitive
<1>6. PICK o \in before : \A a \in before : <<a, o>> \notin R
    <2> HIDE DEF before, R
    <2> QED
        BY <1>1, <1>2, <1>4, <1>5, MinimalElement
<1> DEFINE x == NextName(z.own, o)
<1>7. o \in z.own /\ canonical_lt(o, n) /\ o \in Seq(Nat) /\ y \in Seq(Nat)
    BY <1>6, <1>0
<1>8. canonical_lt(o, y)
    BY <1>7, LtTransitive
<1>9. x \in z.own /\ canonical_lt(o, x)
    BY <1>0, <1>7, <1>8, NextIsFirst
<1>10. x \notin before
    BY <1>3, <1>6, <1>9
<1>11. canonical_lt(n, x)
    <2>1. ~canonical_lt(x, n) /\ x # n /\ x \in Seq(Nat)
        BY <1>0, <1>9, <1>10
    <2> HIDE DEF x
    <2> QED
        BY <2>1, LtTotal
<1>12. [owner |-> o, next |-> x, bits |-> o \in z.has, sig |-> "valid"] \in NsecChain(z)
    BY <1>7 DEF NsecChain
<1> QED
    BY <1>7, <1>11, <1>12 DEF Between

\* A bounded set of natural numbers has a greatest element.
LEMMA GreatestNat ==
    ASSUME NEW S \in SUBSET Nat, S # {}, NEW n \in Nat, \A x \in S : x <= n
    PROVE  Max(S) \in S /\ \A x \in S : x <= Max(S)
<1> DEFINE T == {t \in Nat : \E x \in S : t = n - x}
<1>1. T \in SUBSET Nat
    OBVIOUS
<1>0. T # {}
    <2>1. PICK x \in S : TRUE
        OBVIOUS
    <2>2. n - x \in T
        BY <2>1, SMTT(30)
    <2> QED
        BY <2>2
<1>2. PICK t \in T : \A u \in T : t <= u
    <2> HIDE DEF T
    <2> QED
        BY <1>0, <1>1, LeastNat
<1>3. PICK x \in S : t = n - x
    BY <1>2
<1>4. ASSUME NEW y \in S
      PROVE  x >= y
    <2>1. n - y \in T
        BY <1>4, SMTT(30)
    <2>2. t <= n - y
        BY <2>1, <1>2
    <2> QED
        BY <2>2, <1>3, SMTT(30)
<1>5. Max(S) \in S /\ \A y \in S : Max(S) >= y
    BY <1>4 DEF Max
<1>6. \A y \in S : Max(S) \in Nat /\ y \in Nat
    BY <1>5
<1> QED
    BY <1>5, <1>6

\* The encloser of a name is its longest ancestor in the zone.
LEMMA EncloserIsLongest ==
    ASSUME NEW z, IsZone(z), NEW q \in Seq(Nat)
    PROVE  \E m \in 0..Len(q) :
              /\ Encloser(z, q) = trim_to(q, m)
              /\ Exists(z, trim_to(q, m))
              /\ \A k \in 0..Len(q) : Exists(z, trim_to(q, k)) => k <= m
<1> DEFINE K == {k \in 0..Len(q) : Exists(z, trim_to(q, k))}
<1>1. 0 \in K
    <2>1. Len(q) \in Nat
        BY SMTT(30)
    <2>2. trim_to(q, 0) = Apex
        BY SubSeqEmpty, SMTT(30) DEF trim_to, Apex
    <2>3. IsPrefix(Apex, Apex)
        BY SMTT(30) DEF IsPrefix
    <2> QED
        BY <2>1, <2>2, <2>3, SMTT(30) DEF Exists, IsZone
<1>2. K \in SUBSET Nat /\ Len(q) \in Nat /\ \A k \in K : k <= Len(q)
    BY SMTT(30)
<1>3. Max(K) \in K /\ \A k \in K : k <= Max(K)
    <2> HIDE DEF K
    <2> QED
        BY <1>1, <1>2, GreatestNat
<1>4. Encloser(z, q) = trim_to(q, Max(K))
    BY DEF Encloser
<1> QED
    BY <1>3, <1>4

\* An ancestor of an ancestor.
LEMMA TrimTwice ==
    ASSUME NEW q \in Seq(Nat), NEW k \in 0..Len(q), NEW j \in 0..k
    PROVE  trim_to(trim_to(q, k), j) = trim_to(q, j)
    BY SMTT(30) DEF trim_to

\* A name exists with every name below it.
LEMMA AncestorsExist ==
    ASSUME NEW z, IsZone(z), NEW q \in Seq(Nat), NEW k \in 0..Len(q), Exists(z, q)
    PROVE  Exists(z, trim_to(q, k))
<1>1. PICK o \in z.own : IsPrefix(q, o)
    BY DEF Exists
<1>2. o \in Seq(Nat) /\ Len(o) \in Nat /\ Len(q) \in Nat
    BY <1>1, SMTT(30) DEF IsZone
<1> DEFINE t == trim_to(q, k)
<1>3. t \in Seq(Nat) /\ Len(t) = k /\ \A j \in 1..k : t[j] = q[j]
    BY TrimTo
<1>4. Len(q) <= Len(o) /\ \A j \in 1..Len(q) : q[j] = o[j]
    BY <1>1, <1>2, PrefixAgrees
<1> HIDE DEF t
<1>5. Len(t) <= Len(o) /\ \A j \in 1..Len(t) : t[j] = o[j]
    <2>1. k \in Nat /\ k <= Len(q)
        BY <1>2, SMTT(30)
    <2>2. ASSUME NEW j \in 1..k
          PROVE  t[j] = o[j]
        <3>1. j \in 1..Len(q)
            BY <1>2, <2>1, SMTT(30)
        <3> QED
            BY <3>1, <1>3, <1>4
    <2> QED
        BY <1>2, <1>3, <1>4, <2>1, <2>2, SMTT(30)
<1>6. IsPrefix(t, o)
    BY <1>2, <1>3, <1>5, PrefixAgrees
<1> QED
    BY <1>6 DEF t, Exists

\* A name in the zone exists, and a name is its own last ancestor.
LEMMA OwnExists ==
    ASSUME NEW z, IsZone(z), NEW q \in Seq(Nat)
    PROVE  /\ q \in z.own => Exists(z, q)
           /\ trim_to(q, Len(q)) = q
<1>1. IsPrefix(q, q)
    BY PrefixAgrees, SMTT(30)
<1> QED
    BY <1>1, SubSeqFull DEF Exists, trim_to

---------------------------------------------------------------------------
(* NSEC. *)

\* With its signature in order a set of records of the chain is as it was sent.
LEMMA SignedValid ==
    ASSUME NEW z, NEW records \in SUBSET NsecChain(z)
    PROVE  Signed(records, "valid") = records
<1>1. \A r \in NsecChain(z) : [r EXCEPT !.sig = "valid"] = r
    BY SMTT(30) DEF NsecChain
<1> DEFINE r == CHOOSE r \in records : TRUE
<1>2. CASE records # {}
    <2>1. r \in records
        BY <1>2
    <2>2. Signed(records, "valid") = (records \ {r}) \union {[r EXCEPT !.sig = "valid"]}
        BY <1>2 DEF Signed
    <2> HIDE DEF r
    <2> QED
        BY <1>1, <2>1, <2>2, SMTT(30)
<1> QED
    BY <1>2 DEF Signed

\* Only records that are signed are believed.
LEMMA SignedNeeded ==
    ASSUME NEW z, NEW records \in SUBSET NsecChain(z), NEW sig, NEW q, NEW rcode,
           validate_denial(Signed(records, sig), {}, q, rcode, <<>>) = "Secure"
    PROVE  sig = "valid" /\ records # {}
<1>1. Signed(records, sig) # {}
    BY DEF validate_denial
<1>2. records # {}
    BY <1>1 DEF Signed
<1>3. PICK r \in records : [r EXCEPT !.sig = sig] \in Signed(records, sig)
    BY <1>2 DEF Signed
<1>4. [r EXCEPT !.sig = sig].sig = sig
    BY SMTT(30) DEF NsecChain
<1>5. verify_authority_rrsets(Signed(records, sig))
    <2>1. Signed(records, sig) \union {} = Signed(records, sig)
        OBVIOUS
    <2> QED
        BY <1>1, <2>1 DEF validate_denial
<1> QED
    BY <1>2, <1>3, <1>4, <1>5 DEF verify_authority_rrsets

\* What the zone has is not proved absent.
LEMMA NsecSound ==
    ASSUME NEW z, IsZone(z), NEW records \in SUBSET NsecChain(z), NEW sig, NEW q,
           NEW rcode \in {"NoError", "NXDomain"},
           validate_denial(Signed(records, sig), {}, q, rcode, <<>>) = "Secure"
    PROVE  /\ sig = "valid" /\ q \notin z.has
           /\ rcode = "NXDomain" => q \notin z.own
           /\ \/ ~Positive(z, q)
              \/ /\ rcode = "NXDomain"
                 /\ \E r \in records : closest_encloser(q, {r.owner, r.next}) # Encloser(z, q)
<1>1. sig = "valid" /\ records # {}
    BY SignedNeeded
<1>2. prove_denial_nsec(records, q, rcode) = "Secure"
    BY <1>1, SignedValid DEF validate_denial, verify_authority_rrsets
<1>3. CASE rcode = "NoError"
    <2>1. \E r \in records : r.owner = q /\ ~r.bits
        BY <1>2, <1>3 DEF prove_denial_nsec
    <2>2. PICK r \in records : r.owner = q /\ ~r.bits
        BY <2>1
    <2>3. PICK o \in z.own : r = [owner |-> o, next |-> NextName(z.own, o),
                                  bits |-> o \in z.has, sig |-> "valid"]
        BY <2>2 DEF NsecChain
    <2>4. r.owner = o
        BY <2>3
    <2>5. r.bits = (o \in z.has)
        BY <2>3
    <2>6. o \notin z.has
        BY <2>2, <2>5
    <2>7. q = o /\ Exists(z, q)
        BY <2>2, <2>4, OwnExists DEF IsZone
    <2> QED
        BY <1>1, <1>3, <2>6, <2>7 DEF Positive
<1>4. CASE rcode = "NXDomain"
    <2>1. \E r \in records : Between(q, r.owner, r.next)
        BY <1>2, <1>4 DEF prove_denial_nsec
    <2>2. q \notin z.own
        BY <2>1, GapsAreEmpty
    <2> DEFINE star(r) == wildcard(closest_encloser(q, {r.owner, r.next}))
               ws == wildcard(Encloser(z, q))
    <2>3. PICK r \in records : \/ Between(star(r), r.owner, r.next)
                               \/ r.owner = star(r) /\ ~r.bits
        BY <1>2, <1>4 DEF prove_denial_nsec
    <2>4. ASSUME star(r) = ws
          PROVE  ws \notin z.has
        <3> HIDE DEF ws, star
        <3>1. CASE Between(star(r), r.owner, r.next)
            BY <2>4, <3>1, GapsAreEmpty DEF IsZone
        <3>2. CASE r.owner = star(r) /\ ~r.bits
            <4>1. PICK o \in z.own : r.owner = o /\ r.bits = (o \in z.has)
                BY SMTT(30) DEF NsecChain
            <4> QED
                BY <2>4, <3>2, <4>1
        <3> QED
            BY <2>3, <3>1, <3>2 DEF star
    <2>5. \/ ~Positive(z, q)
          \/ closest_encloser(q, {r.owner, r.next}) # Encloser(z, q)
        BY <2>2, <2>4 DEF Positive, IsZone
    <2> QED
        BY <1>1, <1>4, <2>2, <2>5 DEF IsZone
<1> QED
    BY <1>3, <1>4

\* The record that covers the wildcard leads to the closest encloser.
LEMMA EncloserFound ==
    ASSUME NEW z, IsZone(z), NEW q \in Seq(Nat), NEW m \in 0..Len(q),
           Exists(z, trim_to(q, m)),
           \A k \in 0..Len(q) : Exists(z, trim_to(q, k)) => k <= m,
           wildcard(trim_to(q, m)) \notin z.own,
           NEW r \in NsecChain(z), r.next \in z.own,
           Between(wildcard(trim_to(q, m)), r.owner, r.next)
    PROVE  closest_encloser(q, {r.owner, r.next}) = trim_to(q, m)
<1> DEFINE ce == trim_to(q, m)
           star == wildcard(ce)
           o == r.owner
           x == r.next
           K == {k \in 0..Len(q) : k = 0 \/ \E c \in {o, x} : IsPrefix(trim_to(q, k), c)}
<1>0. z.own \subseteq Seq(Nat) /\ IsFiniteSet(z.own) /\ Len(q) \in Nat
    BY SMTT(30) DEF IsZone
<1>1. o \in z.own /\ x \in z.own /\ x = NextName(z.own, o) /\ o \in Seq(Nat) /\ x \in Seq(Nat)
    BY <1>0, SMTT(30) DEF NsecChain
<1>2. ce \in Seq(Nat) /\ star \in Seq(Nat) /\ IsPrefix(ce, star)
    <2>1. ce \in Seq(Nat)
        BY TrimTo
    <2> HIDE DEF ce
    <2>2. star \in Seq(Nat) /\ Len(star) = Len(ce) + 1 /\ \A j \in 1..Len(ce) : star[j] = ce[j]
        BY <2>1, AppendProperties, SMTT(30) DEF wildcard, Star
    <2> HIDE DEF star
    <2> QED
        BY <2>1, <2>2, PrefixAgrees, SMTT(30)
<1>3. PICK e \in z.own : IsPrefix(ce, e)
    BY DEF Exists
<1>4. e \in Seq(Nat) /\ e # star /\ canonical_lt(o, star) /\ canonical_lt(star, x)
    BY <1>0, <1>3 DEF Between
<1>5. IsPrefix(ce, o) \/ IsPrefix(ce, x)
    <2> HIDE DEF ce, star, o, x
    <2>1. CASE canonical_lt(star, e)
        <3>1. canonical_lt(o, e)
            BY <1>1, <1>2, <1>4, <2>1, LtTransitive
        <3>2. x = e \/ canonical_lt(x, e)
            BY <1>0, <1>1, <1>3, <3>1, NextIsFirst
        <3> QED
            BY <1>1, <1>2, <1>3, <1>4, <3>2, Sandwich
    <2>2. CASE canonical_lt(e, star)
        <3>1. ~canonical_lt(o, e)
            <4> SUFFICES ASSUME canonical_lt(o, e)
                         PROVE  FALSE
                OBVIOUS
            <4>1. x = e \/ canonical_lt(x, e)
                BY <1>0, <1>1, <1>3, NextIsFirst
            <4>2. canonical_lt(x, star)
                BY <1>1, <1>2, <1>4, <2>2, <4>1, LtTransitive
            <4>3. canonical_lt(x, x)
                BY <1>1, <1>2, <1>4, <4>2, LtTransitive
            <4> QED
                BY <1>1, <4>3, LtIrreflexive
        <3>2. e = o \/ canonical_lt(e, o)
            BY <1>1, <1>4, <3>1, LtTotal
        <3> QED
            BY <1>1, <1>2, <1>3, <1>4, <3>2, Sandwich
    <2> QED
        BY <1>2, <1>4, <2>1, <2>2, LtTotal
<1>6. m \in K
    BY <1>5
<1>7. ASSUME NEW k \in K
      PROVE  k <= m
    <2>1. Exists(z, trim_to(q, k)) \/ k = 0
        BY <1>1, <1>7 DEF Exists
    <2> QED
        BY <1>0, <1>7, <2>1, SMTT(30)
<1>8. Max(K) = m
    <2>1. K \in SUBSET Nat /\ \A k \in K : k <= m
        BY <1>0, <1>7, SMTT(30)
    <2>2. m \in Nat
        BY <1>0, SMTT(30)
    <2> HIDE DEF K
    <2>3. Max(K) \in K /\ \A k \in K : k <= Max(K)
        BY <1>6, <2>1, <2>2, GreatestNat
    <2>4. m <= Max(K) /\ Max(K) <= m /\ Max(K) \in Nat
        BY <1>6, <2>1, <2>3
    <2> QED
        BY <2>2, <2>4, SMTT(30)
<1> QED
    BY <1>8 DEF closest_encloser

\* An honest denial of a name is accepted, before the last interval.
LEMMA NsecNameDenied ==
    ASSUME NEW z, IsZone(z), NEW q \in Seq(Nat), ~Positive(z, q), Rcode(z, q) = "NXDomain",
           ~InLastGap(z, q), ~InLastGap(z, wildcard(Encloser(z, q)))
    PROVE  validate_denial(NsecProof(z, q), {}, q, "NXDomain", <<>>) = "Secure"
<1> DEFINE star == wildcard(Encloser(z, q))
           sets == NsecProof(z, q)
<1>0. z.own \subseteq Seq(Nat)
    BY DEF IsZone
<1>1. ~Exists(z, q) /\ star \notin z.own
    BY DEF Rcode
<1>2. q \notin z.own
    BY <1>1, OwnExists
<1>3. PICK m \in 0..Len(q) : /\ Encloser(z, q) = trim_to(q, m)
                             /\ Exists(z, trim_to(q, m))
                             /\ \A k \in 0..Len(q) : Exists(z, trim_to(q, k)) => k <= m
    BY EncloserIsLongest
<1>4. star \in Seq(Nat)
    <2>1. trim_to(q, m) \in Seq(Nat)
        BY TrimTo
    <2> QED
        BY <1>3, <2>1, AppendProperties DEF wildcard, Star
<1>5. ASSUME NEW n \in Seq(Nat), n \notin z.own, ~InLastGap(z, n), n \in {q, star}
      PROVE  \E r \in sets : r \in NsecChain(z) /\ Between(n, r.owner, r.next) /\ r.next \in z.own
    <2>1. PICK y \in z.own : ~canonical_lt(y, n)
        BY <1>5 DEF InLastGap
    <2>2. canonical_lt(n, y)
        BY <1>0, <1>5, <2>1, LtTotal
    <2>3. PICK r \in NsecChain(z) : Between(n, r.owner, r.next)
        BY <1>5, <2>2, GapsCover
    <2>4. r \in sets
        BY <1>1, <1>5, <2>3 DEF NsecProof, Between
    <2>5. r.next \in z.own
        <3>1. PICK o \in z.own : r.next = NextName(z.own, o)
            BY <2>3, SMTT(30) DEF NsecChain
        <3> QED
            BY <3>1, NextIsOwn
    <2> QED
        BY <2>3, <2>4, <2>5
<1>6. PICK r \in sets : Between(q, r.owner, r.next)
    BY <1>2, <1>5
<1>7. PICK s \in sets : s \in NsecChain(z) /\ Between(star, s.owner, s.next) /\ s.next \in z.own
    BY <1>1, <1>4, <1>5
<1>8. closest_encloser(q, {s.owner, s.next}) = trim_to(q, m)
    BY <1>1, <1>3, <1>7, EncloserFound
<1>9. prove_denial_nsec(sets, q, "NXDomain") = "Secure"
    <2>1. Between(wildcard(closest_encloser(q, {s.owner, s.next})), s.owner, s.next)
        BY <1>3, <1>7, <1>8
    <2> HIDE DEF sets
    <2> QED
        BY <1>6, <1>7, <2>1 DEF prove_denial_nsec
<1>10. \A r0 \in sets : r0.sig = "valid"
    BY SMTT(30) DEF NsecProof, NsecChain
<1>11. sets # {}
    BY <1>6
<1> HIDE DEF sets
<1> QED
    BY <1>9, <1>10, <1>11 DEF validate_denial, verify_authority_rrsets, sets

\* An honest denial of a type is accepted for a name with a record of its own.
LEMMA NsecTypeDenied ==
    ASSUME NEW z, IsZone(z), NEW q \in Seq(Nat), ~Positive(z, q)
    PROVE  validate_denial(NsecProof(z, q), {}, q, "NoError", <<>>)
              = IF q \in z.own THEN "Secure" ELSE "Insecure"
<1> DEFINE sets == NsecProof(z, q)
           own == [owner |-> q, next |-> NextName(z.own, q), bits |-> q \in z.has, sig |-> "valid"]
<1>1. sets \subseteq NsecChain(z)
    BY DEF NsecProof
<1>2. \A r \in sets : r.sig = "valid"
    BY <1>1, SMTT(30) DEF NsecChain
<1>3. ASSUME NEW r \in sets, r.owner = q
      PROVE  r = own /\ q \in z.own
    BY <1>1, <1>3, SMTT(30) DEF NsecChain
<1>4. CASE q \in z.own
    <2>1. own \in NsecChain(z) /\ Exists(z, q)
        BY <1>4, OwnExists DEF NsecChain
    <2>2. own.owner = q /\ own.bits = (q \in z.has)
        OBVIOUS
    <2>3. own \in sets
        BY <2>1, <2>2 DEF NsecProof
    <2>4. ~own.bits
        BY <2>2 DEF Positive
    <2> HIDE DEF sets, own
    <2>5. prove_denial_nsec(sets, q, "NoError") = "Secure"
        BY <1>3, <2>2, <2>3, <2>4 DEF prove_denial_nsec
    <2>6. validate_denial(sets, {}, q, "NoError", <<>>) = "Secure"
        BY <1>2, <2>3, <2>5 DEF validate_denial, verify_authority_rrsets
    <2> QED
        BY <1>4, <2>6 DEF sets
<1>5. CASE q \notin z.own
    <2>1. {r \in sets : r.owner = q} = {}
        BY <1>3, <1>5
    <2> HIDE DEF sets
    <2>2. prove_denial_nsec(sets, q, "NoError") = "Insecure"
        BY <2>1 DEF prove_denial_nsec
    <2>3. validate_denial(sets, {}, q, "NoError", <<>>) = "Insecure"
        BY <1>2, <2>2 DEF validate_denial, verify_authority_rrsets
    <2> QED
        BY <1>5, <2>3 DEF sets
<1> QED
    BY <1>4, <1>5

---------------------------------------------------------------------------
(* NSEC3. *)

\* The names that exist, under their hashes.
Nodes(z, hash) == {n \in DOMAIN hash : Exists(z, n)}
Points(z, hash) == {hash[n] : n \in Nodes(z, hash)}

\* A record of the chain belongs to a node.
LEMMA Nsec3Record ==
    ASSUME NEW z, NEW hash, NEW r \in Nsec3Chain(z, hash)
    PROVE  \E n \in Nodes(z, hash) :
              /\ r.owner = hash[n] /\ r.next = NextHash(Points(z, hash), hash[n])
              /\ r.bits = (n \in z.has) /\ r.sig = "valid"
<1>1. PICK n \in Nodes(z, hash) :
         r = [owner |-> hash[n], next |-> NextHash(Points(z, hash), hash[n]),
              bits |-> n \in z.has, sig |-> "valid"]
    BY DEF Nsec3Chain, Nodes, Points
<1>2. r.bits = (n \in z.has)
    BY <1>1
<1> QED
    BY <1>1, <1>2

\* Every node has its record.
LEMMA Nsec3Node ==
    ASSUME NEW z, NEW hash, NEW n \in Nodes(z, hash)
    PROVE  \E r \in Nsec3Chain(z, hash) :
              /\ r.owner = hash[n] /\ r.next = NextHash(Points(z, hash), hash[n])
              /\ r.bits = (n \in z.has) /\ r.sig = "valid"
<1> DEFINE r == [owner |-> hash[n], next |-> NextHash(Points(z, hash), hash[n]),
                 bits |-> n \in z.has, sig |-> "valid"]
<1>1. r \in Nsec3Chain(z, hash)
    BY DEF Nsec3Chain, Nodes, Points
<1>2. r.bits = (n \in z.has)
    OBVIOUS
<1> QED
    BY <1>1, <1>2

\* The next hash is the least one that follows, or the least of all after the last.
LEMMA NextHashIsNext ==
    ASSUME NEW S \in SUBSET Nat, NEW h \in S
    PROVE  /\ NextHash(S, h) \in S
           /\ (\E x \in S : h < x) =>
                 h < NextHash(S, h) /\ \A x \in S : h < x => NextHash(S, h) <= x
           /\ ~(\E x \in S : h < x) => \A x \in S : NextHash(S, h) <= x
<1> DEFINE after == {x \in S : h < x}
<1>1. ASSUME NEW T \in SUBSET Nat, T # {}
      PROVE  Min(T) \in T /\ \A x \in T : Min(T) <= x
    <2>1. PICK y \in T : \A x \in T : y <= x
        BY <1>1, LeastNat
    <2>2. \A x \in T : y =< x
        BY <2>1
    <2> QED
        BY <2>1 DEF Min
<1>2. CASE after = {}
    <2>1. NextHash(S, h) = Min(S)
        BY <1>2 DEF NextHash
    <2>2. Min(S) \in S /\ \A x \in S : Min(S) <= x
        BY <1>1
    <2> QED
        BY <1>2, <2>1, <2>2
<1>3. CASE after # {}
    <2>1. NextHash(S, h) = Min(after)
        BY <1>3 DEF NextHash
    <2>2. after \in SUBSET Nat
        OBVIOUS
    <2>3. Min(after) \in after /\ \A x \in after : Min(after) <= x
        <3> HIDE DEF after
        <3> QED
            BY <1>1, <1>3, <2>2
    <2> QED
        BY <1>3, <2>1, <2>3
<1> QED
    BY <1>2, <1>3

\* No node lies inside an interval of the chain.
LEMMA HashGapsAreEmpty ==
    ASSUME NEW z, NEW hash, Points(z, hash) \in SUBSET Nat,
           NEW r \in Nsec3Chain(z, hash), NEW h \in Points(z, hash)
    PROVE  ~hash_in_range(h, r.owner, r.next)
<1>1. r.owner \in Points(z, hash) /\ r.next = NextHash(Points(z, hash), r.owner)
    BY Nsec3Record, SMTT(30) DEF Points
<1> DEFINE S == Points(z, hash)
           o == r.owner
           x == r.next
<1>2. /\ o \in S /\ x \in S /\ h \in S /\ S \in SUBSET Nat
      /\ (\E y \in S : o < y) => o < x /\ \A y \in S : o < y => x <= y
      /\ ~(\E y \in S : o < y) => \A y \in S : x <= y
    BY <1>1, NextHashIsNext, SMTT(30)
<1> HIDE DEF S, o, x
<1>3. ~hash_in_range(h, o, x)
    BY <1>2, SMTT(30) DEF hash_in_range
<1> QED
    BY <1>3 DEF o, x

\* A hash that is no node's lies in an interval, if there are two nodes.
LEMMA HashGapsCover ==
    ASSUME NEW S \in SUBSET Nat, IsFiniteSet(S), NEW a \in S, NEW b \in S, a # b,
           NEW h \in Nat, h \notin S
    PROVE  \E p \in S : hash_in_range(h, p, NextHash(S, p))
<1> DEFINE below == {p \in S : p < h}
           R == {e \in S \X S : e[1] > e[2]}
<1>0. \A x \in S : x \in Nat
    OBVIOUS
<1>1. PICK last \in S : \A x \in S : x <= last
    <2>1. \A x, y \in S : <<x, y>> \in R <=> x > y
        OBVIOUS
    <2>2. (\A x \in S : <<x, x>> \notin R) /\
          (\A x, y, w \in S : <<x, y>> \in R /\ <<y, w>> \in R => <<x, w>> \in R)
        BY <2>1, SMTT(30)
    <2> HIDE DEF R
    <2>3. PICK y \in S : \A x \in S : <<x, y>> \notin R
        BY <2>2, MinimalElement
    <2>4. \A x \in S : ~(x > y) /\ x \in Nat /\ y \in Nat
        BY <1>0, <2>1, <2>3
    <2> QED
        BY <2>4, SMTT(30)
<1>2. ASSUME NEW p \in S, \A x \in S : x <= p
      PROVE  NextHash(S, p) \in S /\ NextHash(S, p) < p /\ \A x \in S : NextHash(S, p) <= x
    <2>1. ~\E x \in S : p < x
        BY <1>2, SMTT(30)
    <2>2. NextHash(S, p) \in S /\ \A x \in S : NextHash(S, p) <= x
        BY <2>1, NextHashIsNext
    <2>3. NextHash(S, p) # p
        <3> SUFFICES ASSUME NextHash(S, p) = p
                     PROVE  FALSE
            OBVIOUS
        <3>1. a <= p /\ p <= a /\ b <= p /\ p <= b
            BY <1>2, <2>2
        <3> QED
            BY <3>1, <1>0, SMTT(30)
    <2>4. NextHash(S, p) <= p /\ NextHash(S, p) \in Nat /\ p \in Nat
        BY <1>0, <2>2
    <2> QED
        BY <2>2, <2>3, <2>4, SMTT(30)
<1>3. CASE below = {}
    <2>1. \A x \in S : h < x
        BY <1>3, SMTT(30)
    <2>2. hash_in_range(h, last, NextHash(S, last))
        BY <1>1, <1>2, <2>1 DEF hash_in_range
    <2> QED
        BY <2>2
<1>4. CASE below # {}
    <2>1. below \in SUBSET Nat
        BY <1>0
    <2>6. \A x \in below : x <= h
        BY <1>0, SMTT(30)
    <2> DEFINE p == Max(below)
    <2>2. p \in below /\ \A x \in below : x <= p
        <3> HIDE DEF below
        <3> QED
            BY <1>4, <2>1, <2>6, GreatestNat
    <2> HIDE DEF p
    <2>3. p \in S /\ p < h /\ p \in Nat /\ \A x \in S : x < h => x <= p
        BY <2>2
    <2>4. CASE \E x \in S : p < x
        <3>1. NextHash(S, p) \in S /\ p < NextHash(S, p)
            BY <2>3, <2>4, NextHashIsNext
        <3>2. h < NextHash(S, p)
            <4>1. NextHash(S, p) \in Nat /\ NextHash(S, p) # h
                BY <1>0, <3>1
            <4>2. ~(NextHash(S, p) < h)
                <5> SUFFICES ASSUME NextHash(S, p) < h
                             PROVE  FALSE
                    OBVIOUS
                <5>1. NextHash(S, p) <= p
                    BY <2>3, <3>1
                <5> QED
                    BY <2>3, <3>1, <4>1, <5>1, SMTT(30)
            <4> QED
                BY <4>1, <4>2, SMTT(30)
        <3> QED
            BY <2>3, <3>2 DEF hash_in_range
    <2>5. CASE ~\E x \in S : p < x
        <3>1. NextHash(S, p) \in S /\ NextHash(S, p) < p
            BY <1>2, <2>3, <2>5, SMTT(30)
        <3> QED
            BY <2>3, <3>1 DEF hash_in_range
    <2> QED
        BY <2>4, <2>5
<1> QED
    BY <1>3, <1>4

\* What is known of a zone, a name asked for in it and a hash function.
LEMMA Nsec3Facts ==
    ASSUME NEW z \in Nsec3Zones, NEW q \in Nsec3Queries, NEW hash \in Hashes
    PROVE  /\ IsZone(z) /\ q \in Seq(Nat) /\ Len(q) \in Nat
           /\ \A a, b \in DOMAIN hash : hash[a] = hash[b] => a = b
           /\ \A k \in 0..Len(q) : trim_to(q, k) \in DOMAIN hash
           /\ \A k \in 0..(Len(q) - 1) : wildcard(trim_to(q, k)) \in DOMAIN hash
           /\ q \in DOMAIN hash
           /\ Points(z, hash) \in SUBSET Nat /\ IsFiniteSet(Points(z, hash))
           /\ Apex \in Nodes(z, hash)
           /\ \A n \in DOMAIN hash : hash[n] \in Points(z, hash) => n \in Nodes(z, hash)
<1>1. IsZone(z) /\ q \in Seq(Nat) /\ IsHash(hash) /\ Len(q) \in Nat
    BY ZoneAssumption, SMTT(30)
<1>2. q = trim_to(q, Len(q)) /\ Len(q) \in 0..Len(q)
    BY <1>1, OwnExists, SMTT(30)
<1>3. /\ \A k \in 0..Len(q) : trim_to(q, k) \in DOMAIN hash
      /\ \A k \in 0..(Len(q) - 1) : wildcard(trim_to(q, k)) \in DOMAIN hash
      /\ q \in DOMAIN hash
    BY <1>1, <1>2 DEF IsHash
<1>4. /\ \A a, b \in DOMAIN hash : hash[a] = hash[b] => a = b
      /\ \A n \in DOMAIN hash : hash[n] \in Nat
    BY <1>1 DEF IsHash
<1>5. Points(z, hash) \in SUBSET Nat
    BY <1>4 DEF Points, Nodes
<1>6. IsFiniteSet(Points(z, hash))
    <2> DEFINE N == Nodes(z, hash)
               P == Points(z, hash)
               f == [n \in N |-> hash[n]]
    <2>1. IsFiniteSet(N)
        <3>1. N \in SUBSET DOMAIN hash
            BY DEF Nodes
        <3> QED
            BY <1>1, <3>1, FS_Subset DEF IsHash
    <2>2. f \in Surjection(N, P)
        BY DEF Surjection, Points
    <2> HIDE DEF N, P, f
    <2>3. IsFiniteSet(P)
        BY <2>1, <2>2, FS_Surjection
    <2> QED
        BY <2>3 DEF P
<1>7. Apex \in Nodes(z, hash)
    <2>1. Apex \in z.own /\ Apex \in Seq(Nat) /\ Len(Apex) = 0
        BY <1>1 DEF IsZone, Apex
    <2>2. trim_to(Apex, 0) = Apex /\ Exists(z, Apex)
        BY <1>1, <2>1, OwnExists
    <2>3. Apex \in DOMAIN hash
        BY <1>1, <2>1, <2>2, SMTT(30) DEF IsHash
    <2> QED
        BY <2>2, <2>3 DEF Nodes
<1>8. \A n \in DOMAIN hash : hash[n] \in Points(z, hash) => n \in Nodes(z, hash)
    BY <1>4 DEF Points, Nodes
<1> QED
    BY <1>1, <1>3, <1>4, <1>5, <1>6, <1>7, <1>8

\* What the zone has is not proved absent.
LEMMA Nsec3Sound ==
    ASSUME NEW z \in Nsec3Zones, NEW q \in Nsec3Queries, NEW hash \in Hashes,
           NEW records \in SUBSET Nsec3Chain(z, hash), NEW rcode \in {"NoError", "NXDomain"},
           validate_denial({}, records, q, rcode, hash) = "Secure"
    PROVE  /\ q \notin z.has
           /\ rcode = "NXDomain" => q \notin z.own
           /\ \/ ~Positive(z, q)
              \/ /\ rcode = "NXDomain"
                 /\ \E r \in records : r.owner = hash[wildcard(Encloser(z, q))]
<1>0. prove_denial_nsec3(records, q, rcode, hash) = "Secure"
    BY DEF validate_denial
<1>1. CASE rcode = "NoError"
    <2>1. PICK r \in records : r.owner = hash[q] /\ ~r.bits
        BY <1>0, <1>1 DEF prove_denial_nsec3
    <2>2. PICK n \in Nodes(z, hash) : r.owner = hash[n] /\ r.bits = (n \in z.has)
        BY Nsec3Record
    <2>3. n = q
        BY <2>1, <2>2, Nsec3Facts DEF Nodes
    <2>4. n \notin z.has
        BY <2>1, <2>2
    <2> QED
        BY <1>1, <2>2, <2>3, <2>4 DEF Positive, Nodes
<1>2. CASE rcode = "NXDomain"
    <2> DEFINE Owns(n) == \E r \in records : r.owner = hash[n]
               enclosers == {k \in 0..(Len(q) - 1) : Owns(trim_to(q, k))}
               m == Max(enclosers)
               nc == trim_to(q, m + 1)
               star == wildcard(trim_to(q, m))
    <2>1. /\ enclosers # {}
          /\ \E r \in records : hash_in_range(hash[nc], r.owner, r.next)
          /\ \E r \in records : hash_in_range(hash[star], r.owner, r.next) \/ r.owner = hash[star]
        BY <1>0, <1>2 DEF prove_denial_nsec3
    <2>2. PICK r \in records : hash_in_range(hash[nc], r.owner, r.next)
        BY <2>1
    <2>3. m + 1 \in 0..Len(q) /\ m \in 0..(Len(q) - 1) /\ Owns(trim_to(q, m))
        <3>1. Len(q) \in Nat
            BY Nsec3Facts
        <3>2. enclosers \in SUBSET Nat /\ \A k \in enclosers : k <= Len(q) /\ k < Len(q)
            BY <3>1, SMTT(30)
        <3> HIDE DEF enclosers
        <3>3. Max(enclosers) \in enclosers
            BY <2>1, <3>1, <3>2, GreatestNat
        <3>4. Max(enclosers) \in Nat /\ Max(enclosers) < Len(q)
            BY <3>2, <3>3
        <3>5. Owns(trim_to(q, m))
            BY <3>3 DEF enclosers
        <3> HIDE DEF Owns
        <3> QED
            BY <3>1, <3>4, <3>5, SMTT(30)
    <2> HIDE DEF m
    <2>4. nc \in DOMAIN hash
        BY <2>3, Nsec3Facts, SMTT(30)
    <2>5. hash[nc] \notin Points(z, hash)
        BY <2>2, Nsec3Facts, HashGapsAreEmpty
    <2>6. ~Exists(z, nc)
        BY <2>4, <2>5 DEF Points, Nodes
    <2>7. ~Exists(z, q)
        BY <2>3, <2>6, Nsec3Facts, AncestorsExist
    <2>8. q \notin z.own
        BY <2>7, Nsec3Facts, OwnExists
    <2>9. Encloser(z, q) = trim_to(q, m)
        <3>0. IsZone(z) /\ q \in Seq(Nat)
            BY Nsec3Facts
        <3>1. PICK k \in 0..Len(q) : /\ Encloser(z, q) = trim_to(q, k)
                                     /\ Exists(z, trim_to(q, k))
                                     /\ \A j \in 0..Len(q) : Exists(z, trim_to(q, j)) => j <= k
            BY <3>0, EncloserIsLongest
        <3>2. Exists(z, trim_to(q, m))
            <4>1. PICK r1 \in records : r1.owner = hash[trim_to(q, m)]
                BY <2>3
            <4>2. r1.owner \in Points(z, hash)
                <5>1. PICK n \in Nodes(z, hash) : r1.owner = hash[n]
                    BY Nsec3Record
                <5> QED
                    BY <5>1 DEF Points
            <4>3. trim_to(q, m) \in DOMAIN hash
                BY <2>3, Nsec3Facts, SMTT(30)
            <4> QED
                BY <4>1, <4>2, <4>3, Nsec3Facts DEF Nodes
        <3>3. m <= k
            BY <2>3, <3>1, <3>2, Nsec3Facts, SMTT(30)
        <3>4. ~(m + 1 <= k)
            <4> SUFFICES ASSUME m + 1 <= k
                         PROVE  FALSE
                OBVIOUS
            <4> DEFINE t == trim_to(q, k)
            <4>1. t \in Seq(Nat) /\ Len(t) = k
                BY Nsec3Facts, TrimTo
            <4>2. m + 1 \in 0..Len(t)
                BY <2>3, <4>1, Nsec3Facts, SMTT(30)
            <4>3. trim_to(t, m + 1) = nc
                <5>1. m + 1 \in 0..k
                    BY <2>3, Nsec3Facts, SMTT(30)
                <5> QED
                    BY <3>0, <5>1, TrimTwice
            <4>4. Exists(z, t)
                BY <3>1
            <4> HIDE DEF t
            <4> QED
                BY <2>6, <4>1, <4>2, <4>3, <4>4, Nsec3Facts, AncestorsExist
        <3>5. k = m
            BY <2>3, <3>3, <3>4, Nsec3Facts, SMTT(30)
        <3> QED
            BY <3>1, <3>5
    <2>10. PICK r2 \in records : hash_in_range(hash[star], r2.owner, r2.next) \/ r2.owner = hash[star]
        BY <2>1
    <2>11. ASSUME hash_in_range(hash[star], r2.owner, r2.next)
           PROVE  star \notin z.own
        <3>1. star \in DOMAIN hash
            BY <2>3, Nsec3Facts
        <3>2. hash[star] \notin Points(z, hash)
            BY <2>11, Nsec3Facts, HashGapsAreEmpty
        <3>3. ~Exists(z, star)
            BY <3>1, <3>2 DEF Points, Nodes
        <3> HIDE DEF star
        <3> QED
            BY <3>3, Nsec3Facts, OwnExists DEF IsZone
    <2> QED
        BY <1>2, <2>7, <2>8, <2>9, <2>10, <2>11, Nsec3Facts DEF IsZone, Positive
<1> QED
    BY <1>1, <1>2

\* A chain of more than one record has two points.
LEMMA TwoPoints ==
    ASSUME NEW z, NEW hash, NEW n \in Nodes(z, hash),
           \A a, b \in DOMAIN hash : hash[a] = hash[b] => a = b,
           Cardinality(Nsec3Chain(z, hash)) # 1
    PROVE  \E a, b \in Points(z, hash) : a # b
<1> SUFFICES ASSUME \A a, b \in Points(z, hash) : a = b
             PROVE  FALSE
    OBVIOUS
<1>1. \A m \in Nodes(z, hash) : m = n
    BY SMTT(30) DEF Points, Nodes
<1> DEFINE r == [owner |-> hash[n], next |-> NextHash(Points(z, hash), hash[n]),
                 bits |-> n \in z.has, sig |-> "valid"]
<1>2. Nsec3Chain(z, hash) = {[owner |-> hash[m], next |-> NextHash(Points(z, hash), hash[m]),
                              bits |-> m \in z.has, sig |-> "valid"] : m \in Nodes(z, hash)}
    BY DEF Nsec3Chain, Nodes, Points
<1>3. Nsec3Chain(z, hash) = {r}
    BY <1>1, <1>2
<1> HIDE DEF r
<1> QED
    BY <1>3, FS_Singleton

\* An honest denial of a name is accepted in a zone of more than one name.
LEMMA Nsec3NameDenied ==
    ASSUME NEW z \in Nsec3Zones, NEW q \in Nsec3Queries, NEW hash \in Hashes,
           ~Exists(z, q), Cardinality(Nsec3Chain(z, hash)) # 1
    PROVE  validate_denial({}, Nsec3Proof(z, q, hash), q, "NXDomain", hash) = "Secure"
<1> DEFINE sets == Nsec3Proof(z, q, hash)
           S == Points(z, hash)
           ce == Encloser(z, q)
<1>0. /\ IsZone(z) /\ q \in Seq(Nat) /\ Len(q) \in Nat
      /\ \A a, b \in DOMAIN hash : hash[a] = hash[b] => a = b
      /\ \A k \in 0..Len(q) : trim_to(q, k) \in DOMAIN hash
      /\ \A k \in 0..(Len(q) - 1) : wildcard(trim_to(q, k)) \in DOMAIN hash
      /\ S \in SUBSET Nat /\ IsFiniteSet(S)
      /\ Apex \in Nodes(z, hash)
      /\ \A n \in DOMAIN hash : hash[n] \in S => n \in Nodes(z, hash)
    BY Nsec3Facts
<1>1. PICK m \in 0..Len(q) : /\ ce = trim_to(q, m)
                             /\ Exists(z, trim_to(q, m))
                             /\ \A k \in 0..Len(q) : Exists(z, trim_to(q, k)) => k <= m
    BY <1>0, EncloserIsLongest
<1>2. m \in 0..(Len(q) - 1) /\ m + 1 \in 0..Len(q) /\ Len(ce) = m /\ m \in Nat
    <2>1. m # Len(q)
        BY <1>0, <1>1, OwnExists
    <2>2. Len(ce) = m
        BY <1>0, <1>1, TrimTo, SMTT(30)
    <2> QED
        BY <1>0, <2>1, <2>2, SMTT(30)
<1> DEFINE nc == trim_to(q, m + 1)
           star == wildcard(ce)
<1>3. {r.owner : r \in Nsec3Chain(z, hash)} = S
    <2>1. ASSUME NEW r \in Nsec3Chain(z, hash)
          PROVE  r.owner \in S
        <3>1. PICK n \in Nodes(z, hash) : r.owner = hash[n]
            BY Nsec3Record
        <3> QED
            BY <3>1 DEF Points
    <2>2. ASSUME NEW h \in S
          PROVE  \E r \in Nsec3Chain(z, hash) : r.owner = h
        <3>1. PICK n \in Nodes(z, hash) : h = hash[n]
            BY <2>2 DEF Points
        <3> QED
            BY <3>1, Nsec3Node, SMTT(30)
    <2> QED
        BY <2>1, <2>2
<1>4. sets \subseteq Nsec3Chain(z, hash)
    BY DEF Nsec3Proof
<1>5. \E r \in sets : r.owner = hash[ce]
    <2>1. ce \in Nodes(z, hash)
        BY <1>0, <1>1 DEF Nodes
    <2> QED
        BY <2>1, Nsec3Node, SMTT(30) DEF Nsec3Proof
<1>6. ASSUME NEW n \in {nc, star}, n \in DOMAIN hash, hash[n] \in Nat, hash[n] \notin S
      PROVE  \E r \in sets : hash_in_range(hash[n], r.owner, r.next)
    <2>1. PICK p \in S : hash_in_range(hash[n], p, NextHash(S, p))
        <3> HIDE DEF S
        <3>1. PICK a, b \in S : a # b
            BY <1>0, TwoPoints DEF S
        <3> QED
            BY <1>0, <1>6, <3>1, HashGapsCover
    <2>2. PICK r \in Nsec3Chain(z, hash) : r.owner = p /\ r.next = NextHash(S, p)
        <3>1. PICK k \in Nodes(z, hash) : p = hash[k]
            BY <2>1 DEF Points
        <3> QED
            BY <3>1, Nsec3Node, SMTT(30)
    <2>3. hash_in_range(hash[n], r.owner, r.next)
        BY <2>1, <2>2
    <2>4. r.owner \in Nat /\ r.next \in Nat
        BY <1>0, <2>1, <2>2, NextHashIsNext
    <2>5. \/ r.owner < hash[n] /\ hash[n] < r.next
          \/ r.next <= r.owner /\ (hash[n] > r.owner \/ hash[n] < r.next)
        BY <1>6, <2>3, <2>4, SMTT(30) DEF hash_in_range
    <2>6. r \in sets
        <3>1. hash[n] \notin {r0.owner : r0 \in Nsec3Chain(z, hash)}
            BY <1>3, <1>6
        <3> QED
            BY <1>2, <2>5, <3>1 DEF Nsec3Proof
    <2> QED
        BY <2>3, <2>6
<1>7. ASSUME hash[star] \in S
      PROVE  \E r \in sets : r.owner = hash[star]
    <2>1. PICK r \in Nsec3Chain(z, hash) : r.owner = hash[star]
        BY <1>3, <1>7
    <2>2. r \in sets
        BY <1>3, <1>7, <2>1 DEF Nsec3Proof
    <2> QED
        BY <2>1, <2>2
<1>8. nc \in DOMAIN hash /\ star \in DOMAIN hash /\ hash[nc] \in Nat /\ hash[star] \in Nat
    <2>1. IsHash(hash)
        BY ZoneAssumption
    <2> QED
        BY <1>0, <1>1, <1>2, <2>1 DEF IsHash
<1>9. hash[nc] \notin S
    <2>1. ~Exists(z, nc)
        BY <1>1, <1>2, SMTT(30)
    <2> QED
        BY <1>0, <1>8, <2>1 DEF Nodes
<1> DEFINE enclosers == {k \in 0..(Len(q) - 1) : \E r \in sets : r.owner = hash[trim_to(q, k)]}
<1>10. Max(enclosers) = m /\ enclosers # {}
    <2>1. m \in enclosers
        BY <1>1, <1>2, <1>5
    <2>2. ASSUME NEW k \in enclosers
          PROVE  k <= m /\ k \in Nat
        <3>1. k \in 0..Len(q)
            BY <1>0, SMTT(30)
        <3>2. PICK r \in sets : r.owner = hash[trim_to(q, k)]
            BY <2>2
        <3>3. hash[trim_to(q, k)] \in S
            BY <1>3, <1>4, <3>2
        <3>4. Exists(z, trim_to(q, k))
            BY <1>0, <3>1, <3>3 DEF Nodes
        <3> QED
            BY <1>1, <3>1, <3>4, SMTT(30)
    <2> HIDE DEF enclosers
    <2>3. Max(enclosers) \in enclosers /\ \A k \in enclosers : k <= Max(enclosers)
        BY <1>2, <2>1, <2>2, GreatestNat
    <2>4. m <= Max(enclosers) /\ Max(enclosers) <= m /\ Max(enclosers) \in Nat
        BY <2>1, <2>2, <2>3
    <2> QED
        BY <1>2, <2>1, <2>4, SMTT(30)
<1>11. prove_denial_nsec3(sets, q, "NXDomain", hash) = "Secure"
    <2>1. \E r \in sets : hash_in_range(hash[nc], r.owner, r.next)
        BY <1>6, <1>8, <1>9
    <2>2. (\E r \in sets : hash_in_range(hash[star], r.owner, r.next)) \/
          (\E r \in sets : r.owner = hash[star])
        BY <1>6, <1>7, <1>8
    <2>3. star = wildcard(trim_to(q, m))
        BY <1>1
    <2> HIDE DEF sets, S, ce, star
    <2> QED
        BY <1>10, <2>1, <2>2, <2>3 DEF prove_denial_nsec3
<1>12. \A r \in sets : r.sig = "valid"
    BY <1>4, Nsec3Record
<1>13. sets # {}
    BY <1>5
<1> HIDE DEF sets
<1> QED
    BY <1>11, <1>12, <1>13 DEF validate_denial, verify_authority_rrsets, sets

\* An honest denial of a type is accepted for a name that exists.
LEMMA Nsec3TypeDenied ==
    ASSUME NEW z \in Nsec3Zones, NEW q \in Nsec3Queries, NEW hash \in Hashes, ~Positive(z, q)
    PROVE  validate_denial({}, Nsec3Proof(z, q, hash), q, "NoError", hash)
              = IF Exists(z, q) THEN "Secure" ELSE "Insecure"
<1> DEFINE sets == Nsec3Proof(z, q, hash)
<1>0. /\ q \in DOMAIN hash
      /\ \A a, b \in DOMAIN hash : hash[a] = hash[b] => a = b
    BY Nsec3Facts
<1>1. sets \subseteq Nsec3Chain(z, hash)
    BY DEF Nsec3Proof
<1>2. \A r \in sets : r.sig = "valid"
    BY <1>1, Nsec3Record
<1>3. ASSUME NEW r \in sets, r.owner = hash[q]
      PROVE  ~r.bits /\ Exists(z, q)
    <2>1. PICK n \in Nodes(z, hash) : r.owner = hash[n] /\ r.bits = (n \in z.has)
        BY <1>1, Nsec3Record
    <2>2. n = q
        BY <1>0, <1>3, <2>1 DEF Nodes
    <2>3. q \notin z.has
        BY DEF Positive
    <2> QED
        BY <2>1, <2>2, <2>3 DEF Nodes
<1>4. CASE Exists(z, q)
    <2>0. q \in Nodes(z, hash)
        BY <1>0, <1>4 DEF Nodes
    <2>1. PICK r \in Nsec3Chain(z, hash) : r.owner = hash[q]
        BY <2>0, Nsec3Node, SMTT(30)
    <2>2. r \in sets
        BY <1>4, <2>1 DEF Nsec3Proof
    <2> HIDE DEF sets
    <2>3. prove_denial_nsec3(sets, q, "NoError", hash) = "Secure"
        BY <1>3, <2>1, <2>2 DEF prove_denial_nsec3
    <2>4. validate_denial({}, sets, q, "NoError", hash) = "Secure"
        BY <1>2, <2>2, <2>3 DEF validate_denial, verify_authority_rrsets
    <2> QED
        BY <1>4, <2>4 DEF sets
<1>5. CASE ~Exists(z, q)
    <2>1. {r \in sets : r.owner = hash[q]} = {}
        BY <1>3, <1>5
    <2> HIDE DEF sets
    <2>2. prove_denial_nsec3(sets, q, "NoError", hash) = "Insecure"
        BY <2>1 DEF prove_denial_nsec3
    <2>3. validate_denial({}, sets, q, "NoError", hash) = "Insecure"
        BY <1>2, <2>2 DEF validate_denial, verify_authority_rrsets
    <2> QED
        BY <1>5, <2>3 DEF sets
<1> QED
    BY <1>4, <1>5

---------------------------------------------------------------------------
(* The questions and their answers. *)

\* A question of each topic, and the answer the code gives to it.
Asked == AskNsec \/ AskNsec3 \/ AskSignature \/ AskTtl \/ AskNat64
Answered ==
    output # <<>> =>
        /\ topic = "nsec" => Answer = validate_denial(Signed(input.records, input.sig), {},
                                                      input.q, input.rcode, <<>>)
        /\ topic = "nsec3" => Answer = validate_denial({}, input.records, input.q,
                                                       input.rcode, input.hash)
        /\ topic = "signature" =>
              (Answer <=> check_rrsig_validity(input.inception, input.expiration, input.now,
                                               Skew, Word))
        /\ topic = "ttl" => Answer = compute_ttl(input.cfg, input.msg)
        /\ topic = "nat64" => Answer = rewrite_ptr_question(input.prefix,
                                          ArpaLabels(embed_v4(input.other, input.v4)))
DecisionInv == Asked /\ Answered

\* The questions are of the form the resolver puts, and each has its answer.
THEOREM DecisionInvariant == Spec => []DecisionInv
<1>1. Ask => DecisionInv
    BY DEF Ask, DecisionInv, Asked, Answered
<1>2. DecisionInv /\ [Decide]_<<topic, input, output>> => DecisionInv'
    <2> SUFFICES ASSUME DecisionInv, [Decide]_<<topic, input, output>>
                 PROVE  DecisionInv'
        OBVIOUS
    <2>1. CASE Decide
        <3>1. Asked'
            BY <2>1 DEF Decide, DecisionInv, Asked, AskNsec, AskNsec3, AskSignature, AskTtl, AskNat64
        <3>2. Answered'
            BY <2>1, SMTT(30) DEF Decide, Answered, Answer, DecideNsec, DecideNsec3, DecideSignature,
                        DecideTtl, DecideNat64
        <3> QED
            BY <3>1, <3>2 DEF DecisionInv
    <2>2. CASE UNCHANGED <<topic, input, output>>
        BY <2>2, SMTT(30) DEF DecisionInv, Asked, Answered, Answer, AskNsec, AskNsec3, AskSignature, AskTtl,
                    AskNat64
    <2> QED
        BY <2>1, <2>2
<1> QED
    BY <1>1, <1>2, PTL DEF Spec

\* For every zone and every part of its chain, validate_denial calls no denial
\* Secure of what the zone has under the name, nor, outside the two kinds of proof
\* that overlook it, of what a wildcard answers for it; and it accepts the honest
\* ones it can.
THEOREM DenialsAreExact == Spec => []DenialIsExact
<1>1. ASSUME DecisionInv, Decided("nsec")
      PROVE  DenialIsExact
    <2>0. PICK z \in NsecZones, q \in NsecQueries, rcode \in {"NoError", "NXDomain"},
               sig \in {"valid", "absent", "expired"} :
             \E records \in SUBSET NsecChain(z) :
                input = [zone |-> z, q |-> q, rcode |-> rcode, records |-> records, sig |-> sig]
        BY <1>1 DEF DecisionInv, Asked, Decided, AskNsec, AskNsec3, AskSignature, AskTtl, AskNat64
    <2>1. PICK records \in SUBSET NsecChain(z) :
             input = [zone |-> z, q |-> q, rcode |-> rcode, records |-> records, sig |-> sig]
        BY <2>0
    <2>2. /\ input.zone = z /\ input.q = q /\ input.rcode = rcode
          /\ input.records = records /\ input.sig = sig /\ topic = "nsec"
        BY <1>1, <2>1 DEF Decided
    <2>3. IsZone(z) /\ q \in Seq(Nat)
        BY ZoneAssumption
    <2>4. Answer = validate_denial(Signed(records, sig), {}, q, rcode, <<>>)
        BY <1>1, <2>2 DEF DecisionInv, Answered, Decided
    <2>5. Answer = "Secure" =>
             /\ sig = "valid" /\ q \notin z.has
             /\ rcode = "NXDomain" => q \notin z.own
             /\ Positive(z, q) => WildcardOverlooked
        <3> SUFFICES ASSUME Answer = "Secure"
                     PROVE  /\ sig = "valid" /\ q \notin z.has
                            /\ rcode = "NXDomain" => q \notin z.own
                            /\ Positive(z, q) => WildcardOverlooked
            OBVIOUS
        <3>1. /\ sig = "valid" /\ q \notin z.has
              /\ rcode = "NXDomain" => q \notin z.own
              /\ \/ ~Positive(z, q)
                 \/ /\ rcode = "NXDomain"
                    /\ \E r \in records : closest_encloser(q, {r.owner, r.next}) # Encloser(z, q)
            BY <2>1, <2>3, <2>4, NsecSound
        <3> QED
            BY <2>2, <3>1 DEF WildcardOverlooked
    <2>6. ASSUME Honest, ~Unprovable
          PROVE  Answer = IF rcode = "NXDomain" \/ q \in z.own THEN "Secure" ELSE "Insecure"
        <3>1. /\ ~Positive(z, q) /\ rcode = Rcode(z, q) /\ sig = "valid"
              /\ records = NsecProof(z, q)
            BY <2>2, <2>6 DEF Honest
        <3>2. Answer = validate_denial(NsecProof(z, q), {}, q, rcode, <<>>)
            BY <2>1, <2>4, <3>1, SignedValid
        <3>3. CASE rcode = "NXDomain"
            <4>1. ~InLastGap(z, q) /\ ~InLastGap(z, wildcard(Encloser(z, q)))
                BY <2>2, <2>6, <3>3 DEF Unprovable
            <4> QED
                BY <2>3, <3>1, <3>2, <3>3, <4>1, NsecNameDenied
        <3>4. CASE rcode = "NoError"
            BY <2>3, <3>1, <3>2, <3>4, NsecTypeDenied
        <3> QED
            BY <3>3, <3>4
    <2> QED
        BY <2>2, <2>5, <2>6 DEF DenialIsExact
<1>2. ASSUME DecisionInv, Decided("nsec3")
      PROVE  DenialIsExact
    <2>0. PICK z \in Nsec3Zones, q \in Nsec3Queries, rcode \in {"NoError", "NXDomain"},
               hash \in Hashes :
             \E records \in SUBSET Nsec3Chain(z, hash) :
                input = [zone |-> z, q |-> q, rcode |-> rcode, records |-> records,
                         sig |-> "valid", hash |-> hash]
        BY <1>2 DEF DecisionInv, Asked, Decided, AskNsec, AskNsec3, AskSignature, AskTtl, AskNat64
    <2>1. PICK records \in SUBSET Nsec3Chain(z, hash) :
             input = [zone |-> z, q |-> q, rcode |-> rcode, records |-> records,
                      sig |-> "valid", hash |-> hash]
        BY <2>0
    <2>2. /\ input.zone = z /\ input.q = q /\ input.rcode = rcode /\ input.hash = hash
          /\ input.records = records /\ input.sig = "valid" /\ topic = "nsec3"
        BY <1>2, <2>1 DEF Decided
    <2>3. IsZone(z) /\ q \in Seq(Nat)
        BY ZoneAssumption
    <2>4. Answer = validate_denial({}, records, q, rcode, hash)
        BY <1>2, <2>2 DEF DecisionInv, Answered, Decided
    <2>5. Answer = "Secure" =>
             /\ q \notin z.has
             /\ rcode = "NXDomain" => q \notin z.own
             /\ Positive(z, q) => WildcardOverlooked
        <3> SUFFICES ASSUME Answer = "Secure"
                     PROVE  /\ q \notin z.has
                            /\ rcode = "NXDomain" => q \notin z.own
                            /\ Positive(z, q) => WildcardOverlooked
            OBVIOUS
        <3>1. /\ q \notin z.has
              /\ rcode = "NXDomain" => q \notin z.own
              /\ \/ ~Positive(z, q)
                 \/ /\ rcode = "NXDomain"
                    /\ \E r \in records : r.owner = hash[wildcard(Encloser(z, q))]
            BY <2>1, <2>4, Nsec3Sound
        <3> QED
            BY <2>2, <3>1 DEF WildcardOverlooked
    <2>6. ASSUME Honest, ~Unprovable
          PROVE  Answer = IF rcode = "NXDomain" \/ Exists(z, q) THEN "Secure" ELSE "Insecure"
        <3>1. /\ ~Positive(z, q) /\ rcode = Rcode(z, q)
              /\ records = Nsec3Proof(z, q, hash)
            BY <2>2, <2>6 DEF Honest
        <3>2. CASE rcode = "NXDomain"
            <4>1. Cardinality(Nsec3Chain(z, hash)) # 1 /\ ~Exists(z, q)
                BY <2>2, <2>6, <3>1, <3>2 DEF Unprovable, Rcode
            <4> QED
                BY <2>4, <3>1, <3>2, <4>1, Nsec3NameDenied
        <3>3. CASE rcode = "NoError"
            BY <2>4, <3>1, <3>3, Nsec3TypeDenied
        <3> QED
            BY <3>2, <3>3
    <2>7. q \in z.own => Exists(z, q)
        BY <2>3, OwnExists
    <2> QED
        BY <2>2, <2>5, <2>6, <2>7 DEF DenialIsExact
<1>3. DecisionInv => DenialIsExact
    BY <1>1, <1>2 DEF DenialIsExact
<1> QED
    BY <1>3, DecisionInvariant, PTL

\* Times on the circle, by cases on which comes first.
LEMMA SinceCases ==
    ASSUME NEW a \in 0..(Word - 1), NEW b \in 0..(Word - 1)
    PROVE  Since(a, b) = IF a <= b THEN b - a ELSE b + Word - a
<1>1. Word \in Nat /\ Word > 0 /\ a \in Nat /\ b \in Nat /\ a < Word /\ b < Word
    BY NumberAssumption, SMTT(30)
<1>2. CASE a <= b
    <2>1. b - a \in 0..(Word - 1) /\ b + Word - a = (b - a) + Word
        BY <1>1, <1>2, SMTT(30)
    <2>2. \A n \in 0..(Word - 1) : (n + Word) % Word = n
        BY <1>1, SMTT(30)
    <2> QED
        BY <1>2, <2>1, <2>2 DEF Since
<1>3. CASE ~(a <= b)
    <2>1. b + Word - a \in 0..(Word - 1)
        BY <1>1, <1>3, SMTT(30)
    <2>2. \A n \in 0..(Word - 1) : n % Word = n
        BY <1>1, SMTT(30)
    <2> QED
        BY <1>3, <2>1, <2>2 DEF Since
<1> QED
    BY <1>2, <1>3

\* A sum with the skew wraps at most once.
LEMMA SkewWraps ==
    ASSUME NEW n \in 0..(Word - 1)
    PROVE  (n + Skew) % Word = IF n + Skew < Word THEN n + Skew ELSE n + Skew - Word
<1>1. Word \in Nat /\ Word > 0 /\ Skew \in Nat /\ 6 * Skew <= Word /\ n \in Nat /\ n < Word
    BY NumberAssumption, SMTT(30)
<1>2. \A x \in 0..(Word - 1) : x % Word = x /\ (x + Word) % Word = x
    BY <1>1, SMTT(30)
<1>3. CASE n + Skew < Word
    <2>1. n + Skew \in 0..(Word - 1)
        BY <1>1, <1>3, SMTT(30)
    <2> QED
        BY <1>2, <1>3, <2>1
<1>4. CASE ~(n + Skew < Word)
    <2> DEFINE x == n + Skew - Word
    <2>1. x \in 0..(Word - 1) /\ n + Skew = x + Word
        BY <1>1, <1>4, SMTT(30)
    <2> HIDE DEF x
    <2>2. (n + Skew) % Word = x
        BY <1>2, <2>1
    <2> QED
        BY <1>4, <2>2 DEF x
<1> QED
    BY <1>3, <1>4

\* check_rrsig_validity accepts no signature outside its window on the circle of
\* RFC 1982, and away from the end of the epoch none inside is rejected, for every
\* width of the words and every skew below a sixth of it.
THEOREM WindowIsRight == Spec => []SignatureWindow
<1>1. ASSUME DecisionInv, Decided("signature")
      PROVE  SignatureWindow
    <2>1. input \in [inception : 0..(Word - 1), expiration : 0..(Word - 1), now : 0..(Word - 1)]
        BY <1>1 DEF DecisionInv, Asked, Decided, AskNsec, AskNsec3, AskSignature, AskTtl, AskNat64
    <2> DEFINE a == input.inception
               b == input.expiration
               t == input.now
               n == (t + Skew) % Word
               e == (b + Skew) % Word
               at == Since(a, t)
               ab == Since(a, b)
               ta == Since(t, a)
    <2>2. a \in 0..(Word - 1) /\ b \in 0..(Word - 1) /\ t \in 0..(Word - 1)
        BY <2>1, SMTT(30)
    <2>3. Answer <=> b >= a /\ n >= a /\ t <= e
        BY <1>1 DEF DecisionInv, Answered, Decided, check_rrsig_validity
    <2> HIDE DEF a, b, t
    <2>4. /\ n = IF t + Skew < Word THEN t + Skew ELSE t + Skew - Word
          /\ e = IF b + Skew < Word THEN b + Skew ELSE b + Skew - Word
        BY <2>2, SkewWraps
    <2>5. /\ at = IF a <= t THEN t - a ELSE t + Word - a
          /\ ab = IF a <= b THEN b - a ELSE b + Word - a
          /\ ta = IF t <= a THEN a - t ELSE a + Word - t
        BY <2>2, SinceCases
    <2>6. Word \in Nat /\ Skew \in Nat /\ 6 * Skew <= Word
        BY NumberAssumption
    <2> HIDE DEF n, e, at, ab, ta
    <2>7. ASSUME b >= a, n >= a, t <= e, 2 * ab < Word
          PROVE  at <= ab + Skew \/ ta <= Skew
        BY <2>2, <2>4, <2>5, <2>6, <2>7, SMTT(30)
    <2>8. ASSUME at <= ab + Skew \/ ta <= Skew, ~(b < a), ~(t + Skew >= Word), ~(b + Skew >= Word)
          PROVE  b >= a /\ n >= a /\ t <= e
        BY <2>2, <2>4, <2>5, <2>6, <2>8, SMTT(30)
    <2>9. InWindow(input) <=> at <= ab + Skew \/ ta <= Skew
        BY DEF InWindow, at, ab, ta, a, b, t
    <2>10. AtEpochEnd(input) <=> b < a \/ t + Skew >= Word \/ b + Skew >= Word
        BY DEF AtEpochEnd, a, b, t
    <2>11. ab = Since(input.inception, input.expiration)
        BY DEF ab, a, b
    <2> QED
        BY <2>3, <2>7, <2>8, <2>9, <2>10, <2>11 DEF SignatureWindow
<1>2. DecisionInv => SignatureWindow
    BY <1>1 DEF SignatureWindow
<1> QED
    BY <1>2, DecisionInvariant, PTL

\* The lifetime of a response, for every configuration and every message.
THEOREM LifetimesAreHonest == Spec => []TtlIsHonest
<1>1. ASSUME DecisionInv, Decided("ttl")
      PROVE  TtlIsHonest
    <2>1. input.cfg \in CacheConfigs /\ input.msg \in Messages
        BY <1>1 DEF DecisionInv, Asked, Decided, AskNsec, AskNsec3, AskSignature, AskTtl, AskNat64
    <2> DEFINE c == input.cfg
               m == input.msg
    <2>2. /\ c.min_ttl \in Nat /\ c.max_ttl \in Nat
          /\ c.negative_ttl \in Nat /\ c.max_negative_ttl \in Nat
          /\ m.answers \subseteq Nat /\ m.minimum \in Nat
        BY <2>1, NumberAssumption
    <2>3. Answer = compute_ttl(c, m)
        BY <1>1 DEF DecisionInv, Answered, Decided
    <2> HIDE DEF c, m
    <2>4. ASSUME m.answers # {}
          PROVE  AnswerTtl(m.answers) \in Nat /\ \A t \in m.answers : AnswerTtl(m.answers) <= t
        <3>1. PICK x \in m.answers : \A y \in m.answers : x <= y
            BY <2>2, <2>4, LeastNat
        <3> QED
            BY <2>2, <3>1 DEF AnswerTtl, Min
    <2>5. /\ m.rcode = "ServFail" => Answer = 0
          /\ Answer > c.min_ttl =>
                /\ \A t \in m.answers : Answer <= t
                /\ Answer <= IF m.answers = {} THEN c.max_negative_ttl ELSE c.max_ttl
                /\ (m.answers = {} /\ m.soa) => Answer <= m.minimum
        <3>1. CASE m.answers = {} /\ m.rcode \in {"NXDomain", "NoError"}
            BY <2>2, <2>3, <3>1, SMTT(30) DEF compute_ttl, AtMost, AtLeast
        <3>2. CASE m.answers # {} /\ m.rcode = "NoError"
            BY <2>2, <2>3, <2>4, <3>2, SMTT(30) DEF compute_ttl, AtMost, AtLeast
        <3>3. CASE ~(m.answers = {} /\ m.rcode \in {"NXDomain", "NoError"})
                   /\ ~(m.answers # {} /\ m.rcode = "NoError")
            BY <2>2, <2>3, <3>3, SMTT(30) DEF compute_ttl
        <3> QED
            BY <3>1, <3>2, <3>3
    <2> QED
        BY <2>5 DEF TtlIsHonest, c, m
<1>2. DecisionInv => TtlIsHonest
    BY <1>1 DEF TtlIsHonest
<1> QED
    BY <1>2, DecisionInvariant, PTL

\* The ip6.arpa labels of an address are read back as that address.
LEMMA ArpaRoundTrip ==
    ASSUME NEW addr \in [1..16 -> Octet]
    PROVE  ip6_arpa_to_addr(ArpaLabels(addr)) = addr
<1> DEFINE nibbles == [k \in 1..32 |-> addr[(k + 1) \div 2][IF k % 2 = 1 THEN 1 ELSE 2]]
           labels == ArpaLabels(addr)
           back == Reverse(labels)
<1>1. \A k \in 1..32 : (k + 1) \div 2 \in 1..16
    BY SMTT(30)
<1>2. nibbles \in [1..32 -> Nat]
    BY <1>1 DEF Octet
<1>3. nibbles \in Seq(Nat) /\ Len(nibbles) = 32
    BY <1>2, SMTT(30)
<1>4. labels = [k \in 1..32 |-> nibbles[33 - k]]
    <2>1. labels = [k \in 1..Len(nibbles) |-> nibbles[(Len(nibbles) - k) + 1]]
        BY DEF ArpaLabels, Reverse
    <2> HIDE DEF nibbles, labels
    <2> QED
        BY <1>3, <2>1, SMTT(30)
<1>5. \A i \in 1..16 : nibbles[2 * i - 1] = addr[i][1] /\ nibbles[2 * i] = addr[i][2]
    <2> SUFFICES ASSUME NEW i \in 1..16
                 PROVE  nibbles[2 * i - 1] = addr[i][1] /\ nibbles[2 * i] = addr[i][2]
        OBVIOUS
    <2>1. /\ 2 * i - 1 \in 1..32 /\ 2 * i \in 1..32
          /\ ((2 * i - 1) + 1) \div 2 = i /\ (2 * i - 1) % 2 = 1
          /\ (2 * i + 1) \div 2 = i /\ (2 * i) % 2 = 0
        BY SMTT(30)
    <2> QED
        BY <2>1
<1> HIDE DEF nibbles, labels
<1>6. labels \in Seq(Nat) /\ Len(labels) = 32
    BY <1>2, <1>4, SMTT(30)
<1>7. \A k \in 1..32 : back[k] = nibbles[k]
    <2>1. back = [k \in 1..32 |-> labels[(32 - k) + 1]]
        BY <1>6 DEF Reverse
    <2> HIDE DEF back
    <2> QED
        BY <1>4, <2>1, SMTT(30)
<1>8. ip6_arpa_to_addr(labels) = [i \in 1..16 |-> <<back[2 * i - 1], back[2 * i]>>]
    BY <1>6 DEF ip6_arpa_to_addr
<1> HIDE DEF back
<1>9. \A i \in 1..16 : <<back[2 * i - 1], back[2 * i]>> = addr[i]
    <2> SUFFICES ASSUME NEW i \in 1..16
                 PROVE  <<back[2 * i - 1], back[2 * i]>> = addr[i]
        OBVIOUS
    <2>1. back[2 * i - 1] = addr[i][1] /\ back[2 * i] = addr[i][2]
        BY <1>5, <1>7, SMTT(30)
    <2>2. addr[i] = <<addr[i][1], addr[i][2]>>
        BY SMTT(30) DEF Octet
    <2> QED
        BY <2>1, <2>2
<1> QED
    BY <1>8, <1>9 DEF labels

\* The four octets are written behind the prefix, to different places.
LEMMA SlotsApart ==
    ASSUME NEW len, valid_prefix_length(len)
    PROVE  /\ \A k \in 1..4 : Slots(len)[k] \in 1..16 /\ 8 * Slots(len)[k] > len
           /\ \A j, k \in 1..4 : Slots(len)[j] = Slots(len)[k] => j = k
BY SMTT(30) DEF valid_prefix_length, Slots

\* An address that embed_v4 made is inside the prefix, and extract_v4 reads
\* from it the address that was embedded.
LEMMA EmbedExtract ==
    ASSUME NEW p, IsPrefix64(p), NEW v4 \in [1..4 -> Octet]
    PROVE  /\ embed_v4(p, v4) \in [1..16 -> Octet]
           /\ extract_v4(p, embed_v4(p, v4)) = v4
<1> DEFINE at == Slots(p.len)
           addr == embed_v4(p, v4)
<1>1. /\ \A k \in 1..4 : at[k] \in 1..16 /\ 8 * at[k] > p.len
      /\ \A j, k \in 1..4 : at[j] = at[k] => j = k
    BY SlotsApart DEF IsPrefix64
<1>2. addr = [i \in 1..16 |->
                 IF \E k \in 1..4 : at[k] = i THEN v4[CHOOSE k \in 1..4 : at[k] = i]
                 ELSE IF i = 9 /\ p.len \in {40, 48, 56, 64} THEN Zero
                 ELSE p.addr[i]]
    BY DEF embed_v4
<1> HIDE DEF at, addr
<1>3. \A k \in 1..4 : addr[at[k]] = v4[k]
    <2> SUFFICES ASSUME NEW k \in 1..4
                 PROVE  addr[at[k]] = v4[k]
        OBVIOUS
    <2>1. (CHOOSE j \in 1..4 : at[j] = at[k]) = k
        BY <1>1
    <2> QED
        BY <1>1, <1>2, <2>1
<1>4. addr \in [1..16 -> Octet]
    <2>1. \A i \in 1..16 : addr[i] \in Octet
        <3> SUFFICES ASSUME NEW i \in 1..16
                     PROVE  addr[i] \in Octet
            OBVIOUS
        <3>1. CASE \E k \in 1..4 : at[k] = i
            BY <1>3, <3>1
        <3>2. CASE ~\E k \in 1..4 : at[k] = i
            <4>1. addr[i] = Zero \/ addr[i] = p.addr[i]
                BY <1>2, <3>2
            <4>2. Zero \in Octet
                BY DEF Zero, Octet
            <4> QED
                BY <4>1, <4>2 DEF IsPrefix64
        <3> QED
            BY <3>1, <3>2
    <2> QED
        BY <1>2, <2>1
<1>5. InPrefix(p, addr)
    <2> SUFFICES ASSUME NEW i \in 1..16, 8 * i <= p.len
                 PROVE  addr[i] = p.addr[i]
        BY DEF InPrefix
    <2>0. p.len \in {32, 40, 48, 56, 64, 96}
        BY DEF IsPrefix64, valid_prefix_length
    <2>1. ~\E k \in 1..4 : at[k] = i
        BY <1>1, <2>0, SMTT(30)
    <2>2. ~(i = 9 /\ p.len \in {40, 48, 56, 64})
        BY SMTT(30)
    <2> QED
        BY <1>2, <2>1, <2>2
<1>6. extract_v4(p, addr) = <<addr[at[1]], addr[at[2]], addr[at[3]], addr[at[4]]>>
    BY <1>5, SMTT(30) DEF extract_v4, at, Slots, IsPrefix64, valid_prefix_length
<1>7. extract_v4(p, addr) = <<v4[1], v4[2], v4[3], v4[4]>>
    BY <1>3, <1>6, SMTT(30)
<1>8. v4 = <<v4[1], v4[2], v4[3], v4[4]>>
    BY SMTT(30)
<1> QED
    BY <1>4, <1>7, <1>8 DEF addr

\* Synthesis and the PTR question agree, for every prefix and every address.
THEOREM PtrLeadsBack == Spec => []Nat64RoundTrip
<1>1. ASSUME DecisionInv, Decided("nat64")
      PROVE  Nat64RoundTrip
    <2>1. input \in [prefix : Nat64Prefixes, other : Nat64Prefixes, v4 : V4Addresses]
        BY <1>1 DEF DecisionInv, Asked, Decided, AskNsec, AskNsec3, AskSignature, AskTtl, AskNat64
    <2> DEFINE addr == embed_v4(input.other, input.v4)
    <2>2. /\ IsPrefix64(input.prefix) /\ IsPrefix64(input.other)
          /\ input.v4 \in [1..4 -> Octet]
        BY <2>1, NumberAssumption
    <2>3. addr \in [1..16 -> Octet] /\ extract_v4(input.other, addr) = input.v4
        BY <2>2, EmbedExtract
    <2>4. Answer = rewrite_ptr_question(input.prefix, ArpaLabels(addr))
        BY <1>1 DEF DecisionInv, Answered, Decided
    <2> HIDE DEF addr
    <2>5. ip6_arpa_to_addr(ArpaLabels(addr)) = addr
        BY <2>3, ArpaRoundTrip
    <2>6. addr # NoAddress
        <3>1. DOMAIN addr = 1..16
            BY <2>3
        <3>2. 1 \in 1..16
            BY SMTT(30)
        <3>3. 1 \notin DOMAIN <<>>
            BY SMTT(30)
        <3> QED
            BY <3>1, <3>2, <3>3 DEF NoAddress
    <2>7. Answer = Reverse(extract_v4(input.prefix, addr))
        BY <2>4, <2>5, <2>6 DEF rewrite_ptr_question
    <2>8. input.prefix = input.other => Answer = Reverse(input.v4)
        BY <2>3, <2>7
    <2>9. ~InPrefix(input.prefix, addr) => Answer = NoAddress
        BY <2>7, SMTT(30) DEF extract_v4, NoAddress, Reverse
    <2> QED
        BY <2>8, <2>9 DEF Nat64RoundTrip, addr
<1>2. DecisionInv => Nat64RoundTrip
    BY <1>1 DEF Nat64RoundTrip
<1> QED
    BY <1>2, DecisionInvariant, PTL
===========================================================================
