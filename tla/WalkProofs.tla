----------------------------- MODULE WalkProofs -----------------------------
(***************************************************************************)
(* Proofs about Walk: the walks of a question form a tree in which every   *)
(* future is awaited, the servers asked are usable, and answers are chains.*)
(***************************************************************************)
EXTENDS Walk, SequenceTheorems, WellFoundedInduction, TLAPS

\* The leaves are first-order steps; the ones that need arithmetic, sequences or
\* records cite SMT.
USE ZenonT(30)

(* The addresses the process may send to. *)
Addr == Usable(Ip)

Response == [ok : BOOLEAN, rc : Rcode \cup {"none"}, ans : SUBSET Record]

WalkRec ==
    [q : Name, ty : Type, owner : Seq(Name), nest : Nat,
     pc : {"start", "send", "race", "ns", "cname", "done"},
     zone : Name, ips : SUBSET Addr, order : SUBSET Addr, flight : SUBSET Addr,
     todo : SUBSET Name, late : BOOLEAN, resp : Response]

Path == Seq(Name) \ {<< >>}

IsForest(f) == DOMAIN f \subseteq Path /\ f \in [DOMAIN f -> WalkRec]

(* v is the sub-walk that a walk with path w awaits. *)
ChildOf(v, w) == Len(v) > 1 /\ Front(v) = w

(* Every walk but the question is awaited; a CNAME chase awaits one walk;  *)
(* name servers still to be looked up have no walk yet.                    *)
Awaited(f) ==
    /\ \A v \in DOMAIN f : Len(v) > 1 =>
            Front(v) \in DOMAIN f /\ f[Front(v)].pc \in {"ns", "cname"}
    /\ \A w \in DOMAIN f : f[w].pc = "cname" =>
            \A u, v \in DOMAIN f : ChildOf(u, w) /\ ChildOf(v, w) => u = v
    /\ \A w \in DOMAIN f : f[w].pc = "ns" =>
            \A n \in f[w].todo : Append(w, n) \notin DOMAIN f

IsChain(ans, q) ==
    \A r \in ans : r.n = q \/ \E c \in ans : c.t = "CNAME" /\ c.d = r.n

LeadsTo(ans, t) == \E c \in ans : c.t = "CNAME" /\ c.d = t

(* What walks that are done return are chains, and a walk that chases a    *)
(* CNAME holds a chain that leads to the name its sub-walk asks for.       *)
Chained(f) ==
    \A w \in DOMAIN f :
        /\ f[w].pc = "done" /\ f[w].resp.ok => IsChain(f[w].resp.ans, f[w].q)
        /\ f[w].pc = "cname" =>
             /\ IsChain(f[w].resp.ans, f[w].q)
             /\ \A v \in DOMAIN f : ChildOf(v, w) => LeadsTo(f[w].resp.ans, f[v].q)

(* Servers answer with chains: what the walk takes over without a check.   *)
ChainsFromServers ==
    \A w \in World, ip \in Ip, q \in Name, ty \in Type :
        \A m \in Reply(w, ip, q, ty) : IsChain(m.ans, q)

Forest(f) == IsForest(f) /\ Awaited(f) /\ (ChainsFromServers => Chained(f))

CacheOK(c) ==
    /\ c = [k \in Key |-> c[k]]
    /\ \A n \in Name : /\ Cached(c, n, "A") \subseteq Ip \ V6
                       /\ Cached(c, n, "AAAA") \subseteq Ip
                       /\ Cached(c, n, "NS") \subseteq Name

RootsOK ==
    /\ roots \subseteq Addr
    /\ file # NoFile => file \subseteq Ip
    /\ (roots # {}) <=> HasUsable(file)

(* The inductive invariant. *)
WalkInv == world \in World /\ Forest(walks) /\ CacheOK(cache) /\ RootsOK
-----------------------------------------------------------------------------
(* Facts about paths: Front undoes Append, and the sub-tree of a path is   *)
(* closed under sub-walks.                                                 *)
LEMMA AppendPath ==
    ASSUME NEW w \in Path, NEW n \in Name
    PROVE  /\ Append(w, n) \in Path
           /\ Len(Append(w, n)) > 1
           /\ Front(Append(w, n)) = w
           /\ Append(w, n) # w
           /\ Last(Append(w, n)) = n
<1>1. w \in Seq(Name) /\ Len(w) \in Nat /\ Len(w) # 0
    BY EmptySeq DEF Path
<1>2. /\ Append(w, n) \in Seq(Name) /\ Len(Append(w, n)) = Len(w) + 1
      /\ \A i \in 1 .. Len(w) : Append(w, n)[i] = w[i]
      /\ Append(w, n)[Len(w) + 1] = n
    BY <1>1, AppendProperties, SMTT(30)
<1>3. Front(Append(w, n)) = w
    <2> DEFINE s == SubSeq(Append(w, n), 1, Len(w))
    <2>1. s \in Seq(Name) /\ Len(s) = Len(w) /\ \A i \in 1 .. Len(w) : s[i] = Append(w, n)[i]
        BY <1>1, <1>2, SubSeqProperties, SMTT(30)
    <2>2. s = w
        BY <1>1, <1>2, <2>1, SeqEqual
    <2> QED
        BY <1>1, <1>2, <2>2, SMTT(30) DEF Front
<1> QED
    BY <1>1, <1>2, <1>3, SMTT(30) DEF Path, Last

\* A prefix agrees position by position.
LEMMA PrefixMeans ==
    ASSUME NEW v \in Path, NEW x \in Path
    PROVE  IsPrefix(v, x) <=> Len(v) <= Len(x) /\ \A i \in 1 .. Len(v) : v[i] = x[i]
<1>1. /\ v \in Seq(Name) /\ Len(v) \in Nat /\ Len(v) # 0
      /\ x \in Seq(Name) /\ Len(x) \in Nat /\ Len(x) # 0
    BY EmptySeq DEF Path
<1> DEFINE a == SubSeq(v, 1, Len(v))
           b == SubSeq(x, 1, Len(v))
<1>2. a \in Seq(Name) /\ Len(a) = Len(v) /\ \A i \in 1 .. Len(v) : a[i] = v[i]
    BY <1>1, SubSeqProperties, SMTT(30)
<1>3. ASSUME Len(v) <= Len(x)
      PROVE  b \in Seq(Name) /\ Len(b) = Len(v) /\ \A i \in 1 .. Len(v) : b[i] = x[i]
    BY <1>1, <1>3, SubSeqProperties, SMTT(30)
<1>4. ASSUME Len(v) <= Len(x)
      PROVE  a = b <=> \A i \in 1 .. Len(v) : v[i] = x[i]
    <2> HIDE DEF a, b
    <2> QED
        BY <1>1, <1>2, <1>3, <1>4, SeqEqual
<1> QED
    BY <1>4 DEF IsPrefix

\* The path of the walk that awaits a sub-walk.
LEMMA FrontPath ==
    ASSUME NEW x \in Path, Len(x) > 1
    PROVE  /\ Front(x) \in Path /\ Len(Front(x)) = Len(x) - 1
           /\ \A i \in 1 .. Len(x) - 1 : Front(x)[i] = x[i]
<1>1. x \in Seq(Name) /\ Len(x) \in Nat /\ Len(x) > 1
    BY EmptySeq DEF Path
<1>2. /\ Front(x) \in Seq(Name) /\ Len(Front(x)) = Len(x) - 1
      /\ \A i \in 1 .. Len(x) - 1 : Front(x)[i] = x[i]
    BY <1>1, SubSeqProperties, SMTT(30) DEF Front
<1> QED
    BY <1>1, <1>2, EmptySeq, SMTT(30) DEF Path

\* Children and Front name the same relation.
LEMMA ChildIsPrefix ==
    ASSUME NEW v \in Path, NEW w \in Path
    PROVE  (Len(v) = Len(w) + 1 /\ IsPrefix(w, v)) <=> ChildOf(v, w)
<1>1. /\ w \in Seq(Name) /\ Len(w) \in Nat /\ Len(w) # 0
      /\ v \in Seq(Name) /\ Len(v) \in Nat /\ Len(v) # 0
    BY EmptySeq DEF Path
<1>2. ASSUME Len(v) = Len(w) + 1, IsPrefix(w, v)
      PROVE  ChildOf(v, w)
    <2>1. Front(v) \in Seq(Name) /\ Len(Front(v)) = Len(w) /\ \A i \in 1 .. Len(w) : Front(v)[i] = v[i]
        BY <1>1, <1>2, FrontPath, SMTT(30) DEF Path
    <2>2. Front(v) = w
        BY <1>1, <1>2, <2>1, PrefixMeans, SeqEqual, SMTT(30)
    <2> QED
        BY <1>1, <1>2, <2>2, SMTT(30) DEF ChildOf
<1>3. ASSUME ChildOf(v, w)
      PROVE  Len(v) = Len(w) + 1 /\ IsPrefix(w, v)
    <2>1. Len(v) > 1 /\ Front(v) = w
        BY <1>3 DEF ChildOf
    <2>2. Len(w) = Len(v) - 1 /\ \A i \in 1 .. Len(v) - 1 : w[i] = v[i]
        BY <2>1, FrontPath
    <2> QED
        BY <1>1, <2>2, PrefixMeans, SMTT(30)
<1> QED
    BY <1>2, <1>3

\* A sub-tree holds its root, nothing shorter, and the sub-walks of what it holds.
LEMMA SubTreeFacts ==
    ASSUME NEW v \in Path, NEW x \in Path
    PROVE  /\ IsPrefix(v, v)
           /\ IsPrefix(v, x) => Len(v) <= Len(x)
           /\ Len(x) > 1 /\ IsPrefix(v, Front(x)) => IsPrefix(v, x)
<1>1. Len(v) \in Nat /\ Len(x) \in Nat
    BY SMTT(30) DEF Path
<1>2. IsPrefix(v, v)
    BY <1>1, PrefixMeans, SMTT(30)
<1>3. ASSUME Len(x) > 1, IsPrefix(v, Front(x))
      PROVE  IsPrefix(v, x)
    <2>1. /\ Front(x) \in Path /\ Len(Front(x)) = Len(x) - 1
          /\ \A i \in 1 .. Len(x) - 1 : Front(x)[i] = x[i]
        BY <1>3, FrontPath
    <2>2. Len(v) <= Len(x) - 1 /\ \A i \in 1 .. Len(v) : v[i] = Front(x)[i]
        BY <1>3, <2>1, PrefixMeans, SMTT(30)
    <2>3. Len(v) <= Len(x) /\ \A i \in 1 .. Len(v) : v[i] = x[i]
        BY <1>1, <2>1, <2>2, SMTT(30)
    <2> QED
        BY <2>3, PrefixMeans
<1> QED
    BY <1>2, <1>3 DEF IsPrefix
-----------------------------------------------------------------------------
(* A forest changes in four ways: a walk without sub-walks goes on, a walk *)
(* that awaits name servers goes on waiting, sub-walks start, and walks    *)
(* are dropped with all that is below them.                                *)
NoKids(f, w) == \A v \in DOMAIN f : ~ChildOf(v, w)

\* Only walks in resolve_ns_ips or in a CNAME chase have sub-walks.
LEMMA IdleHasNoKids ==
    ASSUME NEW f, Awaited(f), NEW w \in DOMAIN f, f[w].pc \notin {"ns", "cname"}
    PROVE  NoKids(f, w)
    BY DEF Awaited, NoKids, ChildOf

\* A walk without sub-walks takes a step that starts none.
LEMMA GoesOn ==
    ASSUME NEW f, Forest(f), NEW w \in DOMAIN f, NoKids(f, w),
           NEW r \in WalkRec, r.q = f[w].q, r.pc \notin {"ns", "cname"},
           ChainsFromServers /\ r.pc = "done" /\ r.resp.ok => IsChain(r.resp.ans, r.q)
    PROVE  Forest([f EXCEPT ![w] = r])
<1> DEFINE g == [f EXCEPT ![w] = r]
<1>1. /\ IsForest(g) /\ DOMAIN g = DOMAIN f /\ g[w] = r
      /\ \A x \in DOMAIN f : x # w => g[x] = f[x]
      /\ \A x \in DOMAIN f : g[x].q = f[x].q
    BY DEF Forest, IsForest
<1> HIDE DEF g
<1>2. Awaited(g)
    <2>1. ASSUME NEW v \in DOMAIN g, Len(v) > 1
          PROVE  Front(v) \in DOMAIN g /\ g[Front(v)].pc \in {"ns", "cname"}
        BY <1>1, <2>1 DEF Forest, Awaited, NoKids, ChildOf
    <2>2. ASSUME NEW x \in DOMAIN g, g[x].pc = "cname", NEW u \in DOMAIN g, NEW v \in DOMAIN g,
                 ChildOf(u, x), ChildOf(v, x)
          PROVE  u = v
        BY <1>1, <2>2 DEF Forest, Awaited
    <2>3. ASSUME NEW x \in DOMAIN g, g[x].pc = "ns", NEW n \in g[x].todo
          PROVE  Append(x, n) \notin DOMAIN g
        BY <1>1, <2>3 DEF Forest, Awaited
    <2> QED
        BY <2>1, <2>2, <2>3 DEF Awaited
<1>3. ASSUME ChainsFromServers
      PROVE  Chained(g)
    <2>1. Chained(f)
        BY <1>3 DEF Forest
    <2>2. ASSUME NEW x \in DOMAIN g, g[x].pc = "done", g[x].resp.ok
          PROVE  IsChain(g[x].resp.ans, g[x].q)
        BY <1>1, <1>3, <2>1, <2>2 DEF Chained
    <2>3. ASSUME NEW x \in DOMAIN g, g[x].pc = "cname"
          PROVE  /\ IsChain(g[x].resp.ans, g[x].q)
                 /\ \A v \in DOMAIN g : ChildOf(v, x) => LeadsTo(g[x].resp.ans, g[v].q)
        BY <1>1, <2>1, <2>3 DEF Chained
    <2> QED
        BY <2>2, <2>3 DEF Chained
<1> QED
    BY <1>1, <1>2, <1>3 DEF Forest, g

\* A walk in resolve_ns_ips waits on.
LEMMA StillWaits ==
    ASSUME NEW f, Forest(f), NEW w \in DOMAIN f, f[w].pc = "ns",
           NEW r \in WalkRec, r.q = f[w].q, r.pc = "ns", r.todo \subseteq f[w].todo
    PROVE  Forest([f EXCEPT ![w] = r])
<1> DEFINE g == [f EXCEPT ![w] = r]
<1>1. /\ IsForest(g) /\ DOMAIN g = DOMAIN f /\ g[w] = r
      /\ \A x \in DOMAIN f : x # w => g[x] = f[x]
      /\ \A x \in DOMAIN f : g[x].q = f[x].q /\ g[x].pc = f[x].pc /\ g[x].todo \subseteq f[x].todo
    BY DEF Forest, IsForest
<1> HIDE DEF g
<1>2. Awaited(g)
    BY <1>1 DEF Forest, Awaited
<1>3. ASSUME ChainsFromServers
      PROVE  Chained(g)
    BY <1>1, <1>3 DEF Forest, Chained
<1> QED
    BY <1>1, <1>2, <1>3 DEF Forest, g

\* Walks are dropped together with their sub-walks.
LEMMA Pruned ==
    ASSUME NEW f, Forest(f), NEW X,
           \A x \in DOMAIN f : Len(x) > 1 /\ Front(x) \in X => x \in X
    PROVE  Forest(Without(f, X))
<1> DEFINE g == Without(f, X)
<1>1. /\ IsForest(g) /\ DOMAIN g = DOMAIN f \ X
      /\ \A x \in DOMAIN g : g[x] = f[x]
    BY DEF Forest, IsForest, Without
<1> HIDE DEF g
<1>2. Awaited(g)
    BY <1>1 DEF Forest, Awaited
<1>3. ASSUME ChainsFromServers
      PROVE  Chained(g)
    BY <1>1, <1>3 DEF Forest, Chained
<1> QED
    BY <1>1, <1>2, <1>3 DEF Forest, g

(* Sub-walks of w for the given names start; h is the forest with them. *)
Started(f, h, w, r, names) ==
    LET new == {Append(w, n) : n \in names}
    IN  /\ DOMAIN h = DOMAIN f \cup new
        /\ h \in [DOMAIN h -> WalkRec]
        /\ h[w] = r
        /\ \A v \in DOMAIN f : v # w => h[v] = f[v]
        /\ \A n \in names : h[Append(w, n)].q = n /\ h[Append(w, n)].pc = "start"

\* A walk starts sub-walks for names that have none yet.
LEMMA SubWalksStart ==
    ASSUME NEW f, Forest(f), NEW w \in DOMAIN f, NEW h, NEW r \in WalkRec, r.q = f[w].q,
           NEW names \in SUBSET Name, \A n \in names : Append(w, n) \notin DOMAIN f,
           Started(f, h, w, r, names),
           \/ /\ r.pc = "ns" /\ r.todo \cap names = {}
              /\ \A n \in r.todo : Append(w, n) \notin DOMAIN f
           \/ /\ r.pc = "cname" /\ NoKids(f, w)
              /\ \A m, n \in names : m = n
              /\ ChainsFromServers =>
                    IsChain(r.resp.ans, r.q) /\ \A n \in names : LeadsTo(r.resp.ans, n)
    PROVE  Forest(h)
<1> DEFINE new == {Append(w, n) : n \in names}
<1>1. w \in Path /\ DOMAIN f \subseteq Path
    BY DEF Forest, IsForest
<1>2. \A n \in names : /\ Append(w, n) \in Path /\ Len(Append(w, n)) > 1
                       /\ Front(Append(w, n)) = w /\ Append(w, n) # w
                       /\ Append(w, n) \notin DOMAIN f
    BY <1>1, AppendPath
<1>3. \A v \in new : /\ v \in Path /\ Len(v) > 1 /\ Front(v) = w /\ v # w /\ v \notin DOMAIN f
                     /\ h[v].pc = "start"
    <2>1. \A n \in names : h[Append(w, n)].pc = "start"
        BY DEF Started
    <2> QED
        BY <1>2, <2>1
<1>4. /\ DOMAIN h = DOMAIN f \cup new /\ h[w] = r
      /\ \A v \in DOMAIN f : v # w => h[v] = f[v]
      /\ \A v \in DOMAIN f : h[v].q = f[v].q
    BY DEF Started
<1>5. \A m, n \in Name : Append(w, m) = Append(w, n) => m = n
    BY <1>1, AppendPath, SMTT(30)
<1>6. IsForest(h)
    BY <1>1, <1>3, <1>4 DEF IsForest, Started
<1>7. ASSUME NEW n \in Name, n \notin names
      PROVE  Append(w, n) \notin new
    BY <1>5, <1>7
<1>8. r.todo \subseteq Name
    BY DEF WalkRec
<1>9. \A v \in new : \E n \in names : v = Append(w, n) /\ h[v].q = n
    BY DEF Started
<1> HIDE DEF new
<1>10. Awaited(h)
    <2>1. ASSUME NEW v \in DOMAIN h, Len(v) > 1
          PROVE  Front(v) \in DOMAIN h /\ h[Front(v)].pc \in {"ns", "cname"}
        BY <1>3, <1>4, <2>1 DEF Forest, Awaited
    <2>2. ASSUME NEW x \in DOMAIN h, h[x].pc = "cname", NEW u \in DOMAIN h, NEW v \in DOMAIN h,
                 ChildOf(u, x), ChildOf(v, x)
          PROVE  u = v
        <3>1. CASE x = w
            <4>1. u \in new /\ v \in new
                BY <1>4, <2>2, <3>1 DEF NoKids
            <4> QED
                BY <1>4, <1>9, <2>2, <3>1, <4>1, SMTT(30)
        <3>2. CASE x # w
            <4>1. x \in DOMAIN f /\ u \in DOMAIN f /\ v \in DOMAIN f /\ f[x].pc = "cname"
                BY <1>3, <1>4, <2>2, <3>2, SMTT(30) DEF ChildOf
            <4> QED
                BY <2>2, <4>1 DEF Forest, Awaited
        <3> QED
            BY <3>1, <3>2
    <2>3. ASSUME NEW x \in DOMAIN h, h[x].pc = "ns", NEW n \in h[x].todo
          PROVE  Append(x, n) \notin DOMAIN h
        <3>1. CASE x = w
            BY <1>4, <1>7, <1>8, <2>3, <3>1, SMTT(30)
        <3>2. CASE x # w
            <4>1. x \in DOMAIN f /\ f[x].pc = "ns" /\ n \in f[x].todo
                BY <1>3, <1>4, <2>3, <3>2, SMTT(30)
            <4>2. Append(x, n) \notin DOMAIN f
                BY <4>1 DEF Forest, Awaited
            <4>3. n \in Name /\ x \in Path
                BY <1>1, <4>1 DEF Forest, IsForest, WalkRec
            <4>4. Append(x, n) \notin new
                BY <1>3, <3>2, <4>3, AppendPath, SMTT(30)
            <4> QED
                BY <1>4, <4>2, <4>4, SMTT(30)
        <3> QED
            BY <3>1, <3>2
    <2> QED
        BY <2>1, <2>2, <2>3 DEF Awaited
<1>11. ASSUME ChainsFromServers
       PROVE  Chained(h)
    <2>1. Chained(f)
        BY <1>11 DEF Forest
    <2>2. ASSUME NEW x \in DOMAIN h, h[x].pc = "done", h[x].resp.ok
          PROVE  IsChain(h[x].resp.ans, h[x].q)
        BY <1>3, <1>4, <2>1, <2>2, SMTT(30) DEF Chained
    <2>3. ASSUME NEW x \in DOMAIN h, h[x].pc = "cname"
          PROVE  /\ IsChain(h[x].resp.ans, h[x].q)
                 /\ \A v \in DOMAIN h : ChildOf(v, x) => LeadsTo(h[x].resp.ans, h[v].q)
        <3>1. CASE x = w
            <4>1. ASSUME NEW v \in DOMAIN h, ChildOf(v, w)
                  PROVE  LeadsTo(r.resp.ans, h[v].q)
                <5>1. v \in new
                    BY <1>4, <2>3, <3>1, <4>1, SMTT(30) DEF NoKids
                <5> QED
                    BY <1>4, <1>9, <1>11, <2>3, <3>1, <5>1, SMTT(30)
            <4> QED
                BY <1>4, <1>11, <2>3, <3>1, <4>1, SMTT(30)
        <3>2. CASE x # w
            <4>1. x \in DOMAIN f /\ h[x] = f[x]
                BY <1>3, <1>4, <2>3, <3>2, SMTT(30)
            <4>2. ASSUME NEW v \in DOMAIN h, ChildOf(v, x)
                  PROVE  v \in DOMAIN f /\ h[v].q = f[v].q
                BY <1>3, <1>4, <3>2, <4>2, SMTT(30) DEF ChildOf
            <4> QED
                BY <2>1, <2>3, <4>1, <4>2, SMTT(30) DEF Chained
        <3> QED
            BY <3>1, <3>2
    <2> QED
        BY <2>2, <2>3 DEF Chained
<1> QED
    BY <1>6, <1>10, <1>11, SMTT(30) DEF Forest
-----------------------------------------------------------------------------
(* What the response cache holds for name servers. *)
LEMMA CacheGlue ==
    ASSUME NEW c, CacheOK(c), NEW m, IsMessage(m)
    PROVE  CacheOK(cache_glue(c, m.glue))
<1> DEFINE d == cache_glue(c, m.glue)
<1>1. d = [k \in Key |-> d[k]]
    BY DEF cache_glue
<1>2. ASSUME NEW n \in Name
      PROVE  /\ d[<<n, "A">>] = c[<<n, "A">>] \/ d[<<n, "A">>] \subseteq Ip \ V6
             /\ d[<<n, "AAAA">>] = c[<<n, "AAAA">>] \/ d[<<n, "AAAA">>] \subseteq Ip
             /\ d[<<n, "NS">>] = c[<<n, "NS">>]
    BY DEF cache_glue, Key, Type, IsMessage
<1> HIDE DEF d
<1>3. ASSUME NEW n \in Name
      PROVE  /\ Cached(d, n, "A") \subseteq Ip \ V6
             /\ Cached(d, n, "AAAA") \subseteq Ip
             /\ Cached(d, n, "NS") \subseteq Name
    BY <1>2 DEF CacheOK, Cached
<1> QED
    BY <1>1, <1>3 DEF CacheOK, d

\* A response goes into the cache under its question.
LEMMA CachePut ==
    ASSUME NEW c, CacheOK(c), NEW n \in Name, NEW t \in Type, NEW data,
           t = "A" => data \subseteq Ip \ V6,
           t = "AAAA" => data \subseteq Ip,
           t = "NS" => data \subseteq Name
    PROVE  CacheOK([c EXCEPT ![<<n, t>>] = data])
<1> DEFINE d == [c EXCEPT ![<<n, t>>] = data]
<1>1. d = [k \in Key |-> d[k]]
    BY DEF CacheOK
<1>2. ASSUME NEW x \in Name, NEW u \in Type
      PROVE  d[<<x, u>>] = IF <<x, u>> = <<n, t>> THEN data ELSE c[<<x, u>>]
    BY DEF CacheOK, Key
<1> HIDE DEF d
<1>3. ASSUME NEW x \in Name
      PROVE  /\ Cached(d, x, "A") \subseteq Ip \ V6
             /\ Cached(d, x, "AAAA") \subseteq Ip
             /\ Cached(d, x, "NS") \subseteq Name
    <2>1. /\ d[<<x, "A">>] = IF x = n /\ "A" = t THEN data ELSE c[<<x, "A">>]
          /\ d[<<x, "AAAA">>] = IF x = n /\ "AAAA" = t THEN data ELSE c[<<x, "AAAA">>]
          /\ d[<<x, "NS">>] = IF x = n /\ "NS" = t THEN data ELSE c[<<x, "NS">>]
        BY <1>2 DEF Type
    <2> QED
        BY <2>1 DEF CacheOK, Cached
<1> QED
    BY <1>1, <1>3 DEF CacheOK, d

\* An entry expires.
LEMMA CacheExpire ==
    ASSUME NEW c, CacheOK(c), NEW k \in Key
    PROVE  CacheOK([c EXCEPT ![k] = NoEntry])
<1> DEFINE d == [c EXCEPT ![k] = NoEntry]
<1>1. d = [x \in Key |-> d[x]] /\ \A x \in Key : d[x] = c[x] \/ d[x] = NoEntry
    BY DEF CacheOK
<1>2. \A n \in Name, t \in Type : <<n, t>> \in Key
    BY DEF Key
<1> HIDE DEF d
<1> QED
    BY <1>1, <1>2 DEF CacheOK, Cached, Type, d

\* A new process has an empty cache.
LEMMA CacheEmpty == CacheOK([k \in Key |-> NoEntry])
    BY DEF CacheOK, Cached, Key, Type

\* A referral fills the cache with its glue and its NS set.
LEMMA CacheReferral ==
    ASSUME NEW c, CacheOK(c), NEW m, IsMessage(m)
    PROVE  CacheOK(cache_zone_ns(cache_glue(c, m.glue), m.zone, m.ns))
<1>1. m.zone \in Name /\ m.ns \subseteq Name /\ "NS" \in Type
    BY DEF IsMessage, Type
<1> QED
    BY <1>1, CacheGlue, CachePut DEF cache_zone_ns

\* cached_ns_ips returns addresses that may be asked.
LEMMA CachedAddresses ==
    ASSUME NEW c, CacheOK(c), NEW n \in Name
    PROVE  cached_ns_ips(c, n) \subseteq Addr
    BY DEF CacheOK, cached_ns_ips, Addr, Usable

(* A set of natural numbers has a least element. *)
LEMMA LeastNat ==
    ASSUME NEW S \in SUBSET Nat, S # {}
    PROVE  \E x \in S : \A y \in S : x <= y
<1> DEFINE R == {p \in Nat \X Nat : p[1] < p[2]}
<1>1. IsWellFoundedOn(OpToRel(<, Nat), Nat)
    BY NatLessThanWellFounded
<1>2. OpToRel(<, Nat) = R
    BY DEF OpToRel
<1>3. IsWellFoundedOn(R, Nat)
    BY <1>1, <1>2
<1>4. \E x \in S : \A y \in S : ~(<<y, x>> \in R)
    BY <1>3, WFMin
<1>5. \A x, y \in Nat : <<y, x>> \notin R => x <= y
    <2>1. ASSUME NEW x \in Nat, NEW y \in Nat, ~(x <= y)
          PROVE  <<y, x>> \in R
        BY <2>1, SMTT(30)
    <2> QED
        BY <2>1
<1> HIDE DEF R
<1> QED
    BY <1>4, <1>5

(* closest_cached_zone finds a zone with usable addresses, or the roots. *)
LEMMA ZonesAbove ==
    ASSUME NEW q \in Name, NEW z \in Above(q)
    PROVE  z \in Name /\ Len(z) \in Nat /\ Len(z) <= Len(q)
<1>0. q \in Seq(Label) /\ Len(q) \in Nat
    BY WalkAssumption, SMTT(30)
<1>1. CASE q = Root
    BY <1>0, <1>1, WalkAssumption, SMTT(30) DEF Above
<1>2. CASE q # Root
    <2>1. Len(q) > 0
        BY <1>0, <1>2, EmptySeq, SMTT(30) DEF Root
    <2>2. Front(q) \in Prefixes(q)
        BY <1>0, <2>1, SMTT(30) DEF Front, Prefixes
    <2>3. Front(q) \in Name /\ Front(q) \in Seq(Label) /\ Len(Front(q)) = Len(q) - 1
        <3>1. Front(q) \in Name /\ Front(q) \in Seq(Label)
            BY <2>2, WalkAssumption
        <3>2. /\ 1 \in Int /\ Len(q) - 1 \in Int
              /\ \A i \in 1 .. Len(q) - 1 : q[i] \in Label
            BY <1>0, SMTT(30)
        <3>3. Len(Front(q)) = IF 1 <= Len(q) - 1 THEN (Len(q) - 1) - 1 + 1 ELSE 0
            BY <3>2, SubSeqProperties, SMTT(30) DEF Front
        <3> DEFINE k == Len(q)
                   j == Len(Front(q))
        <3>4. k \in Nat /\ k > 0 /\ j = IF 1 <= k - 1 THEN (k - 1) - 1 + 1 ELSE 0
            BY <1>0, <2>1, <3>3
        <3> HIDE DEF k, j
        <3>5. j = k - 1
            BY <3>4, SMTT(30)
        <3> QED
            BY <3>1, <3>5 DEF j, k
    <2>4. z \in Prefixes(Front(q))
        BY <1>2 DEF Above
    <2>5. PICK l \in 0 .. Len(Front(q)) : z = SubSeq(Front(q), 1, l)
        BY <2>4 DEF Prefixes
    <2>6. z \in Name
        BY <2>3, <2>4, WalkAssumption
    <2>7. Len(z) = l
        BY <1>0, <2>1, <2>3, <2>5, SubSeqProperties, SMTT(30)
    <2> QED
        BY <1>0, <2>3, <2>6, <2>7, SMTT(30)
<1> QED
    BY <1>1, <1>2

\* Among the known zones above a name there is a deepest one, so StartAt chooses it.
LEMMA DeepestZone ==
    ASSUME NEW q \in Name, KnownZones(q) # {}
    PROVE  \E z \in KnownZones(q) : \A y \in KnownZones(q) : Len(y) <= Len(z)
<1> DEFINE K == KnownZones(q)
           S == {k \in Nat : \E z \in K : Len(z) + k = Len(q)}
<1>1. \A z \in K : Len(z) \in Nat /\ Len(z) <= Len(q)
    BY ZonesAbove DEF KnownZones
<1>2. Len(q) \in Nat
    BY WalkAssumption, SMTT(30)
<1> HIDE DEF K
<1>3. \A z \in K : Len(q) - Len(z) \in S
    BY <1>1, <1>2, SMTT(30)
<1>4. PICK k \in S : \A j \in S : k <= j
    <2>1. S # {} /\ S \in SUBSET Nat
        BY <1>3 DEF K
    <2> QED
        BY <2>1, LeastNat
<1>5. PICK z \in K : Len(z) + k = Len(q)
    OBVIOUS
<1>6. \A y \in K : Len(y) <= Len(z)
    <2> TAKE y \in K
    <2>1. k <= Len(q) - Len(y)
        BY <1>3, <1>4
    <2>2. k \in Nat
        OBVIOUS
    <2> QED
        BY <1>1, <1>2, <1>5, <2>1, <2>2, SMTT(30)
<1> QED
    BY <1>6 DEF K

\* The walk starts with addresses that may be asked.
LEMMA StartIsUsable ==
    ASSUME CacheOK(cache), RootsOK, NEW q \in Name
    PROVE  StartAt(q).zone \in Name /\ StartAt(q).ips \subseteq Addr
<1>1. CASE KnownZones(q) = {}
    BY <1>1, WalkAssumption DEF StartAt, RootsOK
<1>2. CASE KnownZones(q) # {}
    <2> DEFINE z == CHOOSE z \in KnownZones(q) : \A y \in KnownZones(q) : Len(y) <= Len(z)
    <2>1. z \in KnownZones(q)
        BY <1>2, DeepestZone
    <2>2. z \in Name
        BY <2>1, ZonesAbove DEF KnownZones
    <2>3. StartAt(q) = [zone |-> z, ips |-> ZoneIps(z)]
        BY <1>2 DEF StartAt
    <2> HIDE DEF z
    <2>4. ZoneIps(z) \subseteq Addr
        <3>1. Cached(cache, z, "NS") \subseteq Name
            BY <2>2 DEF CacheOK
        <3> QED
            BY <3>1, CachedAddresses DEF ZoneIps
    <2> QED
        BY <2>2, <2>3, <2>4, SMTT(30)
<1> QED
    BY <1>1, <1>2
-----------------------------------------------------------------------------
(* The steps of one walk. *)

\* What a server says is a message, and a chain if servers answer with chains.
LEMMA Messages ==
    ASSUME WalkInv, NEW w \in DOMAIN walks, NEW ip \in Ip,
           NEW m \in Reply(world, ip, walks[w].q, walks[w].ty)
    PROVE  /\ IsMessage(m) /\ Ok(m) \in Response /\ Ok(m).ok /\ Ok(m).ans = m.ans
           /\ ChainsFromServers => IsChain(m.ans, walks[w].q)
<1>1. walks[w].q \in Name /\ walks[w].ty \in Type /\ world \in World
    BY DEF WalkInv, Forest, IsForest, WalkRec
<1>2. IsMessage(m)
    BY <1>1, WalkAssumption
<1>3. ChainsFromServers => IsChain(m.ans, walks[w].q)
    BY <1>1 DEF ChainsFromServers
<1> QED
    BY <1>2, <1>3 DEF IsMessage, Ok, Response

\* A walk without sub-walks returns.
LEMMA DoneForest ==
    ASSUME Forest(walks), NEW w \in DOMAIN walks, NoKids(walks, w), NEW res \in Response,
           ChainsFromServers /\ res.ok => IsChain(res.ans, walks[w].q)
    PROVE  Forest(Done(w, res))
<1> DEFINE r == [walks[w] EXCEPT !.pc = "done", !.order = {}, !.flight = {}, !.ips = {},
                                 !.todo = {}, !.late = FALSE, !.resp = res]
<1>1. walks[w] \in WalkRec
    BY DEF Forest, IsForest
<1>2. r \in WalkRec /\ r.pc = "done" /\ r.resp = res /\ r.q = walks[w].q
    BY <1>1 DEF WalkRec
<1> HIDE DEF r
<1>3. Forest([walks EXCEPT ![w] = r])
    BY <1>2, GoesOn
<1> QED
    BY <1>3 DEF Done, Set, r

\* A walk without sub-walks fails.
LEMMA FailForest ==
    ASSUME Forest(walks), NEW w \in DOMAIN walks, NoKids(walks, w)
    PROVE  Forest(Fail(w))
<1>1. ~NoResult.ok
    BY DEF NoResult
<1>3. NoResult \in Response
    BY DEF NoResult, Response
<1> QED
    BY <1>1, <1>3, DoneForest DEF Fail

\* IdleHasNoKids for the current walks.
LEMMA IdleNoKids ==
    ASSUME Forest(walks), NEW w \in DOMAIN walks, walks[w].pc \notin {"ns", "cname"}
    PROVE  NoKids(walks, w)
    BY IdleHasNoKids DEF Forest

\* walk up to its loop.
LEMMA StartStep ==
    ASSUME WalkInv, NEW w \in DOMAIN walks, Start(w)
    PROVE  WalkInv'
<1> DEFINE s == StartAt(walks[w].q)
           r == [walks[w] EXCEPT !.pc = "send", !.zone = s.zone, !.ips = s.ips]
<1>1. Forest(walks) /\ walks[w] \in WalkRec /\ walks[w].q \in Name /\ walks[w].pc = "start"
    BY DEF WalkInv, Forest, IsForest, WalkRec, Start
<1>2. NoKids(walks, w)
    BY <1>1, IdleNoKids
<1>3. s.zone \in Name /\ s.ips \subseteq Addr
    BY <1>1, StartIsUsable DEF WalkInv
<1>4. walks' = Fail(w) \/ walks' = [walks EXCEPT ![w] = r]
    BY DEF Start, Set
<1> HIDE DEF s
<1>5. r \in WalkRec /\ r.pc = "send" /\ r.q = walks[w].q
    BY <1>1, <1>3 DEF WalkRec
<1> HIDE DEF r
<1>6. Forest(walks')
    BY <1>1, <1>2, <1>4, <1>5, FailForest, GoesOn, SMTT(30)
<1>7. UNCHANGED <<world, cache, roots, file>>
    BY DEF Start
<1> QED
    BY <1>6, <1>7 DEF WalkInv, RootsOK

\* query_ns_set starts its race.
LEMMA SendStep ==
    ASSUME WalkInv, NEW w \in DOMAIN walks, Send(w)
    PROVE  WalkInv'
<1>1. Forest(walks) /\ walks[w] \in WalkRec /\ walks[w].pc = "send"
    BY DEF WalkInv, Forest, IsForest, Send
<1>2. NoKids(walks, w)
    BY <1>1, IdleNoKids
<1>3. \/ walks' = Fail(w)
      \/ \E order \in SUBSET walks[w].ips : \E flight \in SUBSET order :
            walks' = [walks EXCEPT ![w] = [walks[w] EXCEPT !.pc = "race",
                                    !.order = order \ flight, !.flight = flight]]
    BY DEF Send, Set
<1>4. ASSUME NEW order \in SUBSET walks[w].ips, NEW flight \in SUBSET order,
             walks' = [walks EXCEPT ![w] = [walks[w] EXCEPT !.pc = "race",
                                    !.order = order \ flight, !.flight = flight]]
      PROVE  Forest(walks')
    <2> DEFINE r == [walks[w] EXCEPT !.pc = "race", !.order = order \ flight, !.flight = flight]
    <2>1. walks[w].ips \subseteq Addr
        BY <1>1 DEF WalkRec
    <2>2. r \in WalkRec /\ r.pc = "race" /\ r.q = walks[w].q
        BY <1>1, <2>1 DEF WalkRec
    <2> HIDE DEF r
    <2>3. Forest([walks EXCEPT ![w] = r])
        BY <1>1, <1>2, <2>2, GoesOn
    <2> QED
        BY <1>4, <2>3 DEF r
<1>5. Forest(walks')
    <2>1. CASE walks' = Fail(w)
        BY <1>1, <1>2, <2>1, FailForest
    <2> QED
        BY <1>3, <1>4, <2>1
<1>6. UNCHANGED <<world, cache, roots, file>>
    BY DEF Send
<1> QED
    BY <1>5, <1>6 DEF WalkInv, RootsOK

\* A query of the race fails.
LEMMA LostStep ==
    ASSUME WalkInv, NEW w \in DOMAIN walks, NEW ip \in Ip, Lost(w, ip)
    PROVE  WalkInv'
<1> DEFINE r == [walks[w] EXCEPT !.flight = @ \ {ip}]
<1>1. Forest(walks) /\ walks[w] \in WalkRec /\ walks[w].pc = "race"
    BY DEF WalkInv, Forest, IsForest, Lost
<1>2. NoKids(walks, w)
    BY <1>1, IdleNoKids
<1>3. r \in WalkRec /\ r.pc = "race" /\ r.q = walks[w].q /\ r.order \subseteq Addr
    BY <1>1 DEF WalkRec
<1>4. \/ walks' = Fail(w)
      \/ walks' = [walks EXCEPT ![w] = r]
      \/ \E next \in r.order : walks' = [walks EXCEPT ![w] =
                [r EXCEPT !.order = @ \ {next}, !.flight = @ \cup {next}]]
    BY DEF Lost, Set
<1> HIDE DEF r
<1>5. ASSUME NEW next \in r.order,
             walks' = [walks EXCEPT ![w] = [r EXCEPT !.order = @ \ {next}, !.flight = @ \cup {next}]]
      PROVE  Forest(walks')
    <2> DEFINE t == [r EXCEPT !.order = @ \ {next}, !.flight = @ \cup {next}]
    <2>1. t \in WalkRec /\ t.pc = "race" /\ t.q = walks[w].q
        BY <1>3 DEF WalkRec
    <2> HIDE DEF t
    <2>2. Forest([walks EXCEPT ![w] = t])
        BY <1>1, <1>2, <2>1, GoesOn
    <2> QED
        BY <1>5, <2>2 DEF t
<1>6. Forest(walks')
    <2>1. CASE walks' = Fail(w)
        BY <1>1, <1>2, <2>1, FailForest
    <2>2. CASE walks' = [walks EXCEPT ![w] = r]
        BY <1>1, <1>2, <1>3, <2>2, GoesOn
    <2> QED
        BY <1>4, <1>5, <2>1, <2>2
<1>7. UNCHANGED <<world, cache, roots, file>>
    BY DEF Lost
<1> QED
    BY <1>6, <1>7 DEF WalkInv, RootsOK

\* The deadline of resolve_ns_ips passes.
LEMMA DeadlineStep ==
    ASSUME WalkInv, NEW w \in DOMAIN walks, Deadline(w)
    PROVE  WalkInv'
<1> DEFINE r == [walks[w] EXCEPT !.late = TRUE]
<1>1. Forest(walks) /\ walks[w] \in WalkRec /\ walks[w].pc = "ns"
    BY DEF WalkInv, Forest, IsForest, Deadline
<1>2. r \in WalkRec /\ r.pc = "ns" /\ r.q = walks[w].q /\ r.todo = walks[w].todo
    BY <1>1 DEF WalkRec
<1>3. walks' = [walks EXCEPT ![w] = r]
    BY DEF Deadline, Set
<1> HIDE DEF r
<1>4. Forest(walks')
    BY <1>1, <1>2, <1>3, StillWaits
<1>5. UNCHANGED <<world, cache, roots, file>>
    BY DEF Deadline
<1> QED
    BY <1>4, <1>5 DEF WalkInv, RootsOK

(* Sub-walks are started by a record r of w that awaits them. *)
LEMMA NewWalkRecord ==
    ASSUME NEW n \in Name, NEW t \in Type, NEW o \in Seq(Name), NEW k \in Nat
    PROVE  /\ NewWalk(n, t, o, k) \in WalkRec
           /\ NewWalk(n, t, o, k).q = n /\ NewWalk(n, t, o, k).pc = "start"
<1>1. NoResult \in Response
    BY DEF NoResult, Response
<1> QED
    BY <1>1, WalkAssumption DEF NewWalk, WalkRec

\* resolve_ns_ips starts its first sub-walks.
LEMMA LaunchForest ==
    ASSUME Forest(walks), NEW w \in DOMAIN walks, NoKids(walks, w), NEW r \in WalkRec,
           r.q = walks[w].q, r.pc = "ns", NEW k, Launch(w, r, k)
    PROVE  Forest(walks')
<1>1. PICK names \in SUBSET r.todo :
        walks' = [v \in DOMAIN walks \cup {Append(w, name) : name \in names} |->
                    IF v \in {Append(w, name) : name \in names}
                      THEN NewWalk(Last(v), "A", SubOwner(w, v), r.nest + 1)
                      ELSE [walks EXCEPT ![w] = [r EXCEPT !.todo = @ \ names]][v]]
    BY DEF Launch
<1> DEFINE new == {Append(w, name) : name \in names}
           t == [r EXCEPT !.todo = @ \ names]
<1>2. w \in Path /\ DOMAIN walks \subseteq Path /\ walks \in [DOMAIN walks -> WalkRec]
    BY DEF Forest, IsForest
<1>3. r.todo \subseteq Name /\ names \subseteq Name /\ r.nest + 1 \in Nat
    BY SMTT(30) DEF WalkRec
<1>4. \A n \in Name : /\ Append(w, n) \in Path /\ Len(Append(w, n)) > 1
                      /\ Front(Append(w, n)) = w /\ Last(Append(w, n)) = n
                      /\ Append(w, n) # w
    BY <1>2, AppendPath
<1>5. \A n \in Name : Append(w, n) \notin DOMAIN walks
    BY <1>4 DEF NoKids, ChildOf
<1>6. t \in WalkRec /\ t.q = walks[w].q /\ t.pc = "ns" /\ t.todo = r.todo \ names
    BY DEF WalkRec
<1>7. ASSUME NEW n \in names
      PROVE  /\ NewWalk(n, "A", Append(w, n), r.nest + 1) \in WalkRec
             /\ NewWalk(n, "A", Append(w, n), r.nest + 1).q = n
             /\ NewWalk(n, "A", Append(w, n), r.nest + 1).pc = "start"
    <2>1. n \in Name /\ "A" \in Type /\ Append(w, n) \in Seq(Name) /\ r.nest + 1 \in Nat
        BY <1>3, <1>4 DEF Type, Path
    <2> QED
        BY <2>1, NewWalkRecord
<1> HIDE DEF t
<1>8. Started(walks, walks', w, t, names)
    <2>1. DOMAIN walks' = DOMAIN walks \cup new /\ w \notin new
        BY <1>1, <1>3, <1>4
    <2>2. \A v \in new : walks'[v] = NewWalk(Last(v), "A", v, r.nest + 1)
        BY <1>1 DEF SubOwner
    <2>3. \A n \in names : walks'[Append(w, n)] = NewWalk(n, "A", Append(w, n), r.nest + 1)
        BY <1>3, <1>4, <2>2
    <2>4. \A v \in DOMAIN walks : v \notin new /\ walks'[v] = [walks EXCEPT ![w] = t][v]
        BY <1>1, <1>3, <1>5 DEF t
    <2>5. walks'[w] = t /\ \A v \in DOMAIN walks : v # w => walks'[v] = walks[v]
        BY <2>4
    <2>6. \A v \in DOMAIN walks' : walks'[v] \in WalkRec
        <3>1. \A n \in names : walks'[Append(w, n)] \in WalkRec
            BY <1>7, <2>3
        <3>2. \A v \in new : walks'[v] \in WalkRec
            BY <3>1
        <3>3. \A v \in DOMAIN walks : walks'[v] \in WalkRec
            BY <1>2, <1>6, <2>5
        <3> QED
            BY <2>1, <3>2, <3>3
    <2>7. walks' \in [DOMAIN walks' -> WalkRec]
        BY <1>1, <2>6
    <2> QED
        BY <1>7, <2>1, <2>3, <2>5, <2>7, SMTT(30) DEF Started
<1> QED
    BY <1>3, <1>5, <1>6, <1>8, SubWalksStart

\* The referral arm of walk.
LEMMA ReferForest ==
    ASSUME WalkInv, NEW w \in DOMAIN walks, walks[w].pc = "race", NEW m, IsMessage(m), Refer(w, m)
    PROVE  Forest(walks') /\ CacheOK(cache')
<1> DEFINE zone == m.zone
           c == cache_zone_ns(cache_glue(cache, m.glue), zone, m.ns)
           b == budget[walks[w].owner]
           glued == m.ns \cap DOMAIN m.glue
           known == {n \in m.ns \ glued : cached_ns_ips(c, n) # {}}
           ips == UNION ({GlueIps(m, n) : n \in glued} \cup {cached_ns_ips(c, n) : n \in known})
           todo == IF b.depth > 0 /\ b.queries > 0 THEN m.ns \ (glued \cup known) ELSE {}
           r == [walks[w] EXCEPT !.zone = zone, !.ips = ips, !.order = {},
                                 !.flight = {}, !.todo = todo]
           ns == [r EXCEPT !.pc = "ns"]
           send == [r EXCEPT !.pc = "send"]
<1>1. Forest(walks) /\ walks[w] \in WalkRec
    BY DEF WalkInv, Forest, IsForest
<1>2. NoKids(walks, w)
    BY <1>1, IdleNoKids
<1>3. CacheOK(c)
    BY CacheReferral DEF WalkInv
<1>4. zone \in Name /\ todo \subseteq Name /\ m.ns \subseteq Name
    BY DEF IsMessage
<1>5. \/ walks' = Fail(w) /\ cache' = cache
      \/ cache' = c /\ Launch(w, ns, NS_PARALLEL)
      \/ cache' = c /\ walks' = Fail(w)
      \/ cache' = c /\ walks' = [walks EXCEPT ![w] = send]
    BY DEF Refer, Set
<1>6. ips \subseteq Addr
    <2>1. \A n \in glued : GlueIps(m, n) \subseteq Addr
        BY DEF GlueIps, Usable, Addr, IsMessage
    <2>2. \A n \in known : cached_ns_ips(c, n) \subseteq Addr
        BY <1>3, <1>4, CachedAddresses
    <2> HIDE DEF glued, known, c
    <2> QED
        BY <2>1, <2>2
<1> HIDE DEF c, ips, todo, zone
<1>7. r \in WalkRec /\ r.q = walks[w].q
    BY <1>1, <1>4, <1>6 DEF WalkRec
<1> HIDE DEF r
<1>8. ns \in WalkRec /\ ns.q = walks[w].q /\ ns.pc = "ns"
    BY <1>7 DEF WalkRec
<1>9. send \in WalkRec /\ send.q = walks[w].q /\ send.pc = "send"
    BY <1>7 DEF WalkRec
<1> HIDE DEF ns, send
<1>10. CASE walks' = Fail(w)
    BY <1>1, <1>2, <1>3, <1>5, <1>10, FailForest, SMTT(30) DEF WalkInv
<1>11. CASE cache' = c /\ Launch(w, ns, NS_PARALLEL)
    BY <1>1, <1>2, <1>3, <1>8, <1>11, LaunchForest, SMTT(30)
<1>12. CASE cache' = c /\ walks' = [walks EXCEPT ![w] = send]
    BY <1>1, <1>2, <1>3, <1>9, <1>12, GoesOn
<1> QED
    BY <1>3, <1>5, <1>10, <1>11, <1>12

\* The CNAME arm of walk.
LEMMA ChaseForest ==
    ASSUME WalkInv, NEW w \in DOMAIN walks, walks[w].pc = "race",
           NEW m, IsMessage(m), ChainsFromServers => IsChain(m.ans, walks[w].q),
           classify(m, walks[w].q) = "Cname", Chase(w, m)
    PROVE  Forest(walks')
<1> DEFINE b == walks[w].owner
           t == CnameTarget(m, walks[w].q)
           r == [walks[w] EXCEPT !.pc = "cname", !.flight = {}, !.order = {}, !.resp = Ok(m)]
           v == Append(w, t)
           n == NewWalk(t, walks[w].ty, b, walks[w].nest)
<1>1. Forest(walks) /\ walks[w] \in WalkRec
    BY DEF WalkInv, Forest, IsForest
<1>2. NoKids(walks, w)
    BY <1>1, IdleNoKids
<1>3. \E x \in m.ans : x.n = walks[w].q /\ x.t = "CNAME"
    BY DEF classify
<1>4. \E x \in m.ans : x.t = "CNAME" /\ x.d = t
    BY <1>3 DEF CnameTarget
<1>5. LeadsTo(m.ans, t)
    BY <1>4 DEF LeadsTo
<1>6. t \in Name
    BY <1>4 DEF IsMessage, Record
<1>7. Ok(m) \in Response /\ Ok(m).ans = m.ans
    BY DEF Ok, Response, IsMessage
<1>8. \/ walks' = Fail(w)
      \/ walks' = With([walks EXCEPT ![w] = r], v, n)
    BY DEF Chase, Set
<1>9. b \in Seq(Name) /\ walks[w].ty \in Type /\ walks[w].nest \in Nat
    BY <1>1 DEF WalkRec
<1> HIDE DEF t
<1>10. n \in WalkRec /\ n.q = t /\ n.pc = "start"
    BY <1>6, <1>9, NewWalkRecord, SMTT(30)
<1>11. r \in WalkRec /\ r.q = walks[w].q /\ r.pc = "cname" /\ r.resp = Ok(m)
    BY <1>1, <1>7 DEF WalkRec
<1>12. w \in Path /\ DOMAIN walks \subseteq Path /\ walks \in [DOMAIN walks -> WalkRec]
    BY <1>1 DEF Forest, IsForest
<1>13. v \notin DOMAIN walks /\ v # w
    BY <1>2, <1>6, <1>12, AppendPath DEF NoKids, ChildOf
<1> HIDE DEF r, n, b
<1>14. ASSUME walks' = With([walks EXCEPT ![w] = r], v, n)
       PROVE  Started(walks, walks', w, r, {t})
    <2> DEFINE S == {Append(w, x) : x \in {t}}
    <2>0. S = {v}
        OBVIOUS
    <2> HIDE DEF v
    <2>1. DOMAIN walks' = DOMAIN walks \cup {v} /\ walks'[v] = n /\ walks'[w] = r
        BY <1>13, <1>14 DEF With
    <2>2. \A x \in DOMAIN walks : x # w => walks'[x] = walks[x]
        BY <1>13, <1>14 DEF With
    <2>3. walks' \in [DOMAIN walks' -> WalkRec]
        BY <1>10, <1>11, <1>12, <1>14 DEF With
    <2>4. DOMAIN walks' = DOMAIN walks \cup S
        BY <2>0, <2>1
    <2>5. \A x \in {t} : walks'[Append(w, x)].q = x /\ walks'[Append(w, x)].pc = "start"
        BY <1>10, <2>1 DEF v
    <2> QED
        BY <2>1, <2>2, <2>3, <2>4, <2>5 DEF Started
<1>15. ASSUME walks' = With([walks EXCEPT ![w] = r], v, n)
       PROVE  Forest(walks')
    <2>1. /\ {t} \in SUBSET Name /\ \A x \in {t} : Append(w, x) \notin DOMAIN walks
          /\ \A x, y \in {t} : x = y
        BY <1>6, <1>13
    <2>2. ChainsFromServers =>
              IsChain(r.resp.ans, r.q) /\ \A x \in {t} : LeadsTo(r.resp.ans, x)
        BY <1>5, <1>7, <1>11
    <2> QED
        BY <1>1, <1>2, <1>11, <1>14, <1>15, <2>1, <2>2, SubWalksStart, SMTT(30)
<1> QED
    BY <1>1, <1>2, <1>8, <1>15, FailForest

\* The first answer of a race: one case per arm of walk.
LEMMA AnswerStep ==
    ASSUME WalkInv, NEW w \in DOMAIN walks, NEW ip \in Ip, Answer(w, ip)
    PROVE  WalkInv'
<1>1. walks[w].pc = "race" /\ Forest(walks) /\ CacheOK(cache)
    BY DEF Answer, WalkInv
<1>2. NoKids(walks, w)
    BY <1>1, IdleNoKids
<1>3. PICK m \in Reply(world, ip, walks[w].q, walks[w].ty) :
        \/ walks' = Done(w, Ok(m)) /\ cache' = cache
        \/ walks' = Fail(w) /\ cache' = cache
        \/ classify(m, walks[w].q) = "Cname" /\ Chase(w, m)
        \/ Refer(w, m)
    BY DEF Answer
<1>4. /\ IsMessage(m) /\ Ok(m) \in Response /\ Ok(m).ok /\ Ok(m).ans = m.ans
      /\ ChainsFromServers => IsChain(m.ans, walks[w].q)
    BY Messages
<1>5. Forest(walks') /\ CacheOK(cache')
    <2>1. CASE walks' = Done(w, Ok(m)) /\ cache' = cache
        BY <1>1, <1>2, <1>4, <2>1, DoneForest
    <2>2. CASE walks' = Fail(w) /\ cache' = cache
        BY <1>1, <1>2, <2>2, FailForest
    <2>3. CASE classify(m, walks[w].q) = "Cname" /\ Chase(w, m)
        <3>1. cache' = cache
            BY <2>3 DEF Chase
        <3>2. Forest(walks')
            BY <1>1, <1>4, <2>3, ChaseForest
        <3> QED
            BY <1>1, <3>1, <3>2
    <2>4. CASE Refer(w, m)
        BY <1>1, <1>4, <2>4, ReferForest
    <2> QED
        BY <1>3, <2>1, <2>2, <2>3, <2>4
<1>6. UNCHANGED <<world, roots, file>>
    BY DEF Answer
<1> QED
    BY <1>5, <1>6 DEF WalkInv, RootsOK

(* A message whose answers start at the first and go on at its target. *)
LEMMA StitchIsChain ==
    ASSUME NEW first \in Response, NEW rest \in Response, NEW q, NEW t
    PROVE  /\ Stitch(first, rest) \in Response
           /\ IsChain(first.ans, q) /\ LeadsTo(first.ans, t)
                /\ (rest.ok => IsChain(rest.ans, t)) /\ Stitch(first, rest).ok
              => IsChain(Stitch(first, rest).ans, q)
<1>1. CASE rest.ok
    <2>1. Stitch(first, rest) = [ok |-> TRUE, rc |-> rest.rc, ans |-> first.ans \cup rest.ans]
        BY <1>1 DEF Stitch
    <2>2. Stitch(first, rest) \in Response
        BY <2>1, SMTT(30) DEF Response
    <2>3. ASSUME IsChain(first.ans, q), LeadsTo(first.ans, t), IsChain(rest.ans, t)
          PROVE  IsChain(first.ans \cup rest.ans, q)
        BY <2>3 DEF IsChain, LeadsTo
    <2> QED
        BY <1>1, <2>1, <2>2, <2>3, SMTT(30)
<1>2. CASE ~rest.ok
    BY <1>2 DEF Stitch, NoResult, Response
<1> QED
    BY <1>1, <1>2

\* The CNAME sub-walk returns and its answer is stitched on.
LEMMA ChasedStep ==
    ASSUME WalkInv, NEW w \in DOMAIN walks, Chased(w)
    PROVE  WalkInv'
<1>1. Forest(walks) /\ walks[w] \in WalkRec /\ walks[w].pc = "cname"
    BY DEF WalkInv, Forest, IsForest, Chased
<1>2. PICK v \in Children(w) :
        /\ walks[v].pc = "done"
        /\ walks' = Without(Done(w, Stitch(walks[w].resp, walks[v].resp)), {v})
    BY DEF Chased
<1> DEFINE res == Stitch(walks[w].resp, walks[v].resp)
           r == [walks[w] EXCEPT !.pc = "done", !.order = {}, !.flight = {}, !.ips = {},
                                 !.todo = {}, !.late = FALSE, !.resp = res]
           kept == Without(walks, {v})
<1>3. DOMAIN walks \subseteq Path /\ walks \in [DOMAIN walks -> WalkRec]
    BY <1>1 DEF Forest, IsForest
<1>4. v \in DOMAIN walks /\ ChildOf(v, w)
    BY <1>3, ChildIsPrefix DEF Children
<1>5. v # w /\ walks[v] \in WalkRec
    BY <1>1, <1>2, <1>3, <1>4
<1>6. Forest(kept)
    <2>1. NoKids(walks, v)
        BY <1>1, <1>2, <1>4, IdleNoKids
    <2> QED
        BY <1>1, <2>1, Pruned DEF NoKids, ChildOf
<1>7. DOMAIN kept = DOMAIN walks \ {v} /\ w \in DOMAIN kept /\ kept[w] = walks[w]
    BY <1>5 DEF Without
<1>8. NoKids(kept, w)
    BY <1>1, <1>4, <1>7 DEF Forest, Awaited, NoKids
<1>9. /\ res \in Response
      /\ ChainsFromServers /\ res.ok => IsChain(res.ans, walks[w].q)
    <2>1. walks[w].resp \in Response /\ walks[v].resp \in Response
        BY <1>1, <1>5 DEF WalkRec
    <2>2. ASSUME ChainsFromServers
          PROVE  /\ IsChain(walks[w].resp.ans, walks[w].q)
                 /\ LeadsTo(walks[w].resp.ans, walks[v].q)
                 /\ walks[v].resp.ok => IsChain(walks[v].resp.ans, walks[v].q)
        BY <1>1, <1>2, <1>4, <2>2 DEF Forest, Chained
    <2> QED
        BY <2>1, <2>2, StitchIsChain
<1> HIDE DEF res
<1>10. r \in WalkRec /\ r.pc = "done" /\ r.q = walks[w].q /\ r.resp = res
    BY <1>1, <1>9 DEF WalkRec
<1>11. walks' = Without([walks EXCEPT ![w] = r], {v})
    BY <1>2 DEF Done, Set, res
<1> HIDE DEF r
<1>12. walks' = [kept EXCEPT ![w] = r]
    BY <1>3, <1>5, <1>11 DEF Without
<1> HIDE DEF kept
<1>13. Forest(walks')
    BY <1>6, <1>7, <1>8, <1>9, <1>10, <1>12, GoesOn
<1>14. UNCHANGED <<world, cache, roots, file>>
    BY DEF Chased
<1> QED
    BY <1>13, <1>14 DEF WalkInv, RootsOK

(* What is dropped is closed under sub-walks and does not hold its parent. *)
LEMMA DroppedFacts ==
    ASSUME Forest(walks), NEW w \in DOMAIN walks, NEW gone \in SUBSET Children(w)
    PROVE  /\ Forest(Without(walks, Dropped(gone)))
           /\ w \notin Dropped(gone) /\ gone \subseteq Dropped(gone)
<1>1. DOMAIN walks \subseteq Path /\ w \in Path
    BY DEF Forest, IsForest
<1>2. \A v \in gone : v \in DOMAIN walks /\ v \in Path /\ Len(v) = Len(w) + 1
    BY <1>1 DEF Children
<1>3. Len(w) \in Nat
    BY <1>1, SMTT(30) DEF Path
<1>4. w \notin Dropped(gone)
    <2>1. ASSUME NEW v \in gone, w \in SubTree(v)
          PROVE  FALSE
        <3>1. Len(v) <= Len(w)
            BY <1>1, <1>2, <2>1, SubTreeFacts DEF SubTree
        <3> QED
            BY <1>2, <1>3, <3>1, SMTT(30)
    <2> QED
        BY <2>1 DEF Dropped
<1>5. gone \subseteq Dropped(gone)
    BY <1>2, SubTreeFacts, SMTT(30) DEF Dropped, SubTree
<1>6. ASSUME NEW x \in DOMAIN walks, Len(x) > 1, Front(x) \in Dropped(gone)
      PROVE  x \in Dropped(gone)
    <2>1. PICK v \in gone : Front(x) \in SubTree(v)
        BY <1>6 DEF Dropped
    <2>2. IsPrefix(v, x)
        BY <1>1, <1>2, <1>6, <2>1, SubTreeFacts DEF SubTree
    <2> QED
        BY <2>2, SMTT(30) DEF Dropped, SubTree
<1> QED
    BY <1>4, <1>5, <1>6, Pruned

\* A sub-walk of resolve_ns_ips returns or times out: the slot is refilled, the
\* wait goes on, or the walk does.
LEMMA SubDoneStep ==
    ASSUME WalkInv, NEW w \in DOMAIN walks, NEW v \in DOMAIN walks, SubDone(w, v)
    PROVE  WalkInv'
<1> DEFINE got == {r.d : r \in {r \in walks[v].resp.ans : r.t = "A"}}
           ips == walks[w].ips \cup (IF walks[v].pc = "done" THEN got ELSE {})
           stop == ips # {} /\ walks[w].late
           gone == IF stop THEN Children(w) ELSE {v}
           left == Children(w) \ gone
           r == [walks[w] EXCEPT !.ips = ips]
           kept == Without(walks, Dropped(gone))
           send == [r EXCEPT !.pc = "send", !.todo = {}, !.late = FALSE]
<1>1. /\ Forest(walks) /\ walks[w] \in WalkRec /\ walks[v] \in WalkRec
      /\ DOMAIN walks \subseteq Path /\ walks \in [DOMAIN walks -> WalkRec]
    BY DEF WalkInv, Forest, IsForest
<1>2. walks[w].pc = "ns" /\ v \in Children(w)
    BY DEF SubDone
<1>3. ips \subseteq Addr
    <2>1. walks[v].resp.ans \subseteq Record /\ walks[w].ips \subseteq Addr
        BY <1>1 DEF WalkRec, Response
    <2>2. got \subseteq Ip \ V6
        BY <2>1 DEF Record
    <2> HIDE DEF got
    <2> QED
        BY <2>1, <2>2 DEF Addr, Usable
<1>4. gone \in SUBSET Children(w)
    BY <1>2
<1>5. \/ \E name \in r.todo : walks' = With([kept EXCEPT ![w] = [r EXCEPT !.todo = @ \ {name}]],
                Append(w, name), NewWalk(name, "A", SubOwner(w, Append(w, name)), r.nest + 1))
      \/ walks' = [kept EXCEPT ![w] = IF left # {} THEN r
                                      ELSE IF ips = {} THEN Fail(w)[w] ELSE send]
    BY DEF SubDone
<1> HIDE DEF ips
<1>6. /\ r \in WalkRec /\ r.pc = "ns" /\ r.q = walks[w].q /\ r.todo = walks[w].todo
      /\ r.todo \subseteq Name /\ r.nest + 1 \in Nat
    <2>1. r \in WalkRec /\ r.pc = "ns" /\ r.q = walks[w].q /\ r.todo = walks[w].todo
        BY <1>1, <1>2, <1>3 DEF WalkRec
    <2> HIDE DEF r
    <2>2. r.todo \subseteq Name /\ r.nest + 1 \in Nat
        BY <2>1, SMTT(30) DEF WalkRec
    <2> QED
        BY <2>1, <2>2
<1>7. send \in WalkRec /\ send.pc = "send" /\ send.q = walks[w].q
    BY <1>1, <1>3 DEF WalkRec
<1> HIDE DEF gone, r, send
<1>8. /\ Forest(kept) /\ w \notin Dropped(gone) /\ gone \subseteq Dropped(gone)
    BY <1>1, <1>4, DroppedFacts
<1>9. /\ DOMAIN kept = DOMAIN walks \ Dropped(gone) /\ w \in DOMAIN kept
      /\ kept[w] = walks[w] /\ kept \in [DOMAIN kept -> WalkRec]
    BY <1>1, <1>8 DEF Without
<1> HIDE DEF kept
<1>10. ASSUME left = {}
       PROVE  NoKids(kept, w)
    <2>1. \A x \in DOMAIN kept : x \notin Children(w)
        BY <1>8, <1>9, <1>10
    <2> QED
        BY <1>1, <1>9, <2>1, ChildIsPrefix DEF Children, NoKids
<1>11. ASSUME NEW name \in r.todo,
              walks' = With([kept EXCEPT ![w] = [r EXCEPT !.todo = @ \ {name}]],
                Append(w, name), NewWalk(name, "A", SubOwner(w, Append(w, name)), r.nest + 1))
       PROVE  Forest(walks')
    <2> DEFINE x == Append(w, name)
               t == [r EXCEPT !.todo = @ \ {name}]
               n == NewWalk(name, "A", x, r.nest + 1)
               S == {Append(w, y) : y \in {name}}
    <2>1. name \in Name /\ x \in Seq(Name) /\ x # w /\ w \in Path
        BY <1>1, <1>6, <1>11, AppendPath DEF Path
    <2>2. n \in WalkRec /\ n.q = name /\ n.pc = "start"
        <3>1. "A" \in Type /\ r.nest + 1 \in Nat
            BY <1>6 DEF Type
        <3> HIDE DEF x
        <3> QED
            BY <2>1, <3>1, NewWalkRecord
    <2>3. t \in WalkRec /\ t.pc = "ns" /\ t.q = walks[w].q /\ t.todo = r.todo \ {name}
        BY <1>6 DEF WalkRec
    <2>4. \A y \in r.todo : Append(w, y) \notin DOMAIN kept
        BY <1>1, <1>2, <1>6, <1>9 DEF Forest, Awaited
    <2>5. walks' = With([kept EXCEPT ![w] = t], x, n)
        BY <1>11 DEF SubOwner
    <2>6. S = {x}
        OBVIOUS
    <2> HIDE DEF x, t, n
    <2>7. DOMAIN walks' = DOMAIN kept \cup {x} /\ walks'[x] = n /\ walks'[w] = t
        BY <1>9, <2>1, <2>5 DEF With
    <2>8. \A y \in DOMAIN kept : y # w => walks'[y] = kept[y]
        <3>1. x \notin DOMAIN kept
            BY <1>11, <2>4 DEF x
        <3> QED
            BY <2>5, <3>1 DEF With
    <2>9. walks' \in [DOMAIN walks' -> WalkRec]
        BY <1>9, <2>2, <2>3, <2>5, SMTT(30) DEF With
    <2>10. Started(kept, walks', w, t, {name})
        <3>1. DOMAIN walks' = DOMAIN kept \cup S
            BY <2>6, <2>7
        <3>2. \A y \in {name} : walks'[Append(w, y)].q = y /\ walks'[Append(w, y)].pc = "start"
            BY <2>2, <2>7 DEF x
        <3> QED
            BY <2>7, <2>8, <2>9, <3>1, <3>2, SMTT(30) DEF Started
    <2>11. /\ {name} \in SUBSET Name /\ t.todo \cap {name} = {}
           /\ \A y \in {name} : Append(w, y) \notin DOMAIN kept
           /\ \A y \in t.todo : Append(w, y) \notin DOMAIN kept
        BY <1>11, <2>1, <2>3, <2>4
    <2> QED
        BY <1>8, <1>9, <2>3, <2>10, <2>11, SubWalksStart
<1>12. ASSUME walks' = [kept EXCEPT ![w] = IF left # {} THEN r
                                      ELSE IF ips = {} THEN Fail(w)[w] ELSE send]
       PROVE  Forest(walks')
    <2>1. CASE left # {}
        BY <1>2, <1>6, <1>8, <1>9, <1>12, <2>1, StillWaits
    <2>2. CASE left = {} /\ ips # {}
        BY <1>7, <1>8, <1>9, <1>10, <1>12, <2>2, GoesOn
    <2>3. CASE left = {} /\ ips = {}
        <3> DEFINE f == Fail(w)[w]
        <3>1. f \in WalkRec /\ f.pc = "done" /\ f.q = walks[w].q /\ ~f.resp.ok
            <4> DEFINE d == [walks[w] EXCEPT !.pc = "done", !.order = {}, !.flight = {},
                              !.ips = {}, !.todo = {}, !.late = FALSE, !.resp = NoResult]
            <4>1. f = d
                BY DEF Fail, Done, Set
            <4>2. NoResult \in Response
                BY DEF NoResult, Response
            <4>3. ~NoResult.ok
                BY DEF NoResult
            <4>4. d \in WalkRec /\ d.pc = "done" /\ d.q = walks[w].q /\ d.resp = NoResult
                BY <1>1, <4>2 DEF WalkRec
            <4> QED
                BY <4>1, <4>3, <4>4
        <3> HIDE DEF f
        <3>2. walks' = [kept EXCEPT ![w] = f]
            BY <1>12, <2>3 DEF f
        <3> QED
            BY <1>8, <1>9, <1>10, <2>3, <3>1, <3>2, GoesOn
    <2> QED
        BY <2>1, <2>2, <2>3
<1>13. Forest(walks')
    BY <1>5, <1>11, <1>12
<1>14. UNCHANGED <<world, cache, roots, file>>
    BY DEF SubDone
<1> QED
    BY <1>13, <1>14 DEF WalkInv, RootsOK
-----------------------------------------------------------------------------
(* The steps of a question as a whole, of priming and of the cache. *)
LEMMA EmptyForest == Forest(<< >>)
<1>1. DOMAIN << >> = {}
    BY SMTT(30)
<1>2. << >> \in [DOMAIN << >> -> WalkRec]
    BY <1>1, SMTT(30)
<1> QED
    BY <1>1, <1>2 DEF Forest, IsForest, Awaited, Chained

\* A client question starts a walk or is answered locally.
LEMMA AskStep ==
    ASSUME WalkInv, NEW qn \in Question, Ask(qn)
    PROVE  WalkInv'
<1>1. qn.q \in Name /\ qn.ty \in Type
    BY WalkAssumption
<1>2. CASE qn.q \in PrivateReverse
    <2>1. cache' = [cache EXCEPT ![<<qn.q, qn.ty>>] = {}] /\ UNCHANGED <<world, walks, roots, file>>
        BY <1>2 DEF Ask
    <2>2. CacheOK(cache')
        BY <1>1, <2>1, CachePut DEF WalkInv
    <2> QED
        BY <2>1, <2>2 DEF WalkInv, RootsOK
<1>3. CASE qn.q \notin PrivateReverse
    <2> DEFINE p == <<qn.q>>
               n == NewWalk(qn.q, qn.ty, p, 0)
    <2>1. walks' = [w \in {p} |-> n] /\ UNCHANGED <<world, cache, roots, file>>
        BY <1>3 DEF Ask
    <2>2. p \in Path /\ p \in Seq(Name) /\ ~(Len(p) > 1)
        BY <1>1, SMTT(30) DEF Path
    <2> HIDE DEF p
    <2>3. n \in WalkRec /\ n.q = qn.q /\ n.pc = "start"
        BY <1>1, <2>2, NewWalkRecord, SMTT(30)
    <2> HIDE DEF n
    <2>4. DOMAIN walks' = {p} /\ walks'[p] = n /\ IsForest(walks')
        BY <2>1, <2>2, <2>3 DEF IsForest
    <2>5. \A v \in DOMAIN walks' : v = p /\ ~(Len(v) > 1) /\ walks'[v].pc = "start"
        <3>1. walks'[p].pc = "start"
            BY <2>3, <2>4
        <3>2. \A v \in DOMAIN walks' : v = p
            BY <2>4
        <3> QED
            BY <2>2, <3>1, <3>2
    <2>6. Awaited(walks') /\ Chained(walks')
        BY <2>5 DEF Awaited, Chained
    <2>7. Forest(walks')
        BY <2>4, <2>6 DEF Forest
    <2> QED
        BY <2>1, <2>7 DEF WalkInv, RootsOK
<1> QED
    BY <1>2, <1>3

\* resolve_with_chain returns and fills the cache.
LEMMA ReturnStep ==
    ASSUME WalkInv, NEW w \in DOMAIN walks, Return(w)
    PROVE  WalkInv'
<1> DEFINE data == {r.d : r \in {r \in walks[w].resp.ans : r.t = walks[w].ty}}
<1>1. walks[w].q \in Name /\ walks[w].ty \in Type /\ walks[w].resp.ans \subseteq Record
    BY DEF WalkInv, Forest, IsForest, WalkRec, Response
<1>2. /\ walks[w].ty = "A" => data \subseteq Ip \ V6
      /\ walks[w].ty = "AAAA" => data \subseteq Ip
      /\ walks[w].ty = "NS" => data \subseteq Name
    BY <1>1 DEF Record
<1>3. \/ cache' = cache
      \/ cache' = [cache EXCEPT ![<<walks[w].q, walks[w].ty>>] = data]
    BY DEF Return
<1> HIDE DEF data
<1>4. CacheOK(cache')
    BY <1>1, <1>2, <1>3, CachePut, SMTT(30) DEF WalkInv
<1>5. walks' = << >> /\ UNCHANGED <<world, roots, file>>
    BY DEF Return
<1> QED
    BY <1>4, <1>5, EmptyForest DEF WalkInv, RootsOK

(* Roots that were loaded or primed are usable, also by the next process. *)
LEMMA UsableFacts ==
    ASSUME NEW S \in SUBSET Ip
    PROVE  Usable(S) \subseteq Addr /\ Usable(S) \subseteq Ip /\ Usable(Usable(S)) = Usable(S)
    BY DEF Usable, Addr

\* Roots read at start-up may be asked, and there are some unless the file has
\* none that may.
LEMMA LoadedRoots ==
    ASSUME NEW f, f # NoFile => f \subseteq Ip
    PROVE  /\ LoadRoots(f) \subseteq Addr
           /\ (LoadRoots(f) # {}) <=> HasUsable(f)
<1>1. Usable(DefaultRoots) # {} /\ Usable(DefaultRoots) \subseteq Addr
    BY WalkAssumption, UsableFacts DEF Usable
<1>2. CASE f = NoFile \/ f = {}
    BY <1>1, <1>2 DEF LoadRoots, HasUsable
<1>3. CASE f # NoFile /\ f # {}
    BY <1>3, UsableFacts DEF LoadRoots, HasUsable
<1> QED
    BY <1>2, <1>3

\* Priming replaces the roots only by usable ones.
LEMMA PrimeStep ==
    ASSUME WalkInv, Prime
    PROVE  WalkInv'
<1>1. PICK seed \in Seeds : \E m \in Reply(world, seed, Root, "NS") :
         /\ cache' = cache_zone_ns(cache_glue(cache, m.glue), Root, m.ns)
         /\ m.zone = Root
         /\ IF NewRoots(m).ok
              THEN roots' = NewRoots(m).ips /\ file' \in {file, NewRoots(m).ips}
              ELSE UNCHANGED <<roots, file>>
    BY DEF Prime
<1>2. PICK m \in Reply(world, seed, Root, "NS") :
         /\ cache' = cache_zone_ns(cache_glue(cache, m.glue), Root, m.ns)
         /\ m.zone = Root
         /\ IF NewRoots(m).ok
              THEN roots' = NewRoots(m).ips /\ file' \in {file, NewRoots(m).ips}
              ELSE UNCHANGED <<roots, file>>
    BY <1>1
<1>3. IsMessage(m)
    <2>1. seed \in Ip
        BY DEF Seeds, WalkInv, RootsOK, Addr, Usable
    <2>2. world \in World /\ Root \in Name /\ "NS" \in Type
        BY WalkAssumption DEF WalkInv, Type
    <2> QED
        BY <2>1, <2>2, WalkAssumption
<1>4. CacheOK(cache')
    BY <1>2, <1>3, CacheReferral DEF WalkInv
<1>5. RootsOK'
    <2> DEFINE glue == UNION {m.glue[n] : n \in m.ns \cap DOMAIN m.glue}
               ips == NewRoots(m).ips
    <2>1. CASE ~NewRoots(m).ok
        BY <1>2, <2>1 DEF WalkInv, RootsOK
    <2>2. CASE NewRoots(m).ok
        <3>1. ips # {} /\ ips = UNION {Usable(m.glue[n]) : n \in m.ns \cap DOMAIN m.glue}
            BY <2>2 DEF NewRoots
        <3>2. \A n \in m.ns \cap DOMAIN m.glue : Usable(m.glue[n]) \subseteq Addr
            BY <1>3, UsableFacts DEF IsMessage
        <3>3. ips \subseteq Addr
            BY <3>1, <3>2
        <3> HIDE DEF ips
        <3>4. ips \subseteq Ip /\ Usable(ips) = ips
            BY <3>3 DEF Addr, Usable
        <3>5. ips # NoFile
            BY <3>4, WalkAssumption
        <3>6. HasUsable(file) /\ HasUsable(ips)
            BY <3>1, <3>4 DEF HasUsable, Seeds, WalkInv, RootsOK
        <3>7. roots' = ips /\ file' \in {file, ips}
            BY <1>2, <2>2 DEF ips
        <3>8. HasUsable(file)'
            BY <3>6, <3>7 DEF HasUsable, Usable
        <3> QED
            BY <3>1, <3>3, <3>4, <3>7, <3>8 DEF WalkInv, RootsOK
    <2> QED
        BY <2>1, <2>2
<1>6. UNCHANGED <<world, walks>>
    BY DEF Prime
<1> QED
    BY <1>4, <1>5, <1>6 DEF WalkInv

\* A new process starts from the hints file.
LEMMA RestartStep ==
    ASSUME WalkInv, Restart
    PROVE  WalkInv'
<1>1. /\ walks' = << >> /\ cache' = [k \in Key |-> NoEntry]
      /\ roots' = LoadRoots(file) /\ UNCHANGED <<world, file>>
    BY DEF Restart
<1>2. RootsOK'
    BY <1>1, LoadedRoots DEF WalkInv, RootsOK
<1> QED
    BY <1>1, <1>2, EmptyForest, CacheEmpty DEF WalkInv

\* A cache entry expires.
LEMMA ExpireStep ==
    ASSUME WalkInv, NEW k \in Key, Expire(k)
    PROVE  WalkInv'
<1>1. cache' = [cache EXCEPT ![k] = NoEntry] /\ UNCHANGED <<world, walks, roots, file>>
    BY DEF Expire
<1>2. CacheOK(cache')
    BY <1>1, CacheExpire DEF WalkInv
<1> QED
    BY <1>1, <1>2 DEF WalkInv, RootsOK
-----------------------------------------------------------------------------
(* Walks, cache and roots stay consistent in every reachable state of      *)
(* IterativeResolver: the inductive invariant.                             *)
THEOREM WalkInvariant == Spec => []WalkInv
<1>1. Init => WalkInv
    <2> SUFFICES ASSUME Init
                 PROVE  WalkInv
        OBVIOUS
    <2>1. world \in World /\ walks = << >> /\ cache = [k \in Key |-> NoEntry]
        BY DEF Init
    <2>2. file \in HintFiles /\ roots = LoadRoots(file)
        BY DEF Init
    <2>3. RootsOK
        BY <2>2, WalkAssumption, LoadedRoots DEF RootsOK
    <2> QED
        BY <2>1, <2>3, EmptyForest, CacheEmpty DEF WalkInv
<1>2. WalkInv /\ [Next]_vars => WalkInv'
    <2> SUFFICES ASSUME WalkInv, [Next]_vars
                 PROVE  WalkInv'
        OBVIOUS
    <2>1. CASE \E qn \in Question : Ask(qn)
        BY <2>1, AskStep
    <2>2. CASE \E w \in DOMAIN walks : Step(w) \/ Deadline(w)
        BY <2>2, StartStep, SendStep, ChasedStep, ReturnStep, AnswerStep, LostStep,
           SubDoneStep, DeadlineStep, SMTT(30) DEF Step
    <2>3. CASE Prime
        BY <2>3, PrimeStep
    <2>4. CASE PrimeFails
        BY <2>4 DEF PrimeFails, WalkInv, RootsOK
    <2>5. CASE Restart
        BY <2>5, RestartStep
    <2>6. CASE \E k \in Key : Expire(k)
        BY <2>6, ExpireStep
    <2>7. CASE UNCHANGED vars
        BY <2>7 DEF vars, WalkInv, RootsOK
    <2> QED
        BY <2>1, <2>2, <2>3, <2>4, <2>5, <2>6, <2>7, SMTT(30) DEF Next
<1> QED
    BY <1>1, <1>2, PTL DEF Spec

(* Every walk is awaited by the walk that started it, for any delegation   *)
(* tree, budget and nesting: futures dropped by resolve_ns_ips take all    *)
(* they started with them.                                                 *)
THEOREM NothingIsOrphaned == Spec => []NoOrphanWalk
<1>1. WalkInv => NoOrphanWalk
    BY DEF WalkInv, Forest, Awaited, NoOrphanWalk
<1> QED
    BY <1>1, WalkInvariant, PTL

(* There are root servers to ask unless the hints file the process loaded  *)
(* has none that may be, and with ipv6_upstream off no query goes to an    *)
(* IPv6 server, whatever servers say, walks find, priming brings and       *)
(* earlier processes left.                                                 *)
THEOREM ServersAreUsable == Spec => []UpstreamsUsable
<1>1. WalkInv => UpstreamsUsable
    <2> SUFFICES ASSUME WalkInv
                 PROVE  UpstreamsUsable
        OBVIOUS
    <2>1. roots \subseteq Addr /\ ((roots # {}) <=> HasUsable(file))
        BY DEF WalkInv, RootsOK
    <2>2. \A w \in DOMAIN walks : walks[w].flight \subseteq Addr
        BY DEF WalkInv, Forest, IsForest, WalkRec
    <2>3. ~IPV6 => Addr \cap V6 = {}
        BY DEF Addr, Usable
    <2> QED
        BY <2>1, <2>2, <2>3 DEF UpstreamsUsable
<1> QED
    BY <1>1, WalkInvariant, PTL

(* If servers answer with chains, what walk returns through any number of  *)
(* CNAME hops is one chain from the name asked for.                        *)
THEOREM AnswersAreChains ==
    ASSUME ChainsFromServers
    PROVE  Spec => []AnswerIsAChain
<1>1. WalkInv => AnswerIsAChain
    BY ChainsFromServers DEF WalkInv, Forest, Chained, IsChain, AnswerIsAChain
<1> QED
    BY <1>1, WalkInvariant, PTL
=============================================================================
