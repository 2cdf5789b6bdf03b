-------------------------------- MODULE Walk --------------------------------
(***************************************************************************)
(* The iterative resolver of src/recursor/iterative.rs on its plaintext    *)
(* path (dnssec_ok = false): walk, the race of query_ns_set, the glueless  *)
(* sub-walks of resolve_ns_ips, the CNAME chase, the name-server entries   *)
(* the walk keeps in the response cache, and the priming of the root hints.*)
(*                                                                         *)
(* The walks of one client question form a tree of futures, one record per *)
(* walk, named by its path from the question: Append(w, n) is the sub-walk *)
(* of w for the name n.  A future that is dropped takes its sub-tree with  *)
(* it.  A name is the sequence of its labels from the root down, so that   *)
(* zone_of is IsPrefix and num_labels is Len.                              *)
(***************************************************************************)
EXTENDS Naturals, Sequences, FiniteSets, SequencesExt

CONSTANTS
    Name,               \* the names of the instance
    Ip, V6,             \* server addresses, and the IPv6 ones among them
    Question,           \* what clients ask: records [q, ty]
    PrivateReverse,     \* the names local_zones::is_private_reverse accepts
    World,              \* delegation trees
    Reply(_, _, _, _),  \* Reply(world, ip, name, type): what a server may say
    DefaultRoots,       \* default_root_hints
    HintFiles,          \* root-hints files an earlier process may have left
    IPV6,               \* ipv6_upstream
    MaxDepth, MaxQueries, MaxCname,     \* the budget of a client question
    SubDepth, SubQueries, SubCname,     \* the budget of a glueless sub-walk
    MAX_NS_ATTEMPTS, NS_PARALLEL,
    MaxNest,            \* bound: glueless sub-walks that run inside one another
    MaxAsks,            \* bound: client questions and restarts
    MaxExpiries,        \* bound: cache entries that expire
    NoFile, NoEntry

Root == << >>
Type == {"A", "AAAA", "NS"}

Label == UNION {ToSet(q) : q \in Name}
Rcode == {"NoError", "NXDomain", "ServFail", "Refused", "Other"}

(* Resource records and messages as far as the walk looks at them.  An A    *)
(* record holds an IPv4 address (RData::A); the name servers of a referral  *)
(* come in any order, so they are a set.                                    *)
Record == [n : Name, t : {"A"}, d : Ip \ V6] \cup [n : Name, t : {"AAAA"}, d : Ip \cap V6]
            \cup [n : Name, t : {"NS", "CNAME"}, d : Name]

IsMessage(m) ==
    /\ m.rc \in Rcode
    /\ m.ans \subseteq Record
    /\ m.zone \in Name
    /\ m.ns \subseteq Name
    /\ DOMAIN m.glue \subseteq Name
    /\ \A n \in DOMAIN m.glue : m.glue[n] \subseteq Ip

ASSUME WalkAssumption ==
    /\ Root \in Name /\ Name \subseteq Seq(Label)
    /\ \A q \in Name : Prefixes(q) \subseteq Name
    /\ \A qn \in Question : qn.q \in Name /\ qn.ty \in Type
    /\ \A w \in World, ip \in Ip, q \in Name, ty \in Type :
            \A m \in Reply(w, ip, q, ty) : IsMessage(m)
    /\ DefaultRoots \subseteq Ip /\ DefaultRoots \ V6 # {}
    /\ \A f \in HintFiles : f # NoFile => f \subseteq Ip
    /\ \A ips \in SUBSET Ip : ips # NoFile

VARIABLES
    world,      \* the delegation tree of this behaviour
    walks,      \* the walks alive: id -> record
    budget,     \* owner id -> what is left
    cache,      \* (name, type) -> the data of the cached RRset
    roots,      \* the live root-hint set
    file,       \* the persisted root hints
    prime,      \* the priming task: "query" or "end"
    result,     \* what resolve_with_chain returned last
    asked,      \* client questions and restarts so far
    expired     \* cache entries that have expired so far

vars == <<world, walks, budget, cache, roots, file, prime, result, asked, expired>>

Key == Name \X Type
NoResult == [ok |-> FALSE, rc |-> "none", ans |-> {}]

Usable(ips) == IF IPV6 THEN ips ELSE ips \ V6
Lesser(a, b) == IF a < b THEN a ELSE b
Without(f, S) == [x \in DOMAIN f \ S |-> f[x]]
With(f, x, v) == [y \in DOMAIN f \cup {x} |-> IF y = x THEN v ELSE f[y]]
SubTree(w) == {v \in DOMAIN walks : IsPrefix(w, v)}
Children(w) == {v \in DOMAIN walks : Len(v) = Len(w) + 1 /\ IsPrefix(w, v)}

(* IterativeResolver::new: persisted hints if there are any, or the         *)
(* hard-coded ones; then the families that may be asked.                    *)
LoadRoots(f) == Usable(IF f = NoFile \/ f = {} THEN DefaultRoots ELSE f)

Init ==
    /\ world \in World
    /\ walks = << >>
    /\ budget = << >>
    /\ cache = [k \in Key |-> NoEntry]
    /\ file \in HintFiles
    /\ roots = LoadRoots(file)
    /\ prime = "query"
    /\ result = NoResult
    /\ asked = 0
    /\ expired = 0
-----------------------------------------------------------------------------
(* cached_ns_ips: the addresses the cache holds for a name server. *)
Cached(c, n, t) == IF c[<<n, t>>] = NoEntry THEN {} ELSE c[<<n, t>>]

cached_ns_ips(c, n) == Cached(c, n, "A") \cup
                       (IF IPV6 THEN Cached(c, n, "AAAA") ELSE {})

(* cache_glue with build_synthetic_answer: one entry per family present. *)
cache_glue(c, glue) ==
    [k \in Key |->
        LET ips == IF k[1] \notin DOMAIN glue THEN {}
                   ELSE CASE k[2] = "A"    -> glue[k[1]] \ V6
                          [] k[2] = "AAAA" -> glue[k[1]] \cap V6
                          [] OTHER         -> {}
        IN  IF ips = {} THEN c[k] ELSE ips]

(* cache_zone_ns *)
cache_zone_ns(c, zone, targets) == [c EXCEPT ![<<zone, "NS">>] = targets]

(* closest_cached_zone: the deepest proper ancestor whose name servers and *)
(* at least one of their addresses are cached.                             *)
ZoneIps(zone) == UNION {cached_ns_ips(cache, n) : n \in Cached(cache, zone, "NS")}

Above(q) == IF q = Root THEN {Root} ELSE Prefixes(Front(q))
KnownZones(q) == {z \in Above(q) : ZoneIps(z) # {}}

StartAt(q) ==
    IF KnownZones(q) = {}
      THEN [zone |-> Root, ips |-> roots]
      ELSE LET z == CHOOSE z \in KnownZones(q) :
                        \A y \in KnownZones(q) : Len(y) <= Len(z)
           IN  [zone |-> z, ips |-> ZoneIps(z)]

(* classify *)
classify(m, q) ==
    LET heard == m.rc \notin {"NXDomain", "ServFail", "Refused"}
        alias == \E r \in m.ans : r.n = q /\ r.t = "CNAME"
    IN  CASE m.rc = "NXDomain" -> "NxDomain"
          [] m.rc \in {"ServFail", "Refused"} -> "ServFail"
          [] heard /\ alias -> "Cname"
          [] heard /\ ~alias /\ m.ans # {} -> "Answer"
          [] heard /\ m.ans = {} /\ m.ns # {} -> "Referral"
          [] OTHER -> "Empty"

CnameTarget(m, q) == (CHOOSE r \in m.ans : r.n = q /\ r.t = "CNAME").d
-----------------------------------------------------------------------------
(* A walk that has just been called. *)
NewWalk(q, ty, owner, nest) ==
    [q |-> q, ty |-> ty, owner |-> owner, nest |-> nest, pc |-> "start",
     zone |-> Root, ips |-> {}, order |-> {}, flight |-> {}, todo |-> {},
     late |-> FALSE, resp |-> NoResult]

Set(w, r) == [walks EXCEPT ![w] = r]
Done(w, res) == Set(w, [walks[w] EXCEPT !.pc = "done", !.order = {}, !.flight = {},
                                        !.ips = {}, !.todo = {}, !.late = FALSE,
                                        !.resp = res])
Fail(w) == Done(w, NoResult)
Ok(m) == [ok |-> TRUE, rc |-> m.rc, ans |-> m.ans]

(* resolve_with_chain: local zones are answered at once, the rest walk. *)
Ask(qn) ==
    /\ walks = << >>
    /\ asked < MaxAsks
    /\ asked' = asked + 1
    /\ IF qn.q \in PrivateReverse
         THEN /\ result' = [ok |-> TRUE, rc |-> "NXDomain", ans |-> {}]
              /\ cache' = [cache EXCEPT ![<<qn.q, qn.ty>>] = {}]
              /\ UNCHANGED <<walks, budget>>
         ELSE /\ walks' = [w \in {<<qn.q>>} |-> NewWalk(qn.q, qn.ty, <<qn.q>>, 0)]
              /\ budget' = [w \in {<<qn.q>>} |->
                    [depth |-> MaxDepth, queries |-> MaxQueries, cname |-> MaxCname]]
              /\ UNCHANGED <<result, cache>>
    /\ UNCHANGED <<world, roots, file, prime, expired>>

(* The rest of resolve_with_chain: the answer goes to the client and, under *)
(* the question, to the cache (DnsCache::compute_ttl is 0, and put skips    *)
(* the response, unless it is a NOERROR or an NXDOMAIN without answers).    *)
Cacheable(res) == res.ok /\ (res.rc = "NoError" \/ (res.rc = "NXDomain" /\ res.ans = {}))

Return(w) ==
    /\ Len(w) = 1
    /\ walks[w].pc = "done"
    /\ result' = walks[w].resp
    /\ cache' = IF Cacheable(walks[w].resp)
                  THEN [cache EXCEPT ![<<walks[w].q, walks[w].ty>>] =
                            {r.d : r \in {r \in walks[w].resp.ans : r.t = walks[w].ty}}]
                  ELSE cache
    /\ walks' = << >>
    /\ budget' = << >>
    /\ UNCHANGED <<world, roots, file, prime, asked, expired>>

(* walk, up to its loop: Budget::referral, then the start zone.  A sub-walk *)
(* has a budget of its own, so that in the code nothing but the deadline of *)
(* the outermost resolve_ns_ips ends a descent; in the model one that       *)
(* passes MaxNest hangs, and waits for that deadline.                       *)
Start(w) ==
    LET b == walks[w].owner
        s == StartAt(walks[w].q)
    IN  /\ walks[w].pc = "start"
        /\ walks[w].nest <= MaxNest
        /\ IF budget[b].depth = 0
             THEN walks' = Fail(w) /\ UNCHANGED budget
             ELSE /\ walks' = Set(w, [walks[w] EXCEPT !.pc = "send",
                                        !.zone = s.zone, !.ips = s.ips])
                  /\ budget' = [budget EXCEPT ![b].depth = @ - 1]
        /\ UNCHANGED <<world, cache, roots, file, prime, result, asked, expired>>

(* Mutant: a query costs nothing. *)
Spend_Free(b, n) == budget' = budget

(* Budget::query, n times. *)
Spend(b, n) == budget' = [budget EXCEPT ![b].queries = @ - Lesser(n, @)]

(* query_ns_set: shuffle, truncate, start the first NS_PARALLEL queries. *)
Send(w) ==
    LET b == walks[w].owner
        ips == walks[w].ips
        tries == Lesser(Cardinality(ips), MAX_NS_ATTEMPTS)
        n == Lesser(tries, NS_PARALLEL)
    IN  /\ walks[w].pc = "send"
        /\ Spend(b, n)
        /\ IF n = 0 \/ budget[b].queries < n
             THEN walks' = Fail(w)
             ELSE \E order \in SUBSET ips : \E flight \in SUBSET order :
                    /\ Cardinality(order) = tries
                    /\ Cardinality(flight) = n
                    /\ walks' = Set(w, [walks[w] EXCEPT !.pc = "race",
                                  !.order = order \ flight, !.flight = flight])
        /\ UNCHANGED <<world, cache, roots, file, prime, result, asked, expired>>

(* One query of the race fails: the slot is refilled, or the race is over. *)
Lost(w, ip) ==
    LET b == walks[w].owner
        r == [walks[w] EXCEPT !.flight = @ \ {ip}]
    IN  /\ walks[w].pc = "race"
        /\ ip \in walks[w].flight
        /\ \/ /\ r.order # {}
              /\ Spend(b, 1)
              /\ IF budget[b].queries = 0
                   THEN walks' = Fail(w)
                   ELSE \E next \in r.order :
                            walks' = Set(w, [r EXCEPT !.order = @ \ {next},
                                                      !.flight = @ \cup {next}])
           \/ /\ r.order = {}
              /\ walks' = IF r.flight = {} THEN Fail(w) ELSE Set(w, r)
              /\ UNCHANGED budget
        /\ UNCHANGED <<world, cache, roots, file, prime, result, asked, expired>>
-----------------------------------------------------------------------------
(* make_subwalk: a budget of its own. *)
SubOwner(w, v) == v

SubBudget == [depth |-> SubDepth, queries |-> SubQueries, cname |-> SubCname]

(* Starts sub-walks for n names of r.todo, or all, r being w's record. *)
Launch(w, r, n) ==
    \E names \in SUBSET r.todo :
      LET new == {Append(w, name) : name \in names}
          here == [walks EXCEPT ![w] = [r EXCEPT !.todo = @ \ names]]
      IN
        /\ Cardinality(names) = Lesser(n, Cardinality(r.todo))
        /\ walks' = [v \in DOMAIN walks \cup new |->
                        IF v \in new
                          THEN NewWalk(Last(v), "A", SubOwner(w, v), r.nest + 1)
                          ELSE here[v]]
        /\ budget' = [v \in DOMAIN budget \cup {v \in new : SubOwner(w, v) = v} |->
                        IF v \in new THEN SubBudget ELSE budget[v]]

(* resolve_ns_ips: the usable glue of one name server. *)
GlueIps(m, n) == Usable(m.glue[n])

(* The referral arm of walk, with the first pass of resolve_ns_ips. *)
Refer(w, m) ==
    LET zone == m.zone
        c == cache_zone_ns(cache_glue(cache, m.glue), zone, m.ns)
        b == budget[walks[w].owner]
        glued == m.ns \cap DOMAIN m.glue
        known == {n \in m.ns \ glued : cached_ns_ips(c, n) # {}}
        ips == UNION ({GlueIps(m, n) : n \in glued} \cup {cached_ns_ips(c, n) : n \in known})
        todo == IF b.depth > 0 /\ b.queries > 0 THEN m.ns \ (glued \cup known) ELSE {}
        r == [walks[w] EXCEPT !.zone = zone, !.ips = ips, !.order = {},
                              !.flight = {}, !.todo = todo]
    IN  IF Len(zone) <= Len(walks[w].zone) /\ zone # Root
          THEN walks' = Fail(w) /\ UNCHANGED <<cache, budget>>
          ELSE /\ cache' = c
               /\ IF todo # {}
                    THEN Launch(w, [r EXCEPT !.pc = "ns"], NS_PARALLEL)
                    ELSE /\ walks' = IF ips = {} THEN Fail(w)
                                     ELSE Set(w, [r EXCEPT !.pc = "send"])
                         /\ UNCHANGED budget

(* The CNAME arm of walk: a sub-walk for the target on the same budget. *)
Chase(w, m) ==
    LET b == walks[w].owner
        t == CnameTarget(m, walks[w].q)
        r == [walks[w] EXCEPT !.pc = "cname", !.flight = {}, !.order = {},
                              !.resp = Ok(m)]
    IN  /\ IF budget[b].cname = 0
             THEN walks' = Fail(w) /\ UNCHANGED budget
             ELSE /\ walks' = With(Set(w, r), Append(w, t),
                                   NewWalk(t, walks[w].ty, b, walks[w].nest))
                  /\ budget' = [budget EXCEPT ![b].cname = @ - 1]
        /\ UNCHANGED cache

(* The first answer of the race; its competitors are dropped. *)
Answer(w, ip) ==
    /\ walks[w].pc = "race"
    /\ ip \in walks[w].flight
    /\ \E m \in Reply(world, ip, walks[w].q, walks[w].ty) :
         LET class == classify(m, walks[w].q)
         IN  \/ /\ class \in {"Answer", "NxDomain", "Empty"}
                /\ walks' = Done(w, Ok(m))
                /\ UNCHANGED <<cache, budget>>
             \/ class = "ServFail" /\ walks' = Fail(w) /\ UNCHANGED <<cache, budget>>
             \/ class = "Cname" /\ Chase(w, m)
             \/ class = "Referral" /\ Refer(w, m)
    /\ UNCHANGED <<world, roots, file, prime, result, asked, expired>>
-----------------------------------------------------------------------------
(* Mutant: the answer of the chase replaces the CNAME that led to it. *)
Stitch_Replace(first, rest) == rest

(* The merged message: this hop's answers and the chased ones. *)
Stitch(first, rest) ==
    IF rest.ok THEN [ok |-> TRUE, rc |-> rest.rc, ans |-> first.ans \cup rest.ans]
               ELSE NoResult

(* The CNAME sub-walk has returned. *)
Chased(w) ==
    /\ walks[w].pc = "cname"
    /\ \E v \in Children(w) :
         /\ walks[v].pc = "done"
         /\ walks' = Without(Done(w, Stitch(walks[w].resp, walks[v].resp)), {v})
    /\ UNCHANGED <<world, budget, cache, roots, file, prime, result, asked, expired>>

(* 2.5 s have passed since resolve_ns_ips started. *)
Deadline(w) ==
    /\ walks[w].pc = "ns"
    /\ ~walks[w].late
    /\ walks' = Set(w, [walks[w] EXCEPT !.late = TRUE])
    /\ UNCHANGED <<world, budget, cache, roots, file, prime, result, asked, expired>>

(* Mutant: what a dropped sub-walk had started runs on. *)
Dropped_Shallow(gone) == gone

(* Futures that are dropped with the futures they own. *)
Dropped(gone) == UNION {SubTree(v) : v \in gone}

(* The loop of resolve_ns_ips: one sub-walk returns, or its timeout fires;  *)
(* the slot is refilled before the deadline, and after it one address is    *)
(* enough.                                                                  *)
SubDone(w, v) ==
    /\ walks[w].pc = "ns"
    /\ v \in Children(w)
    /\ walks[v].pc = "done" \/ walks[w].late
    /\ LET got == {r.d : r \in {r \in walks[v].resp.ans : r.t = "A"}}
           ips == walks[w].ips \cup (IF walks[v].pc = "done" THEN got ELSE {})
           stop == ips # {} /\ walks[w].late
           gone == IF stop THEN Children(w) ELSE {v}
           left == Children(w) \ gone
           r == [walks[w] EXCEPT !.ips = ips]
           refill == ~walks[w].late /\ r.todo # {}
           kept == Without(walks, Dropped(gone))
       IN  \/ /\ refill
              /\ \E name \in r.todo :
                   LET next == Append(w, name)
                   IN  /\ walks' = With([kept EXCEPT ![w] = [r EXCEPT !.todo = @ \ {name}]],
                                next, NewWalk(name, "A", SubOwner(w, next), r.nest + 1))
                       /\ budget' = With(Without(budget, Dropped(gone)),
                                         SubOwner(w, next), SubBudget)
           \/ /\ ~refill
              /\ walks' = [kept EXCEPT ![w] =
                    IF left # {} THEN r
                    ELSE IF ips = {} THEN Fail(w)[w]
                    ELSE [r EXCEPT !.pc = "send", !.todo = {}, !.late = FALSE]]
              /\ budget' = Without(budget, Dropped(gone))
    /\ UNCHANGED <<world, cache, roots, file, prime, result, asked, expired>>
-----------------------------------------------------------------------------
Seeds == IF roots \ V6 # {} THEN roots \ V6 ELSE roots

PrimeFails ==
    /\ prime = "query"
    /\ prime' = "end"
    /\ UNCHANGED <<world, walks, budget, cache, roots, file, result, asked, expired>>

(* Mutant: the roots are swapped for whatever glue there was. *)
NewRoots_Empty(m) == [ok |-> TRUE,
    ips |-> UNION {Usable(m.glue[n]) : n \in m.ns \cap DOMAIN m.glue}]

(* prime: the root set the response describes, if it is usable. *)
NewRoots(m) ==
    LET ips == UNION {Usable(m.glue[n]) : n \in m.ns \cap DOMAIN m.glue}
    IN  [ok |-> ips # {}, ips |-> ips]

(* prime: the NS set of the root, in the cache, on disk and in memory.  The *)
(* file write may fail; the swap is done all the same.                      *)
Prime ==
    /\ prime = "query"
    /\ prime' = "end"
    /\ \E seed \in Seeds : \E m \in Reply(world, seed, Root, "NS") :
         /\ m.rc = "NoError" /\ m.zone = Root /\ m.ns # {}
         /\ cache' = cache_zone_ns(cache_glue(cache, m.glue), Root, m.ns)
         /\ IF NewRoots(m).ok
              THEN /\ roots' = NewRoots(m).ips
                   /\ file' \in {file, NewRoots(m).ips}
              ELSE UNCHANGED <<roots, file>>
    /\ UNCHANGED <<world, walks, budget, result, asked, expired>>

(* The process stops and starts again; only the hints file survives. *)
Restart ==
    /\ prime = "end"
    /\ asked < MaxAsks
    /\ walks' = << >>
    /\ budget' = << >>
    /\ cache' = [k \in Key |-> NoEntry]
    /\ roots' = LoadRoots(file)
    /\ prime' = "query"
    /\ result' = NoResult
    /\ asked' = asked + 1
    /\ UNCHANGED <<world, file, expired>>

(* An entry of the response cache reaches its expiry (glue after 300 s). *)
Expire(k) ==
    /\ cache[k] # NoEntry
    /\ expired < MaxExpiries
    /\ expired' = expired + 1
    /\ cache' = [cache EXCEPT ![k] = NoEntry]
    /\ UNCHANGED <<world, walks, budget, roots, file, prime, result, asked>>

Step(w) ==
    \/ Start(w) \/ Send(w) \/ Chased(w) \/ Return(w)
    \/ \E ip \in Ip : Answer(w, ip) \/ Lost(w, ip)
    \/ \E v \in DOMAIN walks : SubDone(w, v)

Next ==
    \/ \E qn \in Question : Ask(qn)
    \/ \E w \in DOMAIN walks : Step(w) \/ Deadline(w)
    \/ Prime \/ PrimeFails \/ Restart
    \/ \E k \in Key : Expire(k)

Spec == Init /\ [][Next]_vars

(* Futures are polled, upstream queries end (UdpMux!EveryQueryEnds), and    *)
(* time passes for the outermost resolve_ns_ips whatever runs below it.     *)
Outermost(w) == \A v \in DOMAIN walks : IsStrictPrefix(v, w) => walks[v].pc # "ns"
SomeStep == \E w \in DOMAIN walks : Step(w)
SomeDeadline == \E w \in DOMAIN walks : Outermost(w) /\ Deadline(w)

FairSpec == Spec /\ WF_vars(SomeStep) /\ WF_vars(SomeDeadline)
-----------------------------------------------------------------------------
(* There is a server to ask, and one that may be asked, across priming,     *)
(* restarts and the hints files of an earlier configuration.  The root set  *)
(* is empty only in a process that loaded a file without a usable address,  *)
(* and priming never leaves such a file or such a set behind; with          *)
(* ipv6_upstream off no query is addressed to an IPv6 server, whether the   *)
(* address is a default, persisted or primed root, glue, or was cached or   *)
(* found by a sub-walk.                                                     *)
HasUsable(f) == f = NoFile \/ f = {} \/ Usable(f) # {}

UpstreamsUsable ==
    /\ roots # {} <=> HasUsable(file)
    /\ ~IPV6 => /\ roots \cap V6 = {}
                /\ \A w \in DOMAIN walks : walks[w].flight \cap V6 = {}

(* Every walk is awaited by the walk that started it: what query_ns_set or  *)
(* resolve_ns_ips drops at a first answer or at the deadline is gone with   *)
(* all it started in turn.                                                  *)
NoOrphanWalk ==
    \A w \in DOMAIN walks : Len(w) > 1 =>
        /\ Front(w) \in DOMAIN walks
        /\ walks[Front(w)].pc \in {"ns", "cname"}

(* The answer given to the client is one chain: every record is owned by    *)
(* the name asked for or by the target of a CNAME of the same answer.       *)
AnswerIsAChain ==
    \A w \in DOMAIN walks :
        walks[w].pc = "done" /\ walks[w].resp.ok =>
            \A r \in walks[w].resp.ans :
                \/ r.n = walks[w].q
                \/ \E c \in walks[w].resp.ans : c.t = "CNAME" /\ c.d = r.n

(* Every question is answered, whatever the delegations: name servers that  *)
(* refer in a circle, glueless zones that need one another, CNAME loops.    *)
WalkEnds == walks # << >> ~> walks = << >>
=============================================================================
