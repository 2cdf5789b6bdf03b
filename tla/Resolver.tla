------------------------------ MODULE Resolver ------------------------------
(***************************************************************************)
(* RecursorHandler::handle_bytes (src/recursor/mod.rs): the readiness      *)
(* gate, the DNS64 paths, the response cache, the cache of failed walks,   *)
(* the in-flight coalescer and the hand-over to forwarders or to the       *)
(* iterative walker, for concurrent queries on a multi-threaded runtime.   *)
(* A step is one access to shared state with the local code around it.     *)
(*                                                                         *)
(* Abstractions.                                                           *)
(*  - One domain name is asked for.  A question is its record type;        *)
(*    "PTR6" is a PTR question under the DNS64 prefix, which a DNS64       *)
(*    listener rewrites to the question "PTR".                             *)
(*  - A response is its shape rc ("data", "empty" for NODATA or NXDOMAIN,  *)
(*    "error" for any other upstream rcode, "servfail", "refused"), its AD *)
(*    bit and, as history, where its content came from.                    *)
(*  - Entries of either cache may expire or be evicted at any time.  A     *)
(*    response whose TTL is 0 is not cached.                               *)
(*  - The walker, the validator and the forwarders (modelled elsewhere)    *)
(*    answer anything.  Malformed and rate-limited queries get no answer.  *)
(*    The locally answered names touch no shared state and are left out.   *)
(***************************************************************************)
EXTENDS Naturals, FiniteSets

CONSTANTS
    Client,       \* concurrently served queries
    Question,     \* the record types asked for
    Forwarded,    \* questions for which a forwarder is configured
    Iterative,    \* whether the iterative resolver is built
    Policy,       \* DnssecPolicy: "passthrough", "strip" or "validate"
    Dns64,        \* the settings of ctx.dns64 among the listeners
    IN_FLIGHT_CAP, \* bound of InFlightMap
    NoMutex

ASSUME ResolverAssumption ==
    /\ IsFiniteSet(Client)
    /\ Question \subseteq {"A", "AAAA", "PTR", "PTR6", "MX"}
    /\ Forwarded \subseteq Question
    /\ Iterative \in BOOLEAN
    /\ Policy \in {"passthrough", "strip", "validate"}
    /\ Dns64 \subseteq BOOLEAN
    /\ IN_FLIGHT_CAP \in Nat \ {0}
    /\ NoMutex \notin Nat

VARIABLES
    ready,   \* the startup readiness gate
    cache,   \* DnsCache
    neg,     \* NegResolveCache
    map,     \* InFlightMap: question -> mutex
    pc, q, dns64, mutex, resp   \* one query: position, question, listener,
                                \* Arc of the coalesce mutex, response so far

shared == <<ready, cache, neg, map>>
vars   == <<shared, pc, q, dns64, mutex, resp>>

Reply(rc)  == [rc |-> rc, ad |-> 0, by |-> "none"]
NoReply    == Reply("none")
SERVFAIL   == Reply("servfail")
Synth      == [rc |-> "data", ad |-> 0, by |-> "synth"]

Miss  == NoReply
NoQuestion == "none"
Mutex == 1..(Cardinality(Client) + Cardinality(Question))

\* Awaiting the walker; holding the per-question lock.
Walking == {"walk", "walkA"}
Inside  == {"get2", "syn2", "neg2", "fwd", "fwdA"} \cup Walking

(***************************************************************************)
(* Helpers.                                                                *)
(***************************************************************************)
Validating == Policy = "validate"

\* DnssecPolicy::apply_to_response.
apply_to_response(r) == IF Policy = "passthrough" THEN r ELSE [r EXCEPT !.ad = 0]

\* What a forwarder may answer.
Shapes == {"data", "empty", "error"}
ForwarderAnswers == [rc : Shapes, ad : {0, 1}, by : {"forwarder"}]

\* dns64::should_synthesise.
should_synthesise(c, r) == dns64[c] /\ q[c] = "AAAA" /\ r.rc = "empty"

\* DnsCache::put: error rcodes and zero TTLs are not cached.
put(key, r) ==
    \/ r.rc \in {"data", "empty"} /\ cache' = [cache EXCEPT ![key] = r]
    \/ UNCHANGED cache

Goto(c, step) == pc' = [pc EXCEPT ![c] = step]

\* The handler returns: the guard and the Arc of the coalesce mutex drop.
Return(c, r) ==
    /\ Goto(c, "done")
    /\ resp' = [resp EXCEPT ![c] = r]
    /\ mutex' = [mutex EXCEPT ![c] = NoMutex]
    /\ UNCHANGED <<q, dns64>>

Proceed(c, step) == Goto(c, step) /\ UNCHANGED <<q, dns64, mutex, resp>>

(***************************************************************************)
(* The pipeline.                                                           *)
(***************************************************************************)
Init ==
    /\ ready = FALSE
    /\ cache = [k \in Question |-> Miss]
    /\ neg = {}
    /\ map = [k \in Question |-> NoMutex]
    /\ pc = [c \in Client |-> "idle"]
    /\ q = [c \in Client |-> NoQuestion]
    /\ dns64 = [c \in Client |-> FALSE]
    /\ mutex = [c \in Client |-> NoMutex]
    /\ resp = [c \in Client |-> NoReply]

\* spawn_dnssec_prewarm: the first prewarm name that resolves opens the gate.
Prewarm ==
    /\ ~ready /\ ready' = TRUE
    /\ UNCHANGED <<cache, neg, map, pc, q, dns64, mutex, resp>>

\* A query arrives.  Before the gate opens it is refused.
Ask(c) ==
    /\ pc[c] = "idle"
    /\ \E k \in Question, d \in Dns64 :
          /\ q' = [q EXCEPT ![c] = k]
          /\ dns64' = [dns64 EXCEPT ![c] = d]
          /\ IF ~ready THEN Goto(c, "done") /\ resp' = [resp EXCEPT ![c] = Reply("refused")]
             ELSE /\ Goto(c, IF d /\ k = "PTR6" THEN "ptr" ELSE "neg1")
                  /\ UNCHANGED resp
    /\ UNCHANGED <<shared, mutex>>

\* Malformed or over the rate limit: dropped silently.
Drop(c) ==
    /\ pc[c] = "idle" /\ ready
    /\ Goto(c, "done")
    /\ UNCHANGED <<shared, q, dns64, mutex, resp>>

\* The reply is sent and the slot is free for the next query.
Sent(c) ==
    /\ pc[c] = "done"
    /\ Goto(c, "idle")
    /\ resp' = [resp EXCEPT ![c] = NoReply]
    /\ q' = [q EXCEPT ![c] = NoQuestion]
    /\ dns64' = [dns64 EXCEPT ![c] = FALSE]
    /\ UNCHANGED <<shared, mutex>>

\* resolve_forwarded, from the cache or to the forwarder, for the rewritten
\* question; rewrap_ptr_response builds a new message with AD clear.
Rewrap(r) == [r EXCEPT !.ad = 0, !.by = "synth"]

PtrLookup(c) ==
    /\ pc[c] = "ptr"
    /\ LET hit == "PTR" \in Question /\ cache["PTR"] # Miss
       IN  IF hit THEN Return(c, Rewrap(cache["PTR"]))
           ELSE IF "PTR" \in Forwarded THEN Proceed(c, "ptr_query")
           ELSE Return(c, SERVFAIL)
    /\ UNCHANGED shared

PtrQuery(c) ==
    /\ pc[c] = "ptr_query"
    /\ \/ Return(c, SERVFAIL) /\ UNCHANGED cache
       \/ \E r \in ForwarderAnswers : put("PTR", r) /\ Return(c, Rewrap(r))
    /\ UNCHANGED <<ready, neg, map>>

\* The check for a recently failed walk, before and inside the lock.
NegCheck1(c) ==
    /\ pc[c] = "neg1"
    /\ IF q[c] \in neg THEN Return(c, SERVFAIL) ELSE Proceed(c, "get1")
    /\ UNCHANGED shared

\* Mutant: a cached response is replayed with the AD bit it was stored with.
FromCache_Raw(c, synth, miss) ==
    IF cache[q[c]] = Miss THEN Proceed(c, miss)
    ELSE IF should_synthesise(c, cache[q[c]]) THEN Proceed(c, synth)
    ELSE Return(c, cache[q[c]])

\* cache.get and build_from_cache_value.
FromCache(c, synth, miss) ==
    LET r == cache[q[c]]
    IN  IF r = Miss THEN Proceed(c, miss)
        ELSE IF should_synthesise(c, r) THEN Proceed(c, synth)
        ELSE Return(c, IF Validating THEN r ELSE apply_to_response(r))

\* synthesise_from_cached_a; without a usable A the query resolves afresh.
FromCachedA(c, miss) ==
    IF "A" \in Question /\ cache["A"].rc = "data" THEN Return(c, Synth) ELSE Proceed(c, miss)

\* Mutant: the cache is not looked at again under the lock.
Get2_Skipped(c) == pc[c] = "get2" /\ Proceed(c, "neg2") /\ UNCHANGED shared

Get1(c) == pc[c] = "get1" /\ FromCache(c, "syn1", "lock_for") /\ UNCHANGED shared
Syn1(c) == pc[c] = "syn1" /\ FromCachedA(c, "lock_for") /\ UNCHANGED shared
Get2(c) == pc[c] = "get2" /\ FromCache(c, "syn2", "neg2") /\ UNCHANGED shared
Syn2(c) == pc[c] = "syn2" /\ FromCachedA(c, "neg2") /\ UNCHANGED shared

\* InFlightMap::lock_for.  At the cap, entries only the map refers to are
\* swept; if that frees nothing, an arbitrary entry is dropped.
Referenced(m) == \E c \in Client : mutex[c] = m
Entries(f)    == {k \in Question : f[k] # NoMutex}

\* Mutant: at the cap the whole map is cleared.
Swept_Cleared ==
    IF Cardinality(Entries(map)) < IN_FLIGHT_CAP THEN {map}
    ELSE {[k \in Question |-> NoMutex]}

Swept ==
    IF Cardinality(Entries(map)) < IN_FLIGHT_CAP THEN {map}
    ELSE LET kept == [k \in Question |-> IF Referenced(map[k]) THEN map[k] ELSE NoMutex]
         IN  IF Cardinality(Entries(kept)) < IN_FLIGHT_CAP THEN {kept}
             ELSE {[kept EXCEPT ![k] = NoMutex] : k \in Entries(kept)}

LockFor(c) ==
    /\ pc[c] = "lock_for"
    /\ \E f \in Swept :
          LET new == CHOOSE m \in Mutex : ~Referenced(m) /\ \A k \in Question : f[k] # m
              m   == IF f[q[c]] # NoMutex THEN f[q[c]] ELSE new
          IN  /\ map' = [f EXCEPT ![q[c]] = m]
              /\ mutex' = [mutex EXCEPT ![c] = m]
    /\ Goto(c, "lock")
    /\ UNCHANGED <<ready, cache, neg, q, dns64, resp>>

Lock(c) ==
    /\ pc[c] = "lock"
    /\ \A d \in Client \ {c} : pc[d] \in Inside => mutex[d] # mutex[c]
    /\ Proceed(c, "get2")
    /\ UNCHANGED shared

NegCheck2(c) ==
    /\ pc[c] = "neg2"
    /\ IF q[c] \in neg THEN Return(c, SERVFAIL)
       ELSE IF q[c] \in Forwarded THEN Proceed(c, "fwd")
       ELSE IF Iterative THEN Proceed(c, "walk") ELSE Return(c, SERVFAIL)
    /\ UNCHANGED shared

(***************************************************************************)
(* resolve_validate_cache: an iterative walk, judged by the validator.     *)
(***************************************************************************)
\* The answers of a walk, with the AD bit the code gives them: the validator's
\* verdict, or the policy applied to what the server sent.
Verdicts == {"secure", "insecure"}

WalkAnswers ==
    IF Validating
    THEN {[rc |-> rc, ad |-> IF v = "secure" THEN 1 ELSE 0, by |-> v] :
              rc \in Shapes, v \in Verdicts}
    ELSE {apply_to_response([rc |-> rc, ad |-> ad, by |-> "insecure"]) :
              rc \in Shapes, ad \in {0, 1}}

\* Mutant: a failed walk is retried on the spot.
WalkFails_Retries(c) == pc[c] = "walk" /\ Proceed(c, "get2") /\ UNCHANGED shared

WalkFails(c) ==
    /\ pc[c] = "walk"
    /\ neg' = neg \cup {q[c]}
    /\ Return(c, SERVFAIL)
    /\ UNCHANGED <<ready, cache, map>>

\* Mutant: the answer is cached before it is judged.
WalkBogus_Cached(c) ==
    /\ Validating /\ pc[c] = "walk"
    /\ put(q[c], [rc |-> "data", ad |-> 0, by |-> "bogus"])
    /\ Return(c, SERVFAIL)
    /\ UNCHANGED <<ready, neg, map>>

\* A Bogus answer is neither cached nor served.
WalkBogus(c) ==
    /\ Validating /\ pc[c] = "walk"
    /\ Return(c, SERVFAIL)
    /\ UNCHANGED shared

\* The answer is cached; an empty AAAA on a DNS64 listener calls for the A.
WalkOk(c) ==
    /\ pc[c] = "walk"
    /\ \E r \in WalkAnswers :
          /\ put(q[c], r)
          /\ IF should_synthesise(c, r)
             THEN Goto(c, "walkA") /\ resp' = [resp EXCEPT ![c] = r] /\ UNCHANGED <<q, dns64, mutex>>
             ELSE Return(c, r)
    /\ UNCHANGED <<ready, neg, map>>

\* The follow-up A walk, without the lock of the A question.  If it yields
\* nothing usable the client gets the AAAA response as it was.
WalkA(c) ==
    /\ pc[c] = "walkA"
    /\ \/ Return(c, resp[c]) /\ UNCHANGED cache
       \/ \E r \in WalkAnswers :
             /\ IF "A" \in Question THEN put("A", r) ELSE UNCHANGED cache
             /\ Return(c, IF r.rc = "data" THEN Synth ELSE resp[c])
    /\ UNCHANGED <<ready, neg, map>>

\* cache_glue: addresses a referral carries go into the response cache.
Glue ==
    /\ \E c \in Client : pc[c] \in Walking
    /\ \E k \in {"A", "AAAA"} \cap Question :
          cache' = [cache EXCEPT ![k] = [rc |-> "data", ad |-> 0, by |-> "glue"]]
    /\ UNCHANGED <<ready, neg, map, pc, q, dns64, mutex, resp>>

(***************************************************************************)
(* The forwarder path.                                                     *)
(***************************************************************************)
Forward(c) ==
    /\ pc[c] = "fwd"
    /\ \/ Return(c, SERVFAIL) /\ UNCHANGED cache
       \/ \E r \in ForwarderAnswers :
             IF should_synthesise(c, r)
             THEN /\ Goto(c, "fwdA") /\ resp' = [resp EXCEPT ![c] = r]
                  /\ UNCHANGED <<cache, q, dns64, mutex>>
             ELSE put(q[c], apply_to_response(r)) /\ Return(c, apply_to_response(r))
    /\ UNCHANGED <<ready, neg, map>>

\* Mutant: the synthesised AAAA is cached under the client's question.
ForwardA_CachesSynth(c) ==
    /\ pc[c] = "fwdA"
    /\ put(q[c], Synth)
    /\ Return(c, Synth)
    /\ UNCHANGED <<ready, neg, map>>

\* The A query of DNS64 synthesis; nothing of a synthesised answer is cached.
ForwardA(c) ==
    /\ pc[c] = "fwdA"
    /\ \/ Return(c, Synth) /\ UNCHANGED cache
       \/ LET r == apply_to_response(resp[c]) IN put(q[c], r) /\ Return(c, r)
    /\ UNCHANGED <<ready, neg, map>>

(***************************************************************************)
(* Expiry, eviction, and the control socket's flush.                       *)
(***************************************************************************)
Expire ==
    /\ \/ \E k \in Question :
             cache[k] # Miss /\ cache' = [cache EXCEPT ![k] = Miss] /\ UNCHANGED neg
       \/ \E k \in neg : neg' = neg \ {k} /\ UNCHANGED cache
    /\ UNCHANGED <<ready, map, pc, q, dns64, mutex, resp>>

Handle(c) ==
    \/ PtrLookup(c) \/ PtrQuery(c) \/ NegCheck1(c) \/ Get1(c) \/ Syn1(c)
    \/ LockFor(c) \/ Lock(c) \/ Get2(c) \/ Syn2(c) \/ NegCheck2(c)
    \/ WalkFails(c) \/ WalkBogus(c) \/ WalkOk(c) \/ WalkA(c)
    \/ Forward(c) \/ ForwardA(c)

Next ==
    \/ \E c \in Client : Ask(c) \/ Drop(c) \/ Sent(c) \/ Handle(c)
    \/ Prewarm \/ Glue \/ Expire

Spec == Init /\ [][Next]_vars

\* Tasks are scheduled, and tokio's mutex is FIFO, so a waiter that is overtaken
\* again and again in the model gets the lock.  An upstream call returns: a walk
\* has its own deadline, a UDP or TCP forwarder a timer.  A DoT forwarder has no
\* timer while it builds a connection (DotPool), so for a question forwarded over
\* DoT the specification assumes more than the code grants.
FairSpec == Spec /\ \A c \in Client : WF_vars(Handle(c)) /\ SF_vars(Lock(c))

(***************************************************************************)
(* Properties.                                                             *)
(***************************************************************************)
Served == {resp[c] : c \in {d \in Client : pc[d] = "done"}}
Stored == {cache[k] : k \in Question}

\* The verdict governs what is served.  Unless the AD bit is passed through, a
\* response with AD=1 was judged Secure by the validator, also when it is
\* replayed from a cache that other paths fill (resolve_validate_cache,
\* apply_to_response, build_from_cache_value); and the content of a Bogus answer
\* reaches neither a client nor the cache.  It does not hold for validation with
\* a forwarder for reverse names: resolve_forwarded caches the forwarder's AD
\* bit as it came.
VerdictGoverns ==
    /\ Policy # "passthrough" => \A r \in Served : r.ad = 1 => r.by = "secure"
    /\ \A r \in Served \cup Stored : r.by # "bogus"

\* DNS64 is per listener: a synthesised answer goes only to a listener that
\* opted in and is never stored in the cache the listeners share.
SynthesisIsPerListener ==
    /\ \A r \in Stored : r.by # "synth"
    /\ \A c \in Client : pc[c] = "done" /\ resp[c].by = "synth" => dns64[c]

\* The question a query has upstream: its own, the A of DNS64's follow-up, or
\* the reverse name behind the DNS64 prefix.
Upstream(c) ==
    CASE pc[c] \in {"walk", "fwd"}   -> q[c]
      [] pc[c] \in {"walkA", "fwdA"} -> "A"
      [] pc[c] = "ptr_query"         -> "PTR"
      [] OTHER                       -> NoQuestion

\* "Multiple callers passing the same (name, rtype) get the same Arc<Mutex>,
\* so locking it serialises them" (lock_for), also when the map is swept at its
\* cap while queries wait: two queries upstream for one question at the same time
\* did not ask for the same one.  One of them is then the follow-up A of a DNS64
\* listener's AAAA, which takes no lock of its own (so A may be upstream twice).
\* The one exception is resolve_forwarded for reverse names under the prefix,
\* which is not coalesced at all.
OneUpstreamPerQuestion ==
    \A c, d \in Client :
        c # d /\ Upstream(c) = Upstream(d) /\ Upstream(c) # NoQuestion =>
            q[c] # q[d] \/ "ptr_query" \in {pc[c], pc[d]}

\* Followers reuse the leader's work: a query that starts the walk of its
\* question finds no answer to it in the cache at that moment, although it looked
\* there some steps ago and others have walked since (the second look at the
\* cache, the put before the lock is released), and no failure of it remembered.
\* What may be there is an address that came as glue, an A that a DNS64 follow-up
\* fetched without A's lock, or the empty AAAA that DNS64 asked about afresh.
\* The follow-up A walk itself looks at neither cache.
NoRepeatedWalk ==
    [][\A c \in Client : pc[c] # "walk" /\ pc'[c] = "walk" =>
          /\ q[c] \notin neg
          /\ \/ cache[q[c]] = Miss \/ cache[q[c]].by = "glue"
             \/ q[c] = "A" \/ should_synthesise(c, cache[q[c]])]_vars

\* Every accepted query is answered.
EveryQueryAnswered == \A c \in Client : pc[c] \notin {"idle", "done"} ~> pc[c] = "done"
=============================================================================
