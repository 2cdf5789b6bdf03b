---------------------------- MODULE ResolverProofs ----------------------------
(***************************************************************************)
(* For any number of concurrent queries, any questions, forwarders,        *)
(* listeners and cap of the coalescer: a synthesised answer stays with the *)
(* listeners that opted in; what is served with AD=1 was judged Secure;    *)
(* while no more than IN_FLIGHT_CAP queries are in flight, queries for one *)
(* question are not upstream together, and none repeats a walk whose       *)
(* outcome is at hand.                                                     *)
(***************************************************************************)
EXTENDS Resolver, FiniteSetTheorems, TLAPS

\* The leaves are first-order steps; the ones that need arithmetic, sequences or
\* records cite SMT.
USE ZenonT(30)

Response ==
    [rc : {"none", "data", "empty", "error", "servfail", "refused"},
     ad : {0, 1},
     by : {"none", "synth", "forwarder", "secure", "insecure", "glue"}]

Steps == {"idle", "done", "ptr", "ptr_query", "neg1", "get1", "syn1", "lock_for", "lock"} \cup Inside

TypeOK ==
    /\ ready \in BOOLEAN
    /\ cache \in [Question -> Response]
    /\ neg \subseteq Question
    /\ pc \in [Client -> Steps]
    /\ q \in [Client -> Question \cup {NoQuestion}]
    /\ dns64 \in [Client -> BOOLEAN]
    /\ resp \in [Client -> Response]
    /\ \A c \in Client : pc[c] \notin {"idle", "done"} => q[c] \in Question

\* The steps only a query of a DNS64 listener reaches.
Dns64Steps == {"ptr", "ptr_query", "syn1", "syn2", "walkA", "fwdA"}

\* Synthesis stays with the listeners that opted in: the DNS64 steps are theirs,
\* and neither the cache nor a response held across an await is synthesised.
SynthInv ==
    /\ \A k \in Question : cache[k].by # "synth"
    /\ \A c \in Client :
         /\ pc[c] = "idle" => resp[c] = NoReply
         /\ pc[c] \in Dns64Steps => dns64[c]
         /\ pc[c] \in {"walkA", "fwdA"} => resp[c].by # "synth"
         /\ pc[c] = "done" /\ resp[c].by = "synth" => dns64[c]

ServeInv == TypeOK /\ SynthInv

\* Unless the AD bit is passed through, AD=1 means judged Secure.
Honest(r) == Policy # "passthrough" /\ r.ad = 1 => r.by = "secure"

\* What the cache replays as it is, and what clients get, is honest.
HonestInv ==
    /\ \A k \in Question : Validating => Honest(cache[k])
    /\ \A c \in Client :
         /\ pc[c] \in {"done", "walkA"} => Honest(resp[c])
         /\ pc[c] = "ptr_query" => "PTR" \in Forwarded

\* The mutex a query holds the Arc of is the one the map has for its question,
\* the map gives no mutex to two questions, and a mutex has one holder.
LockInv ==
    /\ mutex \in [Client -> Mutex \cup {NoMutex}]
    /\ map \in [Question -> Mutex \cup {NoMutex}]
    /\ \A c \in Client :
         /\ mutex[c] # NoMutex <=> pc[c] \in {"lock"} \cup Inside
         /\ mutex[c] # NoMutex => map[q[c]] = mutex[c]
    /\ \A k, l \in Question : map[k] = map[l] /\ map[k] # NoMutex => k = l
    /\ \A c, d \in Client : c # d /\ pc[c] \in Inside /\ pc[d] \in Inside => mutex[c] # mutex[d]

-----------------------------------------------------------------------------
\* The fixed replies, what a forwarder or a walk answers, and what the policy
\* and the PTR rewrite make of a response, are responses; only the rewrite is
\* a synthesised one.
LEMMA ResponsesAreTyped ==
    /\ \A rc \in {"none", "servfail", "refused"} :
          Reply(rc) \in Response /\ Reply(rc).by = "none" /\ Reply(rc).ad = 0
    /\ Synth \in Response /\ Synth.ad = 0
    /\ [rc |-> "data", ad |-> 0, by |-> "glue"] \in Response
    /\ \A r \in Response :
          /\ apply_to_response(r) \in Response
          /\ apply_to_response(r).by = r.by /\ Honest(apply_to_response(r))
          /\ Rewrap(r) \in Response /\ Rewrap(r).ad = 0
    /\ \A r \in ForwarderAnswers : r \in Response /\ r.by = "forwarder"
    /\ \A r \in WalkAnswers : r \in Response /\ r.by \in {"secure", "insecure"} /\ Honest(r)
<1>1. \A rc \in {"none", "servfail", "refused"} :
          Reply(rc) \in Response /\ Reply(rc).by = "none" /\ Reply(rc).ad = 0
    BY DEF Reply, Response
<1>2. Synth \in Response /\ Synth.ad = 0 /\ [rc |-> "data", ad |-> 0, by |-> "glue"] \in Response
    BY DEF Synth, Response
<1>3. \A r \in Response :
          /\ apply_to_response(r) \in Response
          /\ apply_to_response(r).by = r.by /\ Honest(apply_to_response(r))
          /\ Rewrap(r) \in Response /\ Rewrap(r).ad = 0
    <2> SUFFICES ASSUME NEW r \in Response
                 PROVE  /\ apply_to_response(r) \in Response
                        /\ apply_to_response(r).by = r.by
                        /\ Policy # "passthrough" => apply_to_response(r).ad = 0
                        /\ Rewrap(r) \in Response /\ Rewrap(r).ad = 0
        BY SMTT(30) DEF Honest
    <2>1. Rewrap(r) \in Response /\ Rewrap(r).ad = 0
        BY DEF Response, Rewrap
    <2>2. CASE Policy = "passthrough"
        BY <2>1, <2>2 DEF apply_to_response
    <2>3. CASE Policy # "passthrough"
        BY <2>1, <2>3 DEF Response, apply_to_response
    <2> QED
        BY <2>2, <2>3
<1>4. \A r \in ForwarderAnswers : r \in Response /\ r.by = "forwarder"
    BY DEF Response, ForwarderAnswers, Shapes
<1>5. \A r \in WalkAnswers : r \in Response /\ r.by \in {"secure", "insecure"} /\ Honest(r)
    <2>1. CASE Validating
        BY <2>1, SMTT(30) DEF WalkAnswers, Response, Shapes, Verdicts, Honest
    <2>2. CASE ~Validating
        <3> SUFFICES ASSUME NEW r \in WalkAnswers
                     PROVE  r \in Response /\ r.by \in {"secure", "insecure"} /\ Honest(r)
            OBVIOUS
        <3>1. PICK rc \in Shapes, ad \in {0, 1} :
                 r = apply_to_response([rc |-> rc, ad |-> ad, by |-> "insecure"])
            BY <2>2, SMTT(30) DEF WalkAnswers
        <3>2. [rc |-> rc, ad |-> ad, by |-> "insecure"] \in Response
            BY DEF Response, Shapes
        <3> QED
            BY <1>3, <3>1, <3>2
    <2> QED
        BY <2>1, <2>2
<1> QED
    BY <1>1, <1>2, <1>3, <1>4, <1>5

\* A response put into the cache, or not, leaves the cache well-formed.
LEMMA PutIsTyped ==
    ASSUME cache \in [Question -> Response], \A k \in Question : cache[k].by # "synth",
           NEW key \in Question, NEW r \in Response, r.by # "synth", put(key, r)
    PROVE  cache' \in [Question -> Response] /\ \A k \in Question : cache'[k].by # "synth"
    BY DEF put

\* A query that returns r is done with r; no other query is touched.
LEMMA ReturnServes ==
    ASSUME ServeInv, NEW c \in Client, NEW r \in Response, Return(c, r),
           r.by = "synth" => dns64[c],
           cache' \in [Question -> Response], \A k \in Question : cache'[k].by # "synth",
           neg' \subseteq Question, ready' \in BOOLEAN
    PROVE  ServeInv'
<1>1. TypeOK'
    BY DEF ServeInv, TypeOK, Return, Goto, Steps
<1>2. \A d \in Client : d # c => pc'[d] = pc[d] /\ resp'[d] = resp[d]
    BY DEF ServeInv, TypeOK, Return, Goto
<1>3. pc'[c] = "done" /\ resp'[c] = r /\ dns64' = dns64
    BY DEF ServeInv, TypeOK, Return, Goto
<1>4. SynthInv'
    BY <1>2, <1>3 DEF ServeInv, SynthInv, Dns64Steps
<1> QED
    BY <1>1, <1>4 DEF ServeInv

\* A query that goes on keeps its question, listener and response so far.
LEMMA ProceedServes ==
    ASSUME ServeInv, NEW c \in Client, NEW s \in Steps \ {"idle", "done", "walkA", "fwdA"},
           q[c] \in Question, s \in Dns64Steps => dns64[c],
           Proceed(c, s), UNCHANGED shared
    PROVE  ServeInv'
<1>1. TypeOK'
    BY DEF ServeInv, TypeOK, Proceed, Goto, shared
<1>2. \A d \in Client : pc'[d] = IF d = c THEN s ELSE pc[d]
    BY DEF ServeInv, TypeOK, Proceed, Goto
<1>3. SynthInv'
    BY <1>2 DEF ServeInv, SynthInv, Proceed, shared
<1> QED
    BY <1>1, <1>3 DEF ServeInv

\* A query that holds r across an await, for the A lookup of DNS64.
LEMMA HoldServes ==
    ASSUME ServeInv, NEW c \in Client, NEW s \in {"walkA", "fwdA"}, NEW r \in Response,
           q[c] \in Question, dns64[c], r.by # "synth",
           Goto(c, s), resp' = [resp EXCEPT ![c] = r], UNCHANGED <<q, dns64, mutex>>,
           cache' \in [Question -> Response], \A k \in Question : cache'[k].by # "synth",
           UNCHANGED <<ready, neg>>
    PROVE  ServeInv'
<1>1. TypeOK'
    BY DEF ServeInv, TypeOK, Goto, Steps, Inside, Walking
<1>2. \A d \in Client : pc'[d] = (IF d = c THEN s ELSE pc[d]) /\ resp'[d] = IF d = c THEN r ELSE resp[d]
    BY DEF ServeInv, TypeOK, Goto
<1>3. SynthInv'
    BY <1>2, SMTT(30) DEF ServeInv, SynthInv
<1> QED
    BY <1>1, <1>3 DEF ServeInv

-----------------------------------------------------------------------------
\* Types, and synthesis confined to the listeners that opted in, are preserved
\* by every step of the pipeline.
LEMMA HandleServes ==
    ASSUME ServeInv, NEW c \in Client, Handle(c)
    PROVE  ServeInv'
<1> USE ResolverAssumption
<1>0. /\ cache \in [Question -> Response] /\ neg \subseteq Question /\ ready \in BOOLEAN
      /\ \A k \in Question : cache[k] \in Response /\ cache[k].by # "synth"
      /\ pc[c] \notin {"idle", "done"} => q[c] \in Question
      /\ pc[c] \in Dns64Steps => dns64[c]
      /\ resp[c] \in Response
    BY DEF ServeInv, TypeOK, SynthInv
<1>s. SERVFAIL \in Response /\ SERVFAIL.by # "synth"
    BY ResponsesAreTyped DEF SERVFAIL
<1>1. CASE PtrLookup(c)
    <2>1. dns64[c] /\ q[c] \in Question
        BY <1>0, <1>1 DEF PtrLookup, Dns64Steps
    <2>2. CASE "PTR" \in Question /\ Return(c, Rewrap(cache["PTR"]))
        BY <1>0, <1>1, <2>1, <2>2, ResponsesAreTyped, ReturnServes DEF PtrLookup, shared
    <2>3. CASE Proceed(c, "ptr_query")
        BY <1>1, <2>1, <2>3, ProceedServes DEF PtrLookup, Steps
    <2>4. CASE Return(c, SERVFAIL)
        BY <1>0, <1>1, <1>s, <2>4, ReturnServes DEF PtrLookup, shared
    <2> QED
        BY <1>1, <2>2, <2>3, <2>4 DEF PtrLookup
<1>2. CASE PtrQuery(c)
    <2>1. dns64[c]
        BY <1>0, <1>2 DEF PtrQuery, Dns64Steps
    <2>2. CASE Return(c, SERVFAIL) /\ UNCHANGED cache
        BY <1>0, <1>2, <1>s, <2>2, ReturnServes DEF PtrQuery
    <2>3. ASSUME NEW r \in ForwarderAnswers, put("PTR", r), Return(c, Rewrap(r)), "PTR" \in Question
          PROVE  ServeInv'
        <3>1. r \in Response /\ r.by # "synth" /\ Rewrap(r) \in Response
            BY ResponsesAreTyped
        <3> QED
            BY <1>0, <1>2, <2>1, <2>3, <3>1, PutIsTyped, ReturnServes DEF PtrQuery
    <2>4. ASSUME NEW r \in ForwarderAnswers, put("PTR", r), Return(c, Rewrap(r)), "PTR" \notin Question
          PROVE  ServeInv'
        <3>1. r \in Response /\ r.by # "synth" /\ Rewrap(r) \in Response
            BY ResponsesAreTyped
        <3>2. cache' = cache
            BY <1>0, <2>4, SMTT(30) DEF put
        <3> QED
            BY <1>0, <1>2, <2>1, <2>4, <3>1, <3>2, ReturnServes DEF PtrQuery
    <2> QED
        BY <1>2, <2>2, <2>3, <2>4 DEF PtrQuery
<1>3. CASE NegCheck1(c)
    <2>1. CASE Return(c, SERVFAIL)
        BY <1>0, <1>3, <1>s, <2>1, ReturnServes DEF NegCheck1, shared
    <2>2. CASE Proceed(c, "get1")
        BY <1>0, <1>3, <2>2, ProceedServes DEF NegCheck1, Steps, Dns64Steps
    <2> QED
        BY <1>3, <2>1, <2>2 DEF NegCheck1
<1>4. ASSUME NEW synth \in {"syn1", "syn2"}, NEW miss \in {"lock_for", "neg2"},
             pc[c] \in {"get1", "get2"}, FromCache(c, synth, miss), UNCHANGED shared
      PROVE  ServeInv'
    <2>1. q[c] \in Question
        BY <1>0, <1>4
    <2>2. CASE Proceed(c, miss)
        BY <1>4, <2>1, <2>2, ProceedServes DEF Steps, Inside, Dns64Steps
    <2>3. CASE dns64[c] /\ Proceed(c, synth)
        BY <1>4, <2>1, <2>3, ProceedServes DEF Steps, Inside
    <2>4. CASE Return(c, IF Validating THEN cache[q[c]] ELSE apply_to_response(cache[q[c]]))
        <3> DEFINE r == IF Validating THEN cache[q[c]] ELSE apply_to_response(cache[q[c]])
        <3>1. r \in Response /\ r.by # "synth"
            BY <1>0, <2>1, ResponsesAreTyped
        <3> QED
            BY <1>0, <1>4, <2>4, <3>1, ReturnServes DEF shared
    <2> QED
        BY <1>4, <2>2, <2>3, <2>4 DEF FromCache, should_synthesise
<1>5. ASSUME NEW miss \in {"lock_for", "neg2"},
             pc[c] \in {"syn1", "syn2"}, FromCachedA(c, miss), UNCHANGED shared
      PROVE  ServeInv'
    <2>1. q[c] \in Question /\ dns64[c]
        BY <1>0, <1>5 DEF Dns64Steps
    <2>2. CASE Proceed(c, miss)
        BY <1>5, <2>1, <2>2, ProceedServes DEF Steps, Inside, Dns64Steps
    <2>3. CASE Return(c, Synth)
        BY <1>0, <1>5, <2>1, <2>3, ResponsesAreTyped, ReturnServes DEF shared
    <2> QED
        BY <1>5, <2>2, <2>3 DEF FromCachedA
<1>6. CASE LockFor(c)
    <2>1. \A d \in Client : pc'[d] = IF d = c THEN "lock" ELSE pc[d]
        BY <1>6 DEF LockFor, Goto, ServeInv, TypeOK
    <2>2. TypeOK'
        BY <1>6 DEF LockFor, Goto, ServeInv, TypeOK, Steps
    <2> QED
        BY <1>6, <2>1, <2>2, SMTT(30) DEF LockFor, ServeInv, SynthInv, Dns64Steps
<1>7. CASE Lock(c)
    BY <1>0, <1>7, ProceedServes DEF Lock, Steps, Inside, Dns64Steps
<1>8. CASE NegCheck2(c)
    <2>1. CASE Return(c, SERVFAIL)
        BY <1>0, <1>8, <1>s, <2>1, ReturnServes DEF NegCheck2, shared
    <2>2. ASSUME NEW s \in {"fwd", "walk"}, Proceed(c, s)
          PROVE  ServeInv'
        BY <1>0, <1>8, <2>2, ProceedServes DEF NegCheck2, Steps, Inside, Walking, Dns64Steps
    <2> QED
        BY <1>8, <2>1, <2>2 DEF NegCheck2
<1>9. CASE WalkFails(c)
    <2>1. neg' \subseteq Question
        BY <1>0, <1>9 DEF WalkFails
    <2> QED
        BY <1>0, <1>9, <1>s, <2>1, ReturnServes DEF WalkFails
<1>10. CASE WalkBogus(c)
    BY <1>0, <1>10, <1>s, ReturnServes DEF WalkBogus, shared
<1>11. CASE WalkOk(c)
    <2>1. PICK r \in WalkAnswers :
             /\ put(q[c], r)
             /\ IF should_synthesise(c, r)
                THEN Goto(c, "walkA") /\ resp' = [resp EXCEPT ![c] = r] /\ UNCHANGED <<q, dns64, mutex>>
                ELSE Return(c, r)
        BY <1>11 DEF WalkOk
    <2>2. r \in Response /\ r.by # "synth" /\ q[c] \in Question
        BY <1>0, <1>11, ResponsesAreTyped DEF WalkOk
    <2>3. cache' \in [Question -> Response] /\ \A k \in Question : cache'[k].by # "synth"
        BY <1>0, <2>1, <2>2, PutIsTyped
    <2>4. CASE should_synthesise(c, r)
        BY <1>11, <2>1, <2>2, <2>3, <2>4, HoldServes DEF WalkOk, should_synthesise
    <2>5. CASE ~should_synthesise(c, r)
        BY <1>0, <1>11, <2>1, <2>2, <2>3, <2>5, ReturnServes DEF WalkOk
    <2> QED
        BY <2>4, <2>5
<1>12. CASE WalkA(c)
    <2>1. dns64[c] /\ Synth \in Response
        BY <1>0, <1>12, ResponsesAreTyped DEF WalkA, Dns64Steps
    <2>2. CASE Return(c, resp[c]) /\ UNCHANGED cache
        BY <1>0, <1>12, <2>1, <2>2, ReturnServes DEF WalkA
    <2>3. ASSUME NEW r \in WalkAnswers,
                 IF "A" \in Question THEN put("A", r) ELSE UNCHANGED cache,
                 Return(c, IF r.rc = "data" THEN Synth ELSE resp[c])
          PROVE  ServeInv'
        <3>1. r \in Response /\ r.by # "synth"
            BY ResponsesAreTyped
        <3>2. cache' \in [Question -> Response] /\ \A k \in Question : cache'[k].by # "synth"
            BY <1>0, <2>3, <3>1, PutIsTyped
        <3> QED
            BY <1>0, <1>12, <2>1, <2>3, <3>2, ReturnServes DEF WalkA
    <2> QED
        BY <1>12, <2>2, <2>3 DEF WalkA
<1>13. CASE Forward(c)
    <2>1. CASE Return(c, SERVFAIL) /\ UNCHANGED cache
        BY <1>0, <1>13, <1>s, <2>1, ReturnServes DEF Forward
    <2>2. ASSUME NEW r \in ForwarderAnswers, should_synthesise(c, r),
                 Goto(c, "fwdA"), resp' = [resp EXCEPT ![c] = r],
                 UNCHANGED <<cache, q, dns64, mutex>>
          PROVE  ServeInv'
        <3>1. r \in Response /\ r.by # "synth"
            BY ResponsesAreTyped
        <3> QED
            BY <1>0, <1>13, <2>2, <3>1, HoldServes DEF Forward, should_synthesise
    <2>3. ASSUME NEW r \in ForwarderAnswers,
                 put(q[c], apply_to_response(r)), Return(c, apply_to_response(r))
          PROVE  ServeInv'
        <3> DEFINE a == apply_to_response(r)
        <3>1. a \in Response /\ a.by # "synth" /\ q[c] \in Question
            BY <1>0, <1>13, ResponsesAreTyped DEF Forward
        <3> HIDE DEF a
        <3>2. cache' \in [Question -> Response] /\ \A k \in Question : cache'[k].by # "synth"
            BY <1>0, <2>3, <3>1, PutIsTyped DEF a
        <3> QED
            BY <1>0, <1>13, <2>3, <3>1, <3>2, ReturnServes DEF Forward, a
    <2> QED
        BY <1>13, <2>1, <2>2, <2>3 DEF Forward
<1>14. CASE ForwardA(c)
    <2>1. dns64[c] /\ Synth \in Response /\ q[c] \in Question /\ resp[c].by # "synth"
        BY <1>0, <1>14, ResponsesAreTyped DEF ForwardA, Dns64Steps, ServeInv, SynthInv
    <2>2. CASE Return(c, Synth) /\ UNCHANGED cache
        BY <1>0, <1>14, <2>1, <2>2, ReturnServes DEF ForwardA
    <2>3. CASE put(q[c], apply_to_response(resp[c])) /\ Return(c, apply_to_response(resp[c]))
        <3>1. apply_to_response(resp[c]) \in Response /\ apply_to_response(resp[c]).by # "synth"
            BY <1>0, <2>1, ResponsesAreTyped
        <3>2. cache' \in [Question -> Response] /\ \A k \in Question : cache'[k].by # "synth"
            BY <1>0, <2>1, <2>3, <3>1, PutIsTyped
        <3> QED
            BY <1>0, <1>14, <2>3, <3>1, <3>2, ReturnServes DEF ForwardA
    <2> QED
        BY <1>14, <2>2, <2>3 DEF ForwardA
<1> QED
    BY <1>1, <1>2, <1>3, <1>4, <1>5, <1>6, <1>7, <1>8, <1>9, <1>10, <1>11, <1>12, <1>13, <1>14
    DEF Handle, Get1, Get2, Syn1, Syn2

\* So are they by the arrival and the end of a query, the prewarm, the glue of
\* a referral and the expiry of cache entries.
LEMMA NextServes ==
    ASSUME ServeInv, [Next]_vars
    PROVE  ServeInv'
<1> USE ResolverAssumption
<1>0. \A rc \in {"none", "refused"} : Reply(rc) \in Response /\ Reply(rc).by # "synth"
    BY ResponsesAreTyped
<1>1. ASSUME NEW c \in Client, Ask(c)
      PROVE  ServeInv'
    <2>1. PICK k \in Question, d \in Dns64 :
             /\ q' = [q EXCEPT ![c] = k]
             /\ dns64' = [dns64 EXCEPT ![c] = d]
             /\ IF ~ready THEN Goto(c, "done") /\ resp' = [resp EXCEPT ![c] = Reply("refused")]
                ELSE /\ Goto(c, IF d /\ k = "PTR6" THEN "ptr" ELSE "neg1")
                     /\ UNCHANGED resp
        BY <1>1 DEF Ask
    <2>2. TypeOK'
        BY <1>0, <1>1, <2>1, SMTT(30) DEF Ask, shared, ServeInv, TypeOK, Goto, Steps
    <2>3. \A e \in Client : e # c => pc'[e] = pc[e] /\ dns64'[e] = dns64[e] /\ resp'[e] = resp[e]
        BY <2>1 DEF ServeInv, TypeOK, Goto
    <2>4. /\ dns64'[c] = d
          /\ pc'[c] = "ptr" => d
          /\ pc'[c] \in {"done", "ptr", "neg1"}
          /\ pc'[c] = "done" => resp'[c] = Reply("refused")
        BY <2>1 DEF ServeInv, TypeOK, Goto
    <2>5. SynthInv'
        BY <1>0, <1>1, <2>3, <2>4, SMTT(30) DEF Ask, shared, ServeInv, SynthInv, Dns64Steps
    <2> QED
        BY <2>2, <2>5 DEF ServeInv
<1>2. ASSUME NEW c \in Client, Drop(c)
      PROVE  ServeInv'
    <2>1. TypeOK'
        BY <1>2 DEF Drop, shared, ServeInv, TypeOK, Goto, Steps
    <2>2. \A e \in Client : pc'[e] = IF e = c THEN "done" ELSE pc[e]
        BY <1>2 DEF Drop, ServeInv, TypeOK, Goto
    <2>3. SynthInv'
        BY <1>0, <1>2, <2>2 DEF Drop, shared, ServeInv, SynthInv, Dns64Steps, NoReply
    <2> QED
        BY <2>1, <2>3 DEF ServeInv
<1>3. ASSUME NEW c \in Client, Sent(c)
      PROVE  ServeInv'
    <2>1. TypeOK'
        BY <1>0, <1>3 DEF Sent, shared, ServeInv, TypeOK, Goto, Steps, NoReply
    <2>2. \A e \in Client : e # c => pc'[e] = pc[e] /\ dns64'[e] = dns64[e] /\ resp'[e] = resp[e]
        BY <1>3 DEF Sent, ServeInv, TypeOK, Goto
    <2>3. pc'[c] = "idle" /\ resp'[c] = NoReply
        BY <1>3 DEF Sent, ServeInv, TypeOK, Goto
    <2>4. SynthInv'
        BY <1>3, <2>2, <2>3, SMTT(30) DEF Sent, shared, ServeInv, SynthInv, Dns64Steps
    <2> QED
        BY <2>1, <2>4 DEF ServeInv
<1>4. CASE Prewarm
    BY <1>4 DEF Prewarm, ServeInv, TypeOK, SynthInv
<1>5. CASE Glue
    <2>1. [rc |-> "data", ad |-> 0, by |-> "glue"] \in Response
        BY ResponsesAreTyped
    <2>2. cache' \in [Question -> Response] /\ \A k \in Question : cache'[k].by # "synth"
        BY <1>5, <2>1, SMTT(30) DEF Glue, ServeInv, TypeOK, SynthInv
    <2> QED
        BY <1>5, <2>2 DEF Glue, ServeInv, TypeOK, SynthInv
<1>6. CASE Expire
    <2>1. cache' \in [Question -> Response] /\ \A k \in Question : cache'[k].by # "synth"
        BY <1>0, <1>6, SMTT(30) DEF Expire, ServeInv, TypeOK, SynthInv, Miss, NoReply
    <2>2. neg' \subseteq Question
        BY <1>6 DEF Expire, ServeInv, TypeOK
    <2> QED
        BY <1>6, <2>1, <2>2 DEF Expire, ServeInv, TypeOK, SynthInv
<1>7. CASE UNCHANGED vars
    BY <1>7 DEF vars, shared, ServeInv, TypeOK, SynthInv
<1> QED
    BY <1>1, <1>2, <1>3, <1>4, <1>5, <1>6, <1>7, HandleServes DEF Next

\* Every reachable state is well-typed, and synthesised content is neither
\* stored nor on its way to a listener without DNS64.
THEOREM ServeInvariant == Spec => []ServeInv
<1>1. Init => ServeInv
    <2> SUFFICES ASSUME Init PROVE ServeInv
        OBVIOUS
    <2>1. NoReply \in Response /\ NoReply.by # "synth"
        BY ResponsesAreTyped DEF NoReply
    <2>2. TypeOK
        BY <2>1 DEF Init, TypeOK, Steps, Miss
    <2>3. SynthInv
        BY <2>1 DEF Init, SynthInv, Dns64Steps, Miss
    <2> QED
        BY <2>2, <2>3 DEF ServeInv
<1> QED
    BY <1>1, NextServes, PTL DEF Spec

\* DNS64 is per listener, for any mix of listeners and any interleaving.
THEOREM SynthesisStaysPerListener == Spec => []SynthesisIsPerListener
<1>1. ServeInv => SynthesisIsPerListener
    BY DEF ServeInv, SynthInv, SynthesisIsPerListener, Stored
<1> QED
    BY <1>1, ServeInvariant, PTL

-----------------------------------------------------------------------------
\* The steps that keep the cache honest and return an honest response.
LEMMA ReturnIsHonest ==
    ASSUME ServeInv, HonestInv, NEW c \in Client, NEW r, Return(c, r), Honest(r),
           \A k \in Question : Validating => Honest(cache'[k])
    PROVE  HonestInv'
<1>1. \A d \in Client : pc'[d] = (IF d = c THEN "done" ELSE pc[d]) /\ resp'[d] = IF d = c THEN r ELSE resp[d]
    BY DEF ServeInv, TypeOK, Return, Goto
<1> QED
    BY <1>1 DEF HonestInv, Honest, Validating

\* The steps that go on without a response.
LEMMA ProceedIsHonest ==
    ASSUME ServeInv, HonestInv, NEW c \in Client, NEW s, Proceed(c, s), UNCHANGED shared,
           s \notin {"done", "walkA"}, s = "ptr_query" => "PTR" \in Forwarded
    PROVE  HonestInv'
<1>1. \A d \in Client : pc'[d] = IF d = c THEN s ELSE pc[d]
    BY DEF ServeInv, TypeOK, Proceed, Goto
<1> QED
    BY <1>1 DEF HonestInv, Honest, Validating, Proceed, shared

\* An honest response put into the cache leaves it honest.
LEMMA PutIsHonest ==
    ASSUME ServeInv, HonestInv, NEW key \in Question, NEW r \in Response, Validating => Honest(r), put(key, r)
    PROVE  \A k \in Question : Validating => Honest(cache'[k])
<1>1. \A k \in Question : cache'[k] \in {cache[k], r}
    BY DEF ServeInv, TypeOK, put
<1> QED
    BY <1>1 DEF HonestInv

\* Every step of the pipeline serves and stores honest responses, given that a
\* validating server has no forwarder for reverse names.
LEMMA HandleIsHonest ==
    ASSUME Validating => "PTR" \notin Forwarded,
           ServeInv, HonestInv, NEW c \in Client, Handle(c)
    PROVE  HonestInv'
<1> USE ResolverAssumption
<1>0. /\ \A k \in Question : cache[k] \in Response /\ (Validating => Honest(cache[k]))
      /\ pc[c] \notin {"idle", "done"} => q[c] \in Question
      /\ resp[c] \in Response
    BY DEF ServeInv, TypeOK, HonestInv
<1>s. Honest(SERVFAIL) /\ Honest(Synth)
    BY ResponsesAreTyped, SMTT(30) DEF SERVFAIL, Honest
<1>a. \A r \in Response : /\ Honest(apply_to_response(r)) /\ Honest(Rewrap(r))
                          /\ apply_to_response(r) \in Response
    BY ResponsesAreTyped, SMTT(30) DEF Honest
<1>f. \A r \in ForwarderAnswers : r \in Response
    BY ResponsesAreTyped
<1>w. \A r \in WalkAnswers : r \in Response /\ Honest(r)
    BY ResponsesAreTyped
<1>1. CASE PtrLookup(c)
    <2>1. CASE "PTR" \in Question /\ Return(c, Rewrap(cache["PTR"]))
        BY <1>0, <1>1, <1>a, <2>1, ReturnIsHonest DEF PtrLookup, shared
    <2>2. CASE "PTR" \in Forwarded /\ Proceed(c, "ptr_query")
        BY <1>1, <2>2, ProceedIsHonest DEF PtrLookup
    <2>3. CASE Return(c, SERVFAIL)
        BY <1>0, <1>1, <1>s, <2>3, ReturnIsHonest DEF PtrLookup, shared
    <2> QED
        BY <1>1, <2>1, <2>2, <2>3 DEF PtrLookup
<1>2. CASE PtrQuery(c)
    <2>1. ~Validating
        BY <1>2 DEF PtrQuery, HonestInv
    <2>2. CASE Return(c, SERVFAIL)
        BY <1>s, <2>1, <2>2, ReturnIsHonest
    <2>3. ASSUME NEW r \in ForwarderAnswers, Return(c, Rewrap(r))
          PROVE  HonestInv'
        BY <1>a, <1>f, <2>1, <2>3, ReturnIsHonest
    <2> QED
        BY <1>2, <2>2, <2>3 DEF PtrQuery
<1>3. CASE NegCheck1(c)
    BY <1>0, <1>3, <1>s, ReturnIsHonest, ProceedIsHonest DEF NegCheck1, shared
<1>4. ASSUME NEW synth \in {"syn1", "syn2"}, NEW miss \in {"lock_for", "neg2"},
             pc[c] \in {"get1", "get2"}, FromCache(c, synth, miss), UNCHANGED shared
      PROVE  HonestInv'
    <2>1. ASSUME NEW s \in {synth, miss}, Proceed(c, s)
          PROVE  HonestInv'
        BY <1>4, <2>1, ProceedIsHonest
    <2>2. CASE Return(c, IF Validating THEN cache[q[c]] ELSE apply_to_response(cache[q[c]]))
        <3> DEFINE r == IF Validating THEN cache[q[c]] ELSE apply_to_response(cache[q[c]])
        <3>1. Honest(r)
            BY <1>0, <1>4, <1>a
        <3> QED
            BY <1>0, <1>4, <2>2, <3>1, ReturnIsHonest DEF shared
    <2> QED
        BY <1>4, <2>1, <2>2 DEF FromCache
<1>5. ASSUME NEW miss \in {"lock_for", "neg2"}, FromCachedA(c, miss), UNCHANGED shared
      PROVE  HonestInv'
    <2>1. CASE Proceed(c, miss)
        BY <1>5, <2>1, ProceedIsHonest
    <2>2. CASE Return(c, Synth)
        BY <1>0, <1>5, <1>s, <2>2, ReturnIsHonest DEF shared
    <2> QED
        BY <1>5, <2>1, <2>2 DEF FromCachedA
<1>6. CASE LockFor(c)
    <2>1. \A d \in Client : pc'[d] = IF d = c THEN "lock" ELSE pc[d]
        BY <1>6 DEF LockFor, Goto, ServeInv, TypeOK
    <2> QED
        BY <1>6, <2>1, SMTT(30) DEF LockFor, HonestInv, Honest, Validating
<1>7. CASE Lock(c)
    BY <1>7, ProceedIsHonest DEF Lock
<1>8. CASE NegCheck2(c)
    <2>1. CASE Return(c, SERVFAIL)
        BY <1>0, <1>8, <1>s, <2>1, ReturnIsHonest DEF NegCheck2, shared
    <2>2. ASSUME NEW s \in {"fwd", "walk"}, Proceed(c, s)
          PROVE  HonestInv'
        BY <1>8, <2>2, ProceedIsHonest DEF NegCheck2
    <2> QED
        BY <1>8, <2>1, <2>2 DEF NegCheck2
<1>9. CASE WalkFails(c) \/ WalkBogus(c)
    BY <1>0, <1>9, <1>s, ReturnIsHonest DEF WalkFails, WalkBogus, shared
<1>10. CASE WalkOk(c)
    <2>1. PICK r \in WalkAnswers :
             /\ put(q[c], r)
             /\ IF should_synthesise(c, r)
                THEN Goto(c, "walkA") /\ resp' = [resp EXCEPT ![c] = r] /\ UNCHANGED <<q, dns64, mutex>>
                ELSE Return(c, r)
        BY <1>10 DEF WalkOk
    <2>2. r \in Response /\ Honest(r) /\ q[c] \in Question
        BY <1>0, <1>10, <1>w DEF WalkOk
    <2>3. \A k \in Question : Validating => Honest(cache'[k])
        BY <2>1, <2>2, PutIsHonest
    <2>4. CASE Goto(c, "walkA") /\ resp' = [resp EXCEPT ![c] = r]
        <3>1. \A d \in Client : pc'[d] = (IF d = c THEN "walkA" ELSE pc[d]) /\ resp'[d] = IF d = c THEN r ELSE resp[d]
            BY <2>4 DEF ServeInv, TypeOK, Goto
        <3> QED
            BY <2>2, <2>3, <3>1 DEF HonestInv, Honest, Validating
    <2>5. CASE Return(c, r)
        BY <2>2, <2>3, <2>5, ReturnIsHonest
    <2> QED
        BY <2>1, <2>4, <2>5
<1>11. CASE WalkA(c)
    <2>1. Honest(resp[c])
        BY <1>11 DEF WalkA, HonestInv
    <2>2. CASE Return(c, resp[c]) /\ UNCHANGED cache
        BY <1>0, <2>1, <2>2, ReturnIsHonest
    <2>3. ASSUME NEW r \in WalkAnswers,
                 IF "A" \in Question THEN put("A", r) ELSE UNCHANGED cache,
                 Return(c, IF r.rc = "data" THEN Synth ELSE resp[c])
          PROVE  HonestInv'
        <3>1. \A k \in Question : Validating => Honest(cache'[k])
            BY <1>0, <1>w, <2>3, PutIsHonest
        <3> DEFINE a == IF r.rc = "data" THEN Synth ELSE resp[c]
        <3>2. Honest(a)
            BY <1>s, <2>1
        <3> QED
            BY <2>3, <3>1, <3>2, ReturnIsHonest
    <2> QED
        BY <1>11, <2>2, <2>3 DEF WalkA
<1>12. CASE Forward(c)
    <2>1. CASE Return(c, SERVFAIL) /\ UNCHANGED cache
        BY <1>0, <1>s, <2>1, ReturnIsHonest
    <2>2. ASSUME NEW r \in ForwarderAnswers, Goto(c, "fwdA"), resp' = [resp EXCEPT ![c] = r], UNCHANGED cache
          PROVE  HonestInv'
        <3>1. \A d \in Client : pc'[d] = (IF d = c THEN "fwdA" ELSE pc[d]) /\ (d # c => resp'[d] = resp[d])
            BY <2>2 DEF ServeInv, TypeOK, Goto
        <3> QED
            BY <2>2, <3>1 DEF HonestInv, Honest, Validating
    <2>3. ASSUME NEW r \in ForwarderAnswers,
                 put(q[c], apply_to_response(r)), Return(c, apply_to_response(r))
          PROVE  HonestInv'
        <3>1. q[c] \in Question /\ Honest(apply_to_response(r)) /\ apply_to_response(r) \in Response
            BY <1>0, <1>12, <1>a, <1>f DEF Forward
        <3>2. \A k \in Question : Validating => Honest(cache'[k])
            BY <2>3, <3>1, PutIsHonest
        <3> QED
            BY <2>3, <3>1, <3>2, ReturnIsHonest
    <2> QED
        BY <1>12, <2>1, <2>2, <2>3 DEF Forward
<1>13. CASE ForwardA(c)
    <2>1. CASE Return(c, Synth) /\ UNCHANGED cache
        BY <1>0, <1>s, <2>1, ReturnIsHonest
    <2>2. CASE put(q[c], apply_to_response(resp[c])) /\ Return(c, apply_to_response(resp[c]))
        <3>1. /\ q[c] \in Question /\ Honest(apply_to_response(resp[c]))
              /\ apply_to_response(resp[c]) \in Response
            BY <1>0, <1>13, <1>a DEF ForwardA
        <3>2. \A k \in Question : Validating => Honest(cache'[k])
            BY <2>2, <3>1, PutIsHonest
        <3> QED
            BY <2>2, <3>1, <3>2, ReturnIsHonest
    <2> QED
        BY <1>13, <2>1, <2>2 DEF ForwardA
<1> QED
    BY <1>1, <1>2, <1>3, <1>4, <1>5, <1>6, <1>7, <1>8, <1>9, <1>10, <1>11, <1>12, <1>13
    DEF Handle, Get1, Get2, Syn1, Syn2

\* The verdict governs what is served, for every policy and any set of
\* forwarded questions, unless a validating server forwards reverse names.
THEOREM VerdictGovernsServed ==
    ASSUME Validating => "PTR" \notin Forwarded
    PROVE  Spec => []VerdictGoverns
<1>1. Init => HonestInv
    BY SMTT(30) DEF Init, HonestInv, Honest, Miss, NoReply, Reply
<1>2. ServeInv /\ HonestInv /\ [Next]_vars => HonestInv'
    <2> SUFFICES ASSUME ServeInv, HonestInv, [Next]_vars PROVE HonestInv'
        OBVIOUS
    <2>0. \A rc \in {"none", "refused"} : Honest(Reply(rc))
        BY ResponsesAreTyped, SMTT(30) DEF Honest
    <2>1. ASSUME NEW c \in Client, Ask(c) PROVE HonestInv'
        <3>1. \A d \in Client : d # c => pc'[d] = pc[d] /\ resp'[d] = resp[d]
            BY <2>1 DEF Ask, ServeInv, TypeOK, Goto
        <3>2. pc'[c] \in {"done", "ptr", "neg1"} /\ (pc'[c] = "done" => resp'[c] = Reply("refused"))
            BY <2>1, SMTT(30) DEF Ask, ServeInv, TypeOK, Goto
        <3> QED
            BY <2>0, <2>1, <3>1, <3>2, SMTT(30) DEF Ask, shared, HonestInv, Honest, Validating
    <2>2. ASSUME NEW c \in Client, Drop(c) PROVE HonestInv'
        <3>1. \A d \in Client : pc'[d] = IF d = c THEN "done" ELSE pc[d]
            BY <2>2 DEF Drop, ServeInv, TypeOK, Goto
        <3>2. Honest(resp[c])
            BY <2>0, <2>2 DEF Drop, ServeInv, SynthInv, NoReply
        <3> QED
            BY <2>2, <3>1, <3>2 DEF Drop, shared, HonestInv, Honest, Validating
    <2>3. ASSUME NEW c \in Client, Sent(c) PROVE HonestInv'
        <3>1. \A d \in Client : pc'[d] = (IF d = c THEN "idle" ELSE pc[d]) /\ (d # c => resp'[d] = resp[d])
            BY <2>3 DEF Sent, ServeInv, TypeOK, Goto
        <3> QED
            BY <2>3, <3>1 DEF Sent, shared, HonestInv, Honest, Validating
    <2>4. CASE Prewarm \/ UNCHANGED vars
        BY <2>4 DEF Prewarm, vars, shared, HonestInv, Honest, Validating
    <2>5. CASE Glue
        <3>1. \A k \in Question : cache'[k] = cache[k] \/ cache'[k].ad = 0
            BY <2>5, SMTT(30) DEF Glue, ServeInv, TypeOK
        <3> QED
            BY <2>5, <3>1, SMTT(30) DEF Glue, HonestInv, Honest, Validating
    <2>6. CASE Expire
        <3>1. \A k \in Question : cache'[k] \in {cache[k], NoReply}
            BY <2>6 DEF Expire, ServeInv, TypeOK, Miss
        <3> QED
            BY <2>0, <2>6, <3>1 DEF Expire, HonestInv, Honest, Validating, NoReply
    <2> QED
        BY <2>1, <2>2, <2>3, <2>4, <2>5, <2>6, HandleIsHonest DEF Next
<1>3. ASSUME ServeInv, HonestInv
      PROVE  VerdictGoverns
    <2>1. \A r \in Response : r.by # "bogus"
        BY DEF Response
    <2>2. \A r \in Served \cup Stored : r \in Response
        BY <1>3 DEF ServeInv, TypeOK, Served, Stored
    <2>3. \A r \in Served : Honest(r)
        BY <1>3 DEF HonestInv, Served
    <2> QED
        BY <2>1, <2>2, <2>3 DEF VerdictGoverns, Honest
<1> QED
    BY <1>1, <1>2, <1>3, ServeInvariant, PTL DEF Spec

-----------------------------------------------------------------------------
\* The record types asked for are finitely many.
LEMMA QuestionIsFinite == IsFiniteSet(Question)
<1>1. IsFiniteSet({} \cup {"A"} \cup {"AAAA"} \cup {"PTR"} \cup {"PTR6"} \cup {"MX"})
    BY FS_EmptySet, FS_AddElement
<1>2. Question \in SUBSET ({} \cup {"A"} \cup {"AAAA"} \cup {"PTR"} \cup {"PTR6"} \cup {"MX"})
    BY ResolverAssumption
<1> QED
    BY <1>1, <1>2, FS_Subset

\* A query without a mutex always finds one that is not in use.
LEMMA FreshMutex ==
    ASSUME NEW c \in Client, mutex \in [Client -> Mutex \cup {NoMutex}], mutex[c] = NoMutex,
           NEW f \in [Question -> Mutex \cup {NoMutex}]
    PROVE  \E m \in Mutex : ~Referenced(m) /\ \A k \in Question : f[k] # m
<1> USE ResolverAssumption
<1> DEFINE others == Client \ {c}
           g == [d \in others |-> mutex[d]]
           A == {g[d] : d \in others}
           B == {f[k] : k \in Question}
<1>1. IsFiniteSet(others) /\ Cardinality(others) = Cardinality(Client) - 1 /\ Cardinality(Client) \in Nat
    BY FS_RemoveElement, FS_CardinalityType
<1>2. Cardinality(Question) \in Nat /\ IsFiniteSet(Question)
    BY QuestionIsFinite, FS_CardinalityType
<1>3. IsFiniteSet(A) /\ Cardinality(A) <= Cardinality(others)
    <2>1. g \in Surjection(others, A)
        BY DEF Surjection
    <2> HIDE DEF g, others, A
    <2> QED
        BY <1>1, <2>1, FS_Surjection
<1>4. IsFiniteSet(B) /\ Cardinality(B) <= Cardinality(Question)
    <2>1. f \in Surjection(Question, B)
        BY DEF Surjection
    <2> HIDE DEF B
    <2> QED
        BY <1>2, <2>1, FS_Surjection
<1>5. IsFiniteSet(A \cup B) /\ Cardinality(A \cup B) <= Cardinality(A) + Cardinality(B)
    <2> HIDE DEF A, B
    <2>1. Cardinality(A \cup B) = Cardinality(A) + Cardinality(B) - Cardinality(A \cap B) /\ IsFiniteSet(A \cup B)
        BY <1>3, <1>4, FS_Union
    <2>2. Cardinality(A \cap B) \in Nat /\ Cardinality(A) \in Nat /\ Cardinality(B) \in Nat
        BY <1>3, <1>4, FS_Intersection, FS_CardinalityType
    <2> QED
        BY <2>1, <2>2, SMTT(30)
<1>6. Cardinality(A) \in Nat /\ Cardinality(B) \in Nat /\ Cardinality(A \cup B) \in Nat
    BY <1>3, <1>4, <1>5, FS_CardinalityType
<1>7. Cardinality(Mutex) = Cardinality(Client) + Cardinality(Question)
    BY <1>1, <1>2, FS_Interval, SMTT(30) DEF Mutex
<1>8. ~(Mutex \subseteq A \cup B)
    <2> HIDE DEF A, B, others
    <2>1. Cardinality(A \cup B) < Cardinality(Mutex)
        BY <1>1, <1>2, <1>3, <1>4, <1>5, <1>6, <1>7, SMTT(30)
    <2>2. Mutex \subseteq A \cup B => Cardinality(Mutex) <= Cardinality(A \cup B)
        BY <1>5, FS_Subset
    <2> QED
        BY <1>1, <1>2, <1>6, <1>7, <2>1, <2>2, SMTT(30)
<1>9. PICK m \in Mutex : m \notin A /\ m \notin B
    BY <1>8
<1>10. m # NoMutex
    BY <1>1, <1>2, SMTT(30) DEF Mutex
<1> QED
    BY <1>9, <1>10 DEF Referenced

\* While no more queries are in flight than the map has room for, the sweep of
\* lock_for never drops an entry that a query still refers to.
LEMMA SweepKeepsReferenced ==
    ASSUME Cardinality(Client) <= IN_FLIGHT_CAP, LockInv,
           NEW c \in Client, mutex[c] = NoMutex, NEW f \in Swept
    PROVE  /\ f \in [Question -> Mutex \cup {NoMutex}]
           /\ \A k \in Question : f[k] \in {map[k], NoMutex}
           /\ \A k \in Question : Referenced(map[k]) => f[k] = map[k]
<1> USE ResolverAssumption
<1> DEFINE kept == [k \in Question |-> IF Referenced(map[k]) THEN map[k] ELSE NoMutex]
           others == Client \ {c}
           E == Entries(kept)
           owner == [k \in E |-> CHOOSE d \in Client : mutex[d] = map[k]]
<1>1. \A k \in E : /\ k \in Question /\ map[k] # NoMutex
                   /\ owner[k] \in Client /\ mutex[owner[k]] = map[k]
    BY DEF Entries, Referenced
<1>2. owner \in Injection(E, others)
    <2>1. owner \in [E -> others]
        BY <1>1
    <2>2. \A k, l \in E : owner[k] = owner[l] => k = l
        <3>1. \A k, l \in Question : map[k] = map[l] /\ map[k] # NoMutex => k = l
            BY DEF LockInv
        <3> SUFFICES ASSUME NEW k \in E, NEW l \in E, owner[k] = owner[l] PROVE k = l
            OBVIOUS
        <3> HIDE DEF owner, E
        <3>2. mutex[owner[k]] = map[k] /\ mutex[owner[l]] = map[l]
            BY <1>1
        <3>3. k \in Question /\ l \in Question /\ map[k] # NoMutex
            BY <1>1
        <3> QED
            BY <3>1, <3>2, <3>3
    <2> HIDE DEF owner, E, others
    <2> QED
        BY <2>1, <2>2 DEF Injection, IsInjective
<1>3. IsFiniteSet(others) /\ Cardinality(others) = Cardinality(Client) - 1 /\ Cardinality(Client) \in Nat
    BY FS_RemoveElement, FS_CardinalityType
<1>4. Cardinality(E) < IN_FLIGHT_CAP
    <2> HIDE DEF owner, E, others
    <2>1. IsFiniteSet(E) /\ Cardinality(E) <= Cardinality(others)
        BY <1>2, <1>3, FS_Injection
    <2>2. Cardinality(E) \in Nat
        BY <2>1, FS_CardinalityType
    <2> QED
        BY <1>3, <2>1, <2>2, SMTT(30)
<1>5. f = map \/ f = kept
    BY <1>4 DEF Swept
<1> QED
    BY <1>5, SMTT(30) DEF LockInv

\* The map after lock_for: the query's question has the query's mutex, and the
\* entries other queries refer to are where they were.
LEMMA LockForShares ==
    ASSUME Cardinality(Client) <= IN_FLIGHT_CAP,
           ServeInv, LockInv, NEW c \in Client, LockFor(c)
    PROVE  LockInv'
<1>0. mutex[c] = NoMutex /\ q[c] \in Question
    BY DEF LockFor, LockInv, Inside, Walking, ServeInv, TypeOK
<1>1. PICK f \in Swept :
         LET new == CHOOSE m \in Mutex : ~Referenced(m) /\ \A k \in Question : f[k] # m
             m   == IF f[q[c]] # NoMutex THEN f[q[c]] ELSE new
         IN  /\ map' = [f EXCEPT ![q[c]] = m]
             /\ mutex' = [mutex EXCEPT ![c] = m]
    BY DEF LockFor
<1> DEFINE new == CHOOSE m \in Mutex : ~Referenced(m) /\ \A k \in Question : f[k] # m
           m   == IF f[q[c]] # NoMutex THEN f[q[c]] ELSE new
<1>2. /\ f \in [Question -> Mutex \cup {NoMutex}]
      /\ \A k \in Question : f[k] \in {map[k], NoMutex}
      /\ \A k \in Question : Referenced(map[k]) => f[k] = map[k]
    BY <1>0, SweepKeepsReferenced
<1>3. new \in Mutex /\ ~Referenced(new) /\ \A k \in Question : f[k] # new
    <2>1. \E x \in Mutex : ~Referenced(x) /\ \A k \in Question : f[k] # x
        BY <1>0, <1>2, FreshMutex DEF LockInv
    <2> QED
        BY <2>1
<1>n. NoMutex \notin Mutex
    BY ResolverAssumption, QuestionIsFinite, FS_CardinalityType, SMTT(30) DEF Mutex
<1>4. map' = [f EXCEPT ![q[c]] = m] /\ mutex' = [mutex EXCEPT ![c] = m]
    BY <1>1
<1>5. m \in Mutex /\ m # NoMutex /\ (f[q[c]] # NoMutex => m = f[q[c]])
      /\ (f[q[c]] = NoMutex => \A k \in Question : f[k] # m)
    BY <1>0, <1>2, <1>3, <1>n
<1> HIDE DEF m, new
<1>6. \A k \in Question : map'[k] = IF k = q[c] THEN m ELSE f[k]
    BY <1>0, <1>2, <1>4
<1>7. \A d \in Client : /\ mutex'[d] = (IF d = c THEN m ELSE mutex[d])
                        /\ pc'[d] = (IF d = c THEN "lock" ELSE pc[d])
                        /\ q'[d] = q[d]
    BY <1>4 DEF LockFor, Goto, LockInv, ServeInv, TypeOK
<1>8. mutex' \in [Client -> Mutex \cup {NoMutex}] /\ map' \in [Question -> Mutex \cup {NoMutex}]
    BY <1>2, <1>4, <1>5 DEF LockInv
<1>9. ASSUME NEW d \in Client, mutex'[d] # NoMutex
      PROVE  map'[q'[d]] = mutex'[d]
    <2>1. CASE d = c
        BY <1>0, <1>6, <1>7, <2>1
    <2>2. CASE d # c
        <3>1. mutex[d] # NoMutex /\ map[q[d]] = mutex[d] /\ q[d] \in Question
            BY <1>7, <1>9, <2>2 DEF LockInv, ServeInv, TypeOK, Inside, Walking
        <3>2. f[q[d]] = mutex[d]
            BY <1>2, <3>1 DEF Referenced
        <3> QED
            BY <1>5, <1>6, <1>7, <2>2, <3>1, <3>2, SMTT(30)
    <2> QED
        BY <2>1, <2>2
<1>10. ASSUME NEW d \in Client
       PROVE  mutex'[d] # NoMutex <=> pc'[d] \in {"lock"} \cup Inside
    BY <1>5, <1>7 DEF LockInv
<1>11. ASSUME NEW k \in Question, NEW l \in Question, map'[k] = map'[l], map'[k] # NoMutex
       PROVE  k = l
    <2>1. \A i, j \in Question : f[i] = f[j] /\ f[i] # NoMutex => i = j
        BY <1>2 DEF LockInv
    <2> QED
        BY <1>0, <1>5, <1>6, <1>11, <2>1, SMTT(30)
<1>12. ASSUME NEW d \in Client, NEW e \in Client, d # e, pc'[d] \in Inside, pc'[e] \in Inside
       PROVE  mutex'[d] # mutex'[e]
    BY <1>7, <1>12, SMTT(30) DEF LockInv, Inside, Walking
<1> QED
    BY <1>8, <1>9, <1>10, <1>11, <1>12 DEF LockInv

\* A query whose handler returns lets go of its mutex.
LEMMA ReturnUnlocks ==
    ASSUME ServeInv, LockInv, NEW c \in Client, NEW r, Return(c, r), map' = map
    PROVE  LockInv'
<1>1. \A d \in Client : /\ mutex'[d] = (IF d = c THEN NoMutex ELSE mutex[d])
                        /\ pc'[d] = (IF d = c THEN "done" ELSE pc[d])
                        /\ q'[d] = q[d]
    BY DEF Return, Goto, LockInv, ServeInv, TypeOK
<1>2. mutex' \in [Client -> Mutex \cup {NoMutex}]
    BY DEF Return, LockInv
<1> QED
    BY <1>1, <1>2, SMTT(30) DEF LockInv, Inside, Walking

\* Moving on, before the lock or under it, leaves the mutexes alone.
LEMMA MoveKeepsLock ==
    ASSUME ServeInv, LockInv, NEW c \in Client, NEW s, Goto(c, s), UNCHANGED <<q, mutex, map>>,
           \/ pc[c] \in Inside /\ s \in Inside
           \/ pc[c] \notin {"lock"} \cup Inside /\ s \notin {"lock"} \cup Inside
    PROVE  LockInv'
<1>1. \A d \in Client : pc'[d] = IF d = c THEN s ELSE pc[d]
    BY DEF Goto, ServeInv, TypeOK
<1> QED
    BY <1>1 DEF LockInv

\* While no more queries are in flight than IN_FLIGHT_CAP, the coalescer gives
\* the queries for a question one mutex.
THEOREM LockInvariant ==
    ASSUME Cardinality(Client) <= IN_FLIGHT_CAP
    PROVE  Spec => []LockInv
<1>1. Init => LockInv
    BY DEF Init, LockInv, Inside, Walking
<1>2. ServeInv /\ LockInv /\ [Next]_vars => LockInv'
    <2> SUFFICES ASSUME ServeInv, LockInv, [Next]_vars PROVE LockInv'
        OBVIOUS
    <2>1. ASSUME NEW c \in Client, Ask(c)
          PROVE  LockInv'
        <3>1. \A d \in Client : d # c => pc'[d] = pc[d] /\ q'[d] = q[d]
            BY <2>1 DEF Ask, Goto, ServeInv, TypeOK
        <3>2. pc'[c] \in {"done", "ptr", "neg1"}
            BY <2>1 DEF Ask, Goto, ServeInv, TypeOK
        <3>3. mutex[c] = NoMutex
            BY <2>1 DEF Ask, LockInv, Inside, Walking
        <3> QED
            BY <2>1, <3>1, <3>2, <3>3, SMTT(30) DEF Ask, shared, LockInv, Inside, Walking
    <2>2. ASSUME NEW c \in Client, Drop(c)
          PROVE  LockInv'
        BY <2>2, MoveKeepsLock DEF Drop, shared, Inside, Walking
    <2>3. ASSUME NEW c \in Client, Sent(c)
          PROVE  LockInv'
        <3>1. \A d \in Client : /\ pc'[d] = (IF d = c THEN "idle" ELSE pc[d])
                                /\ d # c => q'[d] = q[d]
            BY <2>3 DEF Sent, Goto, ServeInv, TypeOK
        <3>2. mutex[c] = NoMutex
            BY <2>3 DEF Sent, LockInv, Inside, Walking
        <3> QED
            BY <2>3, <3>1, <3>2, SMTT(30) DEF Sent, shared, LockInv, Inside, Walking
    <2>4. ASSUME NEW c \in Client, Lock(c)
          PROVE  LockInv'
        <3>1. \A d \in Client : pc'[d] = IF d = c THEN "get2" ELSE pc[d]
            BY <2>4 DEF Lock, Proceed, Goto, ServeInv, TypeOK
        <3> QED
            BY <2>4, <3>1, SMTT(30) DEF Lock, Proceed, shared, LockInv, Inside
    <2>5. ASSUME NEW c \in Client, Handle(c), ~LockFor(c), ~Lock(c)
          PROVE  LockInv'
        <3>1. \/ map' = map /\ \E r : Return(c, r)
              \/ /\ UNCHANGED <<q, mutex, map>>
                 /\ \E s : /\ Goto(c, s)
                          /\ \/ pc[c] \in Inside /\ s \in Inside
                             \/ pc[c] \notin {"lock"} \cup Inside /\ s \notin {"lock"} \cup Inside
            <4>1. CASE PtrLookup(c) \/ PtrQuery(c) \/ NegCheck1(c)
                BY <4>1, SMTT(30) DEF PtrLookup, PtrQuery, NegCheck1, Proceed, shared, Inside, Walking
            <4>2. CASE Get1(c) \/ Syn1(c) \/ Get2(c) \/ Syn2(c)
                BY <4>2, SMTT(30) DEF Get1, Syn1, Get2, Syn2, FromCache, FromCachedA, Proceed, shared, Inside, Walking
            <4>3. CASE NegCheck2(c) \/ WalkFails(c) \/ WalkBogus(c)
                BY <4>3 DEF NegCheck2, WalkFails, WalkBogus, Proceed, shared, Inside, Walking
            <4>4. CASE WalkOk(c) \/ WalkA(c) \/ Forward(c) \/ ForwardA(c)
                BY <4>4 DEF WalkOk, WalkA, Forward, ForwardA, Inside, Walking
            <4> QED
                BY <2>5, <4>1, <4>2, <4>3, <4>4 DEF Handle
        <3> QED
            BY <3>1, ReturnUnlocks, MoveKeepsLock
    <2>6. CASE Prewarm \/ Glue \/ Expire \/ UNCHANGED vars
        BY <2>6 DEF Prewarm, Glue, Expire, vars, shared, LockInv
    <2> QED
        BY <2>1, <2>2, <2>3, <2>4, <2>5, <2>6, LockForShares DEF Next
<1> QED
    BY <1>1, <1>2, ServeInvariant, PTL DEF Spec

\* "Multiple callers passing the same (name, rtype) get the same Arc<Mutex>":
\* two queries upstream for one question did not ask for the same one (one is a
\* DNS64 follow-up, or both are uncoalesced reverse lookups), as long as there
\* are never more queries in flight than IN_FLIGHT_CAP.
THEOREM UpstreamsAreExclusive ==
    ASSUME Cardinality(Client) <= IN_FLIGHT_CAP
    PROVE  Spec => []OneUpstreamPerQuestion
<1>1. ServeInv /\ LockInv => OneUpstreamPerQuestion
    <2> SUFFICES ASSUME ServeInv, LockInv, NEW c \in Client, NEW d \in Client, c # d,
                        Upstream(c) = Upstream(d), Upstream(c) # NoQuestion, q[c] = q[d]
                 PROVE  "ptr_query" \in {pc[c], pc[d]}
        BY DEF OneUpstreamPerQuestion
    <2>1. pc[c] \in Inside \cup {"ptr_query"} /\ pc[d] \in Inside \cup {"ptr_query"}
        BY DEF Upstream, Inside, Walking
    <2>2. ~(pc[c] \in Inside /\ pc[d] \in Inside)
        <3> SUFFICES ASSUME pc[c] \in Inside, pc[d] \in Inside PROVE FALSE
            OBVIOUS
        <3>1. mutex[c] = map[q[c]] /\ mutex[d] = map[q[d]]
            BY DEF LockInv
        <3> QED
            BY <3>1 DEF LockInv
    <2> QED
        BY <2>1, <2>2
<1> QED
    BY <1>1, LockInvariant, ServeInvariant, PTL

-----------------------------------------------------------------------------
\* The answer to q[c] in the cache does not make its walk a repeated one.
Excused(c) ==
    \/ cache[q[c]] = Miss \/ cache[q[c]].by = "glue"
    \/ q[c] = "A" \/ should_synthesise(c, cache[q[c]])

\* Between the second look at the cache and the start of the walk, the lock keeps
\* the answer out of the cache; reverse names that ptr_query caches have a
\* forwarder and are not walked.
ReuseInv ==
    \A c \in Client :
        /\ pc[c] \in {"syn2", "neg2"} /\ q[c] \notin Forwarded => Excused(c)
        /\ pc[c] = "ptr_query" => "PTR" \in Forwarded

\* What put does to the cache.
LEMMA PutTouchesOneKey ==
    ASSUME ServeInv, NEW k, NEW r, put(k, r), NEW l \in Question, l # k
    PROVE  cache'[l] = cache[l]
BY DEF put, ServeInv, TypeOK

\* A query that moves keeps ReuseInv, if it is excused where it arrives and leaves
\* alone what the others are about to walk for.
LEMMA MoveReuses ==
    ASSUME ServeInv, ReuseInv, NEW c \in Client, NEW s, Goto(c, s), UNCHANGED <<q, dns64>>,
           \A d \in Client : \/ d = c \/ pc[d] \notin {"syn2", "neg2"} \/ q[d] \in Forwarded \cup {"A"}
                             \/ cache'[q[d]] = cache[q[d]],
           s \notin {"syn2", "neg2"} \/ (cache' = cache /\ (q[c] \in Forwarded \/ Excused(c))),
           s # "ptr_query" \/ "PTR" \in Forwarded
    PROVE  ReuseInv'
<1>1. \A d \in Client : pc'[d] = IF d = c THEN s ELSE pc[d]
    BY DEF Goto, ServeInv, TypeOK
<1>2. ASSUME NEW d \in Client, pc'[d] \in {"syn2", "neg2"}, q'[d] \notin Forwarded
      PROVE  Excused(d)'
    <2>1. CASE d = c
        BY <1>1, <1>2, <2>1 DEF Excused, should_synthesise
    <2>2. CASE d # c
        <3>1. Excused(d)
            BY <1>1, <1>2, <2>2 DEF ReuseInv
        <3>2. q[d] = "A" \/ cache'[q[d]] = cache[q[d]]
            BY <1>1, <1>2, <2>2
        <3> QED
            BY <3>1, <3>2 DEF Excused, should_synthesise
    <2> QED
        BY <2>1, <2>2
<1>3. ASSUME NEW d \in Client, pc'[d] = "ptr_query"
      PROVE  "PTR" \in Forwarded
    BY <1>1, <1>3 DEF ReuseInv
<1> QED
    BY <1>2, <1>3 DEF ReuseInv

\* What a query under the lock puts in the cache for its question, or for A, is
\* not the answer another query is about to walk for.
LEMMA PutsDoNotDisturb ==
    ASSUME ServeInv, LockInv, ReuseInv, NEW c \in Client, NEW d \in Client, d # c,
           pc[d] \in {"syn2", "neg2"}, q[d] \notin Forwarded \cup {"A"},
           NEW k, NEW r, put(k, r),
           (k = q[c] /\ pc[c] \in Inside) \/ k = "A" \/ (k = "PTR" /\ pc[c] = "ptr_query")
    PROVE  cache'[q[d]] = cache[q[d]]
<1>1. pc[d] \in Inside /\ q[d] \in Question
    BY DEF Inside, ServeInv, TypeOK
<1>2. pc[c] \in Inside => q[c] # q[d]
    BY <1>1 DEF LockInv
<1>3. q[d] # k
    BY <1>2 DEF ReuseInv
<1> QED
    BY <1>1, <1>3, PutTouchesOneKey

\* No step of a query's handler repeats a walk.
LEMMA HandleReuses ==
    ASSUME ServeInv, LockInv, ReuseInv, NEW c \in Client, Handle(c)
    PROVE  ReuseInv'
<1> DEFINE Writes == \/ cache' = cache
                     \/ \E k, r : /\ put(k, r)
                                  /\ \/ k = q[c] /\ pc[c] \in Inside
                                     \/ k = "A"
                                     \/ k = "PTR" /\ pc[c] = "ptr_query"
           Goes(s) == /\ Goto(c, s)
                      /\ UNCHANGED <<q, dns64>>
                      /\ \/ s \notin {"syn2", "neg2"}
                         \/ cache' = cache /\ (q[c] \in Forwarded \/ Excused(c))
                      /\ s # "ptr_query" \/ "PTR" \in Forwarded
<1> HIDE DEF Writes, Goes
<1>0. ASSUME Writes, NEW s, Goes(s)
      PROVE  ReuseInv'
    <2>1. ASSUME NEW d \in Client, d # c, pc[d] \in {"syn2", "neg2"}, q[d] \notin Forwarded \cup {"A"}
          PROVE  cache'[q[d]] = cache[q[d]]
        <3>1. CASE cache' = cache
            BY <3>1
        <3>2. ASSUME NEW k, NEW r, put(k, r),
                     (k = q[c] /\ pc[c] \in Inside) \/ k = "A" \/ (k = "PTR" /\ pc[c] = "ptr_query")
              PROVE  cache'[q[d]] = cache[q[d]]
            BY <2>1, <3>2, PutsDoNotDisturb
        <3> QED
            BY <1>0, <3>1, <3>2 DEF Writes
    <2>2. \A d \in Client : \/ d = c \/ pc[d] \notin {"syn2", "neg2"} \/ q[d] \in Forwarded \cup {"A"}
                            \/ cache'[q[d]] = cache[q[d]]
        BY <2>1
    <2>3. /\ Goto(c, s) /\ UNCHANGED <<q, dns64>>
          /\ s \notin {"syn2", "neg2"} \/ (cache' = cache /\ (q[c] \in Forwarded \/ Excused(c)))
          /\ s # "ptr_query" \/ "PTR" \in Forwarded
        BY <1>0 DEF Goes
    <2> QED
        BY <2>2, <2>3, MoveReuses, SMTT(30)
<1>1. ASSUME NEW r, Return(c, r)
      PROVE  Goes("done")
    BY <1>1 DEF Return, Goes
<1>2. ASSUME NEW s, Proceed(c, s), s \notin {"syn2", "neg2", "ptr_query"}
      PROVE  Goes(s)
    BY <1>2 DEF Proceed, Goes
<1>3. cache' = cache => Writes
    BY DEF Writes
<1>4. ASSUME NEW r, put(q[c], r), pc[c] \in Inside
      PROVE  Writes
    BY <1>4 DEF Writes
<1>5. CASE PtrLookup(c)
    <2>1. \/ \E r : Return(c, r)
          \/ Proceed(c, "ptr_query") /\ "PTR" \in Forwarded
        BY <1>5 DEF PtrLookup
    <2>2. Proceed(c, "ptr_query") /\ "PTR" \in Forwarded => Goes("ptr_query")
        BY DEF Proceed, Goes
    <2> QED
        BY <1>1, <1>3, <1>5, <2>1, <2>2, <1>0 DEF PtrLookup, shared
<1>6. CASE NegCheck1(c) \/ Get1(c) \/ Syn1(c) \/ Lock(c) \/ NegCheck2(c)
    <2>1. cache' = cache
        BY <1>6 DEF NegCheck1, Get1, Syn1, Lock, NegCheck2, shared
    <2>2. \/ \E r : Return(c, r)
          \/ \E s \in {"get1", "syn1", "lock_for", "get2", "fwd", "walk"} : Proceed(c, s)
        BY <1>6, SMTT(30) DEF NegCheck1, Get1, Syn1, Lock, NegCheck2, FromCache, FromCachedA
    <2> QED
        BY <1>1, <1>2, <1>3, <2>1, <2>2, <1>0
<1>7. CASE LockFor(c)
    <2>1. cache' = cache /\ Goes("lock")
        BY <1>7 DEF LockFor, Goes
    <2> QED
        BY <1>3, <2>1, <1>0
<1>8. CASE Get2(c)
    <2>1. cache' = cache
        BY <1>8 DEF Get2, shared
    <2>2. \/ \E r : Return(c, r)
          \/ \E s \in {"syn2", "neg2"} : Proceed(c, s) /\ Excused(c)
        BY <1>8 DEF Get2, FromCache, Excused
    <2>3. ASSUME NEW s \in {"syn2", "neg2"}, Proceed(c, s), Excused(c)
          PROVE  Goes(s)
        BY <2>1, <2>3 DEF Proceed, Goes
    <2> QED
        BY <1>1, <1>3, <2>1, <2>2, <2>3, <1>0
<1>9. CASE Syn2(c)
    <2>1. cache' = cache
        BY <1>9 DEF Syn2, shared
    <2>2. q[c] \in Forwarded \/ Excused(c)
        BY <1>9 DEF Syn2, ReuseInv
    <2>3. (\E r : Return(c, r)) \/ Proceed(c, "neg2")
        BY <1>9 DEF Syn2, FromCachedA
    <2>4. Proceed(c, "neg2") => Goes("neg2")
        BY <2>1, <2>2 DEF Proceed, Goes
    <2> QED
        BY <1>1, <1>3, <2>1, <2>3, <2>4, <1>0
<1>10. CASE PtrQuery(c) \/ WalkFails(c) \/ WalkBogus(c) \/ WalkA(c)
    <2>1. \E r : Return(c, r)
        BY <1>10 DEF PtrQuery, WalkFails, WalkBogus, WalkA
    <2>2. Writes
        BY <1>10 DEF PtrQuery, WalkFails, WalkBogus, WalkA, shared, Writes
    <2> QED
        BY <1>1, <2>1, <2>2, <1>0
<1>11. CASE WalkOk(c) \/ Forward(c) \/ ForwardA(c)
    <2>1. pc[c] \in Inside
        BY <1>11 DEF WalkOk, Forward, ForwardA, Inside, Walking
    <2>2. (\E r : Return(c, r)) \/ \E s \in {"walkA", "fwdA"} : Goto(c, s) /\ UNCHANGED <<q, dns64>>
        BY <1>11 DEF WalkOk, Forward, ForwardA
    <2>3. ASSUME NEW s \in {"walkA", "fwdA"}, Goto(c, s), UNCHANGED <<q, dns64>>
          PROVE  Goes(s)
        BY <2>3 DEF Goes
    <2>4. cache' = cache \/ \E r : put(q[c], r)
        BY <1>11 DEF WalkOk, Forward, ForwardA
    <2> QED
        BY <1>1, <1>3, <1>4, <2>1, <2>2, <2>3, <2>4, <1>0
<1> QED
    BY <1>5, <1>6, <1>7, <1>8, <1>9, <1>10, <1>11 DEF Handle

\* Followers reuse the leader's work: whatever the other queries do between its
\* second look at the cache and the start of its walk, a query does not walk for
\* an answer that is there, or for one remembered as failed.
THEOREM WalksAreNotRepeated ==
    ASSUME Cardinality(Client) <= IN_FLIGHT_CAP
    PROVE  Spec => NoRepeatedWalk
<1> DEFINE Walks == \A c \in Client : pc[c] # "walk" /\ pc'[c] = "walk" =>
                                          q[c] \notin neg /\ Excused(c)
<1>1. ServeInv /\ ReuseInv /\ [Next]_vars => [Walks]_vars
    <2> SUFFICES ASSUME ServeInv, ReuseInv, Next, NEW c \in Client, pc[c] # "walk", pc'[c] = "walk"
                 PROVE  q[c] \notin neg /\ Excused(c)
        BY DEF vars
    <2>1. pc \in [Client -> Steps]
        BY DEF ServeInv, TypeOK
    <2>2. ASSUME NEW d \in Client, NEW s, Goto(d, s)
          PROVE  d = c /\ s = "walk"
        BY <2>1, <2>2 DEF Goto
    <2>3. ASSUME NEW d \in Client, Ask(d) \/ Drop(d) \/ Sent(d)
          PROVE  FALSE
        <3>1. \E s : s # "walk" /\ Goto(d, s)
            BY <2>3 DEF Ask, Drop, Sent
        <3> QED
            BY <2>2, <3>1
    <2>4. ASSUME NEW d \in Client, Handle(d), ~NegCheck2(d)
          PROVE  FALSE
        <3>1. \E s : s # "walk" /\ Goto(d, s)
            <4>1. CASE PtrLookup(d) \/ PtrQuery(d) \/ NegCheck1(d)
                BY <4>1 DEF PtrLookup, PtrQuery, NegCheck1, Proceed, Return
            <4>2. CASE Get1(d) \/ Syn1(d) \/ Get2(d) \/ Syn2(d)
                BY <4>2 DEF Get1, Syn1, Get2, Syn2, FromCache, FromCachedA, Proceed, Return
            <4>3. CASE LockFor(d) \/ Lock(d) \/ WalkFails(d) \/ WalkBogus(d)
                BY <4>3 DEF LockFor, Lock, WalkFails, WalkBogus, Proceed, Return
            <4>4. CASE WalkOk(d) \/ WalkA(d) \/ Forward(d) \/ ForwardA(d)
                BY <4>4 DEF WalkOk, WalkA, Forward, ForwardA, Return
            <4> QED
                BY <2>4, <4>1, <4>2, <4>3, <4>4 DEF Handle
        <3> QED
            BY <2>2, <3>1
    <2>5. CASE Prewarm \/ Glue \/ Expire
        BY <2>5 DEF Prewarm, Glue, Expire
    <2>6. ASSUME NEW d \in Client, NegCheck2(d)
          PROVE  q[c] \notin neg /\ Excused(c)
        <3>1. Proceed(d, "walk") /\ q[d] \notin neg /\ q[d] \notin Forwarded
            BY <2>2, <2>6, SMTT(30) DEF NegCheck2, Return, Proceed
        <3>2. d = c
            BY <2>2, <3>1 DEF Proceed
        <3> QED
            BY <2>6, <3>1, <3>2 DEF NegCheck2, ReuseInv
    <2> QED
        BY <2>3, <2>4, <2>5, <2>6 DEF Next
<1>2. Init => ReuseInv
    BY DEF Init, ReuseInv
<1>3. ServeInv /\ LockInv /\ ReuseInv /\ [Next]_vars => ReuseInv'
    <2> SUFFICES ASSUME ServeInv, LockInv, ReuseInv, [Next]_vars PROVE ReuseInv'
        OBVIOUS
    <2>1. ASSUME NEW c \in Client, Ask(c) \/ Drop(c) \/ Sent(c)
          PROVE  ReuseInv'
        <3>1. cache' = cache /\ pc'[c] \notin {"syn2", "neg2", "ptr_query"}
            BY <2>1 DEF Ask, Drop, Sent, Goto, shared, ServeInv, TypeOK
        <3>2. \A d \in Client : d = c \/ (pc'[d] = pc[d] /\ q'[d] = q[d] /\ dns64'[d] = dns64[d])
            <4>1. pc \in [Client -> Steps] /\ q \in [Client -> Question \cup {NoQuestion}]
                  /\ dns64 \in [Client -> BOOLEAN]
                BY DEF ServeInv, TypeOK
            <4>2. CASE Ask(c)
                BY <4>1, <4>2 DEF Ask, Goto
            <4>3. CASE Drop(c) \/ Sent(c)
                BY <4>1, <4>3 DEF Drop, Sent, Goto
            <4> QED
                BY <2>1, <4>2, <4>3
        <3>3. ASSUME NEW d \in Client, pc'[d] \in {"syn2", "neg2"}, q'[d] \notin Forwarded
              PROVE  Excused(d)'
            BY <3>1, <3>2, <3>3 DEF ReuseInv, Excused, should_synthesise
        <3>4. ASSUME NEW d \in Client, pc'[d] = "ptr_query"
              PROVE  "PTR" \in Forwarded
            BY <3>1, <3>2, <3>4 DEF ReuseInv
        <3> QED
            BY <3>3, <3>4 DEF ReuseInv
    <2>2. CASE Prewarm \/ UNCHANGED vars
        BY <2>2 DEF Prewarm, vars, shared, ReuseInv, Excused, should_synthesise
    <2>3. CASE Glue \/ Expire
        <3>1. UNCHANGED <<pc, q, dns64>>
            BY <2>3 DEF Glue, Expire
        <3>2. \A k \in Question : cache'[k] = cache[k] \/ cache'[k] = Miss \/ cache'[k].by = "glue"
            BY <2>3, SMTT(30) DEF Glue, Expire, ServeInv, TypeOK
        <3>3. ASSUME NEW d \in Client, pc[d] \in {"syn2", "neg2"}, q[d] \notin Forwarded
              PROVE  Excused(d)'
            <4>1. q[d] \in Question /\ Excused(d)
                BY <3>3 DEF ServeInv, TypeOK, ReuseInv
            <4> QED
                BY <3>1, <3>2, <4>1 DEF Excused, should_synthesise
        <3> QED
            BY <3>1, <3>3 DEF ReuseInv
    <2> QED
        BY <2>1, <2>2, <2>3, HandleReuses DEF Next
<1>4. [Walks]_vars => [\A c \in Client : pc[c] # "walk" /\ pc'[c] = "walk" =>
          /\ q[c] \notin neg
          /\ \/ cache[q[c]] = Miss \/ cache[q[c]].by = "glue"
             \/ q[c] = "A" \/ should_synthesise(c, cache[q[c]])]_vars
    BY DEF Excused
<1> QED
    BY <1>1, <1>2, <1>3, <1>4, LockInvariant, ServeInvariant, PTL DEF Spec, NoRepeatedWalk
=============================================================================
