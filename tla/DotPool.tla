------------------------------- MODULE DotPool -------------------------------
(***************************************************************************)
(* The DNS-over-TLS connection pool of src/recursor/dot_pool.rs, and the   *)
(* forwarder exchanges that use it (query_one_dot and dot_exchange of      *)
(* src/recursor/forwarder.rs).  One worker's pool, shared by concurrent    *)
(* exchanges, each for one forwarder domain; every domain resolves to the  *)
(* same server, so only `via' and the isolation user tell keys apart.      *)
(*                                                                         *)
(* A stream remembers what it was built for, which the code does not.      *)
(***************************************************************************)
EXTENDS Naturals, Sequences, FiniteSets, FiniteSetsExt

CONSTANTS
    Task,           \* concurrent dot_exchange calls
    Domain,         \* forwarder domains
    Via,            \* Via[d]: "direct" or "tor"
    Stream,         \* identities of TLS streams, reused once closed
    NoStream,
    NoUser,         \* the isolation user of a direct key
    IDLE_CAP,
    MAX_LIFETIME,
    MAX_PER_KEY,
    MaxTime         \* bound: the clock stops here

ASSUME DotPoolAssumption ==
    /\ Via \in [Domain -> {"direct", "tor"}]
    /\ NoStream \notin Stream
    /\ NoUser \notin Domain
    /\ {IDLE_CAP, MAX_LIFETIME, MAX_PER_KEY, MaxTime} \subseteq Nat
    /\ 0 < IDLE_CAP /\ IDLE_CAP <= MAX_LIFETIME

DotConnKey == [via : {"direct", "tor"}, iso_user : Domain \cup {NoUser}]

Unbuilt == [domain |-> NoUser, via |-> "none"]

VARIABLES
    now,
    tor_socks,      \* is dns.tor_socks configured
    idle,           \* the pool: DotConnKey -> bucket, oldest first
    pc, domain,     \* where each exchange is, and its forwarder
    held,           \* the stream it is using
    reused,         \* exchanges whose stream came from the pool
    built,          \* what each stream was built for
    used,           \* streams over which a query was answered
    unread          \* streams that owe a response nobody has read

poolVars == <<now, tor_socks, idle, pc, domain, held, reused, built, used, unread>>

pool == <<idle, pc, held, reused, built, used, unread>>

PoolInit ==
    /\ now = 0
    /\ tor_socks \in BOOLEAN
    /\ idle = [k \in DotConnKey |-> <<>>]
    /\ pc = [t \in Task |-> "ready"]
    /\ domain = [t \in Task |-> NoUser]
    /\ held = [t \in Task |-> NoStream]
    /\ reused = {}
    /\ built = [s \in Stream |-> Unbuilt]
    /\ used = {}
    /\ unread = {}
-----------------------------------------------------------------------------
\* Mutant: the key leaves the isolation user out.
KeyOf_NoIsoUser(d) == [via |-> Via[d], iso_user |-> NoUser]

(* The pool key of a forwarder's DoT server. *)
KeyOf(d) ==
    [via |-> Via[d], iso_user |-> IF Via[d] = "tor" THEN d ELSE NoUser]

(* DotConn::new: both stamps are now. *)
DotConn(s) == [stream |-> s, created_at |-> now, last_used |-> now]

is_stale(conn) ==
    \/ now - conn.last_used >= IDLE_CAP
    \/ now - conn.created_at >= MAX_LIFETIME

Pooled == {s \in Stream : \E k \in DotConnKey : \E i \in DOMAIN idle[k] : idle[k][i].stream = s}

Open == Pooled \cup {held[t] : t \in Task}

(* A stream nobody owns any more is dropped, which closes it. *)
DropClosed(answered) ==
    /\ built' = [s \in Stream |-> IF s \in Open' THEN built[s] ELSE Unbuilt]
    /\ used' = (used \cup answered) \cap Open'

(* query_one_dot: a `via: tor' server without a SOCKS endpoint fails. *)
Ask(t, d) ==
    /\ pc[t] = "ready"
    /\ domain' = [domain EXCEPT ![t] = d]
    /\ pc' = [pc EXCEPT
                ![t] = IF Via[d] = "tor" /\ ~tor_socks THEN "failed" ELSE "take"]
    /\ UNCHANGED <<now, tor_socks, idle, held, reused, built, used, unread>>

(* take: pop from the back until a connection is not stale. *)
Take(t) ==
    LET k == KeyOf(domain[t])
        fresh == {i \in DOMAIN idle[k] : ~is_stale(idle[k][i])}
        last == Max(fresh)
    IN  /\ pc[t] = "take"
        /\ IF fresh = {}
             THEN /\ idle' = [idle EXCEPT ![k] = <<>>]
                  /\ pc' = [pc EXCEPT ![t] = "build"]
                  /\ UNCHANGED <<held, reused>>
             ELSE /\ idle' = [idle EXCEPT ![k] = SubSeq(@, 1, last - 1)]
                  /\ pc' = [pc EXCEPT ![t] = "write"]
                  /\ held' = [held EXCEPT ![t] = idle[k][last].stream]
                  /\ reused' = reused \cup {t}
        /\ DropClosed({})
        /\ UNCHANGED <<now, tor_socks, domain, unread>>

(* The connection factory: connect_stream, which has a timeout, then SOCKS  *)
(* for tor and the TLS handshake, which have none.                         *)
Connect(t) ==
    /\ pc[t] = "build"
    /\ pc' = [pc EXCEPT ![t] = "handshake"]
    /\ UNCHANGED <<now, tor_socks, idle, domain, held, reused, built, used, unread>>

Build(t) ==
    /\ pc[t] = "handshake"
    /\ Stream \ Open # {}
    /\ LET s == CHOOSE x \in Stream \ Open : TRUE IN
        /\ held' = [held EXCEPT ![t] = s]
        /\ built' = [built EXCEPT ![s] =
                       [domain |-> domain[t], via |-> Via[domain[t]]]]
    /\ pc' = [pc EXCEPT ![t] = "write"]
    /\ UNCHANGED <<now, tor_socks, idle, domain, reused, used, unread>>

BuildFails(t) ==
    /\ pc[t] \in {"build", "handshake"}
    /\ pc' = [pc EXCEPT ![t] = "failed"]
    /\ UNCHANGED <<now, tor_socks, idle, domain, held, reused, built, used, unread>>

(* exchange_dot writes the query; the response is owed from here on. *)
Write(t) ==
    /\ pc[t] = "write"
    /\ pc' = [pc EXCEPT ![t] = "read"]
    /\ unread' = unread \cup {held[t]}
    /\ UNCHANGED <<now, tor_socks, idle, domain, held, reused, built, used>>

(* release: at MAX_PER_KEY the stream is dropped instead. *)
Released(k, s) ==
    IF Len(idle[k]) >= MAX_PER_KEY
      THEN idle
      ELSE [idle EXCEPT ![k] = Append(@, DotConn(s))]

ReadOk(t) ==
    /\ pc[t] = "read"
    /\ idle' = Released(KeyOf(domain[t]), held[t])
    /\ held' = [held EXCEPT ![t] = NoStream]
    /\ unread' = unread \ {held[t]}
    /\ reused' = reused \ {t}
    /\ pc' = [pc EXCEPT ![t] = "answered"]
    /\ DropClosed({held[t]})
    /\ UNCHANGED <<now, tor_socks, domain>>

\* Mutant: the stream goes back to the pool whatever the result was.
Fails_Repools(t) ==
    /\ pc[t] \in {"write", "read"}
    /\ idle' = Released(KeyOf(domain[t]), held[t])
    /\ held' = [held EXCEPT ![t] = NoStream]
    /\ reused' = reused \ {t}
    /\ pc' = [pc EXCEPT ![t] = IF t \in reused THEN "build" ELSE "failed"]
    /\ UNCHANGED <<now, tor_socks, domain, built, used, unread>>

\* Mutant: the failure of a reused connection is the caller's.
Fails_NoRetry(t) ==
    /\ pc[t] \in {"write", "read"}
    /\ held' = [held EXCEPT ![t] = NoStream]
    /\ unread' = unread \ {held[t]}
    /\ pc' = [pc EXCEPT ![t] = "failed"]
    /\ UNCHANGED <<now, tor_socks, idle, domain, reused, built, used>>

\* Mutant: every failed connection is replaced.
Fails_RetriesForever(t) ==
    /\ pc[t] \in {"write", "read"}
    /\ held' = [held EXCEPT ![t] = NoStream]
    /\ unread' = unread \ {held[t]}
    /\ pc' = [pc EXCEPT ![t] = "build"]
    /\ UNCHANGED <<now, tor_socks, idle, domain, reused, built, used>>

(* A framing error, a timeout, or a response that does not verify: the     *)
(* stream is dropped, and a reused one is replaced, once.                  *)
Fails(t) ==
    /\ pc[t] \in {"write", "read"}
    /\ held' = [held EXCEPT ![t] = NoStream]
    /\ unread' = unread \ {held[t]}
    /\ reused' = reused \ {t}
    /\ pc' = [pc EXCEPT ![t] = IF t \in reused THEN "build" ELSE "failed"]
    /\ idle' = idle
    /\ DropClosed({})
    /\ UNCHANGED <<now, tor_socks, domain>>

(* The future is dropped while it awaits, and its stream with it. *)
Cancel(t) ==
    /\ pc[t] \in {"build", "handshake", "write", "read"}
    /\ held' = [held EXCEPT ![t] = NoStream]
    /\ unread' = unread \ {held[t]}
    /\ reused' = reused \ {t}
    /\ pc' = [pc EXCEPT ![t] = "cancelled"]
    /\ idle' = idle
    /\ DropClosed({})
    /\ UNCHANGED <<now, tor_socks, domain>>

(* The caller comes back with its next query. *)
Return(t) ==
    /\ pc[t] \in {"answered", "failed", "cancelled"}
    /\ pc' = [pc EXCEPT ![t] = "ready"]
    /\ reused' = reused \ {t}
    /\ domain' = [domain EXCEPT ![t] = NoUser]
    /\ UNCHANGED <<now, tor_socks, idle, held, built, used, unread>>

Clock ==
    /\ now < MaxTime
    /\ now' = now + 1
    /\ UNCHANGED <<tor_socks, domain, pool>>
-----------------------------------------------------------------------------
Exchange(t) ==
    \/ Take(t) \/ Connect(t) \/ Build(t) \/ BuildFails(t)
    \/ Write(t) \/ ReadOk(t) \/ Fails(t)

PoolNext ==
    \/ \E t \in Task :
         \/ \E d \in Domain : Ask(t, d)
         \/ Exchange(t) \/ Cancel(t) \/ Return(t)
    \/ Clock

PoolSpec == PoolInit /\ [][PoolNext]_poolVars

(* connect_stream and exchange_dot run under a timeout, so an exchange goes *)
(* on from there.  Nothing makes a peer finish the SOCKS or TLS handshake,  *)
(* and callers need not come back.                                         *)
FairPoolSpec ==
    /\ PoolSpec
    /\ WF_poolVars(Clock)
    /\ \A t \in Task : WF_poolVars(pc[t] # "handshake" /\ Exchange(t))
-----------------------------------------------------------------------------
\* A stream is in one place, in one slot of one bucket or in the hands of one
\* exchange, and one in a bucket owes no response: two queries never interleave
\* on one TLS stream, and none reads the answer of an earlier one, whatever
\* failed or was cancelled in between (take, release, exchange_pooled).
ExclusiveUse ==
    /\ \A t, u \in Task : held[t] = held[u] /\ t # u => held[t] = NoStream
    /\ \A t \in Task : held[t] \notin Pooled
    /\ \A k, l \in DotConnKey : \A i \in DOMAIN idle[k], j \in DOMAIN idle[l] :
         idle[k][i].stream = idle[l][j].stream => <<k, i>> = <<l, j>>
    /\ Pooled \cap unread = {}

\* "a tor query can only ever reuse a tor connection built for the same
\* forwarder" (dot_exchange), and a direct query a direct one.
CircuitIsolation ==
    \A t \in Task : held[t] # NoStream =>
        LET b == built[held[t]] IN
        /\ b.via = Via[domain[t]]
        /\ b.via = "tor" => tor_socks /\ b.domain = domain[t]

\* "A reused-connection failure is therefore transparent to the caller", and "a
\* freshly-built connection that also fails propagates the error (it is a real
\* upstream problem, not a stale-pool artefact)": when an exchange fails on a
\* stream, no query of any exchange was ever answered over that stream.
FailureIsUpstreams ==
    [][\A t \in Task : pc[t] \in {"write", "read"} /\ pc'[t] = "failed"
         => held[t] \notin used]_poolVars

\* "The retry budget is one": every exchange ends, unless it waits for ever for
\* a peer to finish the SOCKS or TLS handshake, which has no timer
\* (exchange_pooled, the factory of dot_exchange).
ExchangeEnds ==
    \A t \in Task :
        pc[t] = "take" ~> \/ pc[t] \in {"answered", "failed", "cancelled"}
                          \/ [](pc[t] = "handshake")
=============================================================================
