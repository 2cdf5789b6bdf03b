# A TLA+ verification of dnsd

dnsd is a recursive and forwarding DNS resolver written in Rust on tokio. This
directory holds TLA+ modules translated from its source, the TLC
configurations that check them on small instances, and TLAPS proofs of the
central invariants for every instance. Source paths below are relative to the
repository's `src/`.

## Inventory

| component | state | operations | what is hard | what makes it correct |
|---|---|---|---|---|
| trust anchors, `recursor/anchor.rs` | key list on disk, anchor file, `TrustAnchorSwap` per handler | bootstrap, load, hourly `tick`, `apply_refresh` | two files saved one after the other; failed writes and crashes between them; every SIGHUP adds a refresh task | no key trusted before its hold-down; revocation sticks and takes effect; removal only by REVOKE; hold-downs complete |
| `atomic_write`, `recursor/anchor.rs` | live path, `.tmp` sibling | create, write, fsync, rename, directory fsync | power loss, concurrent reader, second writer | a reader or a restart sees one whole version |
| query pipeline, `recursor/mod.rs` | response cache, failed-walk cache, in-flight map, readiness gate | `handle_bytes` and its DNS64, PTR, iterative and forwarder branches | everything read before an `.await` may be stale after it | AD only for Secure; Bogus never leaks; queries for one question do not walk side by side or again; every query answered |
| UDP multiplexer, `recursor/forwarder.rs` | `(peer, txid)` pending map, oneshots | register, send, demux, time out, drop, fall back | late, lost, duplicated datagrams; TXID reuse; cancelled futures | no slot wedged; no future gets what another waits for; every query ends |
| DoT pool, `recursor/dot_pool.rs` | idle connections per key | take, release, rebuild once | ageing, failed reuse, Tor isolation | a stream has one user and one circuit family; a pooled stream owes nothing; a failure is the upstream's, not the pool's |
| startup and reload, `main.rs`, `handler.rs`, `io/udp.rs`, `io/tcp.rs` | live handler, listener table, ACL cells, sockets, published views | SIGHUP, build, swap, diff, hot-swap, bind, publish; accept and serve | a reload in several awaits while listeners serve; shared cells | listeners, handler and views agree between reloads; ACL changes reach open connections; no signal lost |
| iterative walker, `recursor/iterative.rs` | tree of walk futures, budgets, name-server entries in the response cache, root hints in memory and on disk | walk, race name servers, glueless sub-walks, CNAME chase, prime | cyclic and lame delegations; futures dropped half-way; what is cached in the middle of a walk | every question ends; nothing of a dropped walk goes on; no root set without a usable server is ever made by priming |
| validator, `recursor/dnssec.rs`, delegation cache | DNSKEY caches, delegation cache, anchors | build the chain, prefetch keys, verify step by step, denial proofs | caches older than the DS, the keys or the anchor; lost fetches; concurrent validations | verdict matches the zones; only proven links are reused |
| connections, `io/tcp.rs`, `io/dot.rs`, `io/doh.rs`, `io/udp.rs` | bytes read ahead, request count, streams, permits | accept, read, frame, check, answer, close | requests split and merged by reads; streams out of order; reloads in between | own message, one answer, announced close, no permit lost, nothing left in a buffer |
| I/O threads, `worker.rs` | threads, round-robin counter | spawn, pick, shut down | start-up that fails half-way; counter that wraps | no thread left behind, no request on a dead one |
| pure rules: TTL of a cached response, RRSIG window, denial proofs, DNS64 addresses | none | functions of a message or a configuration | boundaries, wrap-around, octet positions | agree with a reference definition |
| DDR, local zones, ipv4only, normalisation, 0x20, rate limiter, ACME, control socket, cookies | little or none | stateless responders, external services, I/O | byte formats | see `PROJECT.json` |

`PROJECT.json` lists every component with its status, every hazard at its
line, the definition-to-source map and the runs with their mutants.

## Modules

* **`Anchor`** – one refresh task per handler, the clock, the root zone, the
  operator and crashes. `tick` is five steps (`Fetch`, `Roll`/`Refuse`,
  `SaveState`, `SaveAnchor`, `Publish`), because it awaits a query and does two
  fallible writes; start-up is `LoadAnchors`, or `BootAnchor` then `BootState`.
  `first` and `granted` are history variables that say when a key was first
  seen in a validated RRset and who granted the others.
* **`AtomicFile`**, **`AtomicWrite`** – the promise `Anchor` relies on, and the
  code down to names, inodes, handles and unsynced data. `AtomicWrite` with one
  writer implements `AtomicFile` (refinement mapping `Abstract`).
* **`Resolver`** – `handle_bytes`: one action per access to shared state. The
  walker, the validator and the forwarders answer anything their callers can
  see. Responses carry where they came from, as history.
* **`UdpMux`** – query futures, the demux task and the network meet at the
  pending map. `Cleanup` is a step of its own because the guard takes the lock
  after the future has ended or was dropped. A datagram carries, as history, the
  future and the attempt that asked for it.
* **`DotPool`** – `take`, the connection factory, the exchange and `release`
  for concurrent exchanges. The factory is two steps: `Connect`, which has a
  timer, and the SOCKS and TLS handshake (`Build`), which has none. A stream
  carries the domain and route it was built for and whether a query was answered
  over it, which the code does not record.
* **`Reload`** – the main task's reload split at its awaits and at each store
  into a shared cell, with datagrams and connections served in between.
* **`Walk`** – `resolve_with_chain` on its plaintext path. The walks of a
  question form a tree, one record per future: `Start` finds the closest cached
  zone, `Send`/`Lost`/`Answer` are the race of `query_ns_set` and the branches on
  `classify`, `Refer` and `SubDone` are `resolve_ns_ips` with the sub-walks it
  launches, `Deadline` its timer, `Chase`/`Chased` the CNAME loop. `Prime` and
  `Restart` are the root hints. What servers say is a constant (`Reply`). The
  name servers of a referral are a set: their order is the server's choice, and
  one listed twice counts once.
* **`Validator`** – `resolve_validate_cache` around `validate_walk`: the chain a
  walk hands over, shortened by the delegation cache (`WalkChain`); root keys
  (`Splice`, `RootKeys`); the concurrent prefetch (`Lookup`, `Fetched`,
  `FetchLost`); one `VerifyStep` per delegation; intermediate zones (`Boot*`);
  the answer, and the caches filled by `Verdict`. Keys and signatures are
  symbolic. Replies are genuine, badly signed or lost. Each delegation has a
  lifetime of its own (`DsTtl`). The root operator changes the signing key
  (`RollRoot`) and the refresh task the anchors (`ReplaceAnchor`) independently,
  and a validation keeps the anchors it began with.
* **`Denial`**, **`Dns64`**, **`Policy`** – pure operators: `validate_denial` with
  both proofs, `check_rrsig_validity` over words of `W` values, `embed_v4` and
  its inverse, `compute_ttl`.
* **`Listener`** – one client of one listener of any protocol. Requests travel as
  units, so that a read may return part of a head, or a head with the beginning
  of the next request. HTTP checks are `Refusal`, in the order of the code. What
  `handle_bytes` makes of a message is an attribute of the request: an answer,
  one too long, or none because it does not parse or the peer is rate limited.
  A GET has no body (a client that gives one a `Content-Length` is left out), and
  a response is written in one step, where the code awaits the write without a
  timer.
* **`VclPool`** – the I/O threads. **`Frontend`** composes the two: a listener is
  bound on the worker it is dealt, and the end of that thread drops its tasks.
* **`Decisions`** – draws one question of a topic and lets the operator of these
  three modules answer it.
* **`ResolverProofs`**, **`WalkProofs`**, **`ValidatorProofs`**,
  **`DecisionsProofs`** – the theorems about the module each is named for.
  **`ControlProofs`** is about `Anchor`, `AtomicWrite` and `Reload`,
  **`UpstreamProofs`** about `UdpMux` and `DotPool`. **`ListenerProofs`** has the
  connections of `Frontend`, **`FrontendProofs`** its streams, datagrams and
  promises.
* **`MC_*`** – instances for TLC. Definitions named `X_Something` beside a
  definition `X` are mutants of it, variants a plausible bug would produce;
  they are used only to show that a property can fail.

Apart from `Frontend` the modules share no variables: `Anchor` uses
`AtomicWrite`'s promise as an assumption; `Resolver` abstracts `Walk`,
`Validator`, `UdpMux` and `DotPool` to their results; `Walk` relies on every
upstream query ending (`EveryQueryEnds` of `UdpMux`) and `Listener` on
`handle_bytes` returning (`EveryQueryAnswered` of `Resolver`); `Validator` takes
the replacement of an anchor from `Anchor`; `Reload` abstracts the handler to
its version.

## Runs

All runs pass. Deadlock is checked except where the system really comes to rest:
`udpmux`, `walk` and `validator` (all futures have ended), `frontend` (threads
have ended) and `decisions` (one decision).

| run | instance | shows |
|---|---|---|
| `anchor_single` | 1 task, 2 KSKs and a ZSK, hold-down 2 of 4 ticks, 1 crash, operator edits | hold-down as an inductive invariant, revocation, removal |
| `anchor_live` | 1 task, 3 KSKs, hold-down 2 of 3 ticks, 1 crash | revocation takes effect; hold-downs complete |
| `atomicwrite_one` | 1 writer, 2 versions, 2 blocks, 4 inodes | refinement of `AtomicFile`, whole reads |
| `resolver_iterative` | 2 queries, A and AAAA, `validate`, DNS64 on and off | AD and Bogus, coalescing with the in-flight map swept at a cap of 2, no repeated walk, every query answered |
| `resolver_forward` | 2 queries, AAAA and PTR, `strip`, DNS64 on and off | AD and synthesis when paths share the cache |
| `udpmux` | 3 futures, two of them for one name, 2 servers, 1 TXID | slots, stray answers, termination |
| `dotpool` | 2 exchanges, a direct and two Tor domains, 3 streams, buckets of 1, idle cap 1, lifetime cap 2, 2 ticks | isolation, exclusive use of a stream that owes nothing, no failure of a stream that once worked, termination but for the handshake |
| `reload` | 4 configs (one rejected), 2 addresses, 2 protocols, 2 peers, 1 connection, 2 edits | agreement between reloads, no orphan, ACL re-check, no lost signal |
| `walk` | 5 delegation trees, a question budget of 2 referrals, 5 queries and 2 CNAMEs, sub-walks of 2, 3 and 0, two levels of sub-walks, 2 servers raced of at most 3, 2 questions or restarts, 1 expiry, a hints file that is missing, of both families or of IPv6 only | usable upstreams, no orphans, answers are chains, every walk ends |
| `validator` | 2 concurrent validations, up to 3 in all, two delegations below the root, every signing fault at either, servers that skip 0 to 2 delegations, delegations of lifetimes 1 and 3, roll of a zone's and of the root's key, anchor replaced, losses, caps of 2 and 1 | verdicts, also during a roll-over, proven links only, revoked anchor forgotten, complete chains |
| `frontend` | pool of 3, 2 listeners, counter that wraps at 3, each protocol, 3 requests, 1 reload, 2 requests per connection, heads of 4 units, bodies of 2, reads of 3, 2 streams, 1 permit, rate-limited requests, socket errors | framing and one answer each, no silent drop or unannounced close, permits, requests and threads end |
| `decisions` | zones of up to 6 names with every choice of records, all orders of 6 hashes, every time of a word of 16 with skew 2, small TTLs, every pair of prefix lengths | the pure rules against reference definitions |

Two actors are enough for the pairwise races the code has: it synchronises on
one file pair, one mutex per question, one map slot or one bucket at a time;
what is proved holds for any number. The hold-down is shorter than the clock's
range so that keys are both promoted and dropped while pending. Three streams
let both exchanges hold one while a third is pooled; with none left to build,
an exchange fails as it does when a connect fails. A reload may overlap with a
second edit and a second signal. In `walk` the budgets are small enough to run out on
the circular trees and large enough for the well-formed ones to be answered;
`MaxNest` cuts sub-walks inside sub-walks, which is the model's bound: each
sub-walk of the code has a budget of its own, and only the deadline of 2.5 s of
the outermost `resolve_ns_ips` ends the nesting. In `udpmux` every future draws
the same TXID, so that each late answer meets the next user of its slot. In
`validator` the parent's delegation expires before its child's, and the caches
are smaller than the number of zones, so that eviction happens, and the clock
passes every lifetime. In `frontend` a read returns more than a head and less than two requests, the budget of a
connection is smaller than the requests sent, and bodies can exceed their cap.
Every bound is a named constant (`MaxTime`, `MaxCrash`, `MaxEdits`, `MaxAsks`,
`MaxSends`). Symmetry is used in runs without liveness only.

Some properties are narrower than their names. `VerdictIsRight` speaks of
faults that last; during a roll-over it speaks of walks that took all
delegations from the parents. In `Denial` the records are parts of the zone's
own chain, and the names the run asks for do not begin with `*`. `DenialIsExact`
names two kinds of NXDOMAIN proof that overlook a wildcard
(`WildcardOverlooked`), and speaks of honest denials outside the gaps listed
below. `SignatureWindow` asks for the window of RFC 1982 in one direction at all
times and in the other away from the end of the epoch (`AtEpochEnd`).
`OneUpstreamPerQuestion` is about queries that ask the same question: the A that
a DNS64 listener looks up after an empty AAAA takes no lock. `NoSilentDrop`
excuses, beside what the code closes without an answer, queries that do not
parse and rate-limited ones on UDP, TCP and DoT. `OutsidersAreBooted` speaks of
listeners that stay, `PermitsBalanced` of one limit, `TtlIsHonest` not of what
`min_ttl` asks for. `VerdictIsRight` allows Bogus after a loss, never Secure.
`NothingLeftBehind` speaks of requests sent to the last byte.

### Where text and code differ

The modules follow the code in all of these. The first four were found as
counterexamples to properties of larger instances (two refresh tasks; a
validating handler with a forwarder for reverse names; a pool with its
lifetime cap as an invariant; configurations that split a listener).

* `recursor/anchor.rs:566`: every SIGHUP adds a refresh task and none is
  aborted. Two ticks load one state file and the slower write undoes the
  revocation recorded by the faster one (251: "keep until the next refresh
  proves they're gone. Then prune."). `RevocationSticks` is checked for one task.
* `recursor/mod.rs:1348`: `resolve_forwarded` caches a forwarder's AD bit, which
  a direct query is then served under `validate` (558: "forwarded responses will
  return AD=0"). `VerdictGoverns` is checked with forwarders under `strip`.
* `recursor/dot_pool.rs:283`: each release stamps `created_at` afresh, so a busy
  connection outlives `MAX_LIFETIME` (63: "Hard cap on the lifetime").
* `main.rs:797`: the protocols of a listener share one ACL cell. When a reload
  splits the listener per protocol, both allow-lists go into that cell in
  `HashMap` order (`handler.rs:26`: "takes effect on the next packet").
* `recursor/mod.rs:1222`: a step read from the delegation cache is inserted again
  with a whole lifetime, so an entry in use does not expire at its cap
  (`recursor/iterative.rs:121`).
* `recursor/iterative.rs:147`: "Only fully-Secure walks populate the cache"; the
  validated prefix of any walk does (912).
* `recursor/iterative.rs:487`: a referral should descend; one to the root is
  accepted (496). `recursor/iterative.rs:564`: `ServFail` ends the walk, where the
  enum says "caller should try another NS" (1287).
* `recursor/iterative.rs:52` says that sub-walks "share the same budget"; each
  has its own (752).
* `recursor/iterative.rs:1169`: the root hints are renamed into place without an
  fsync, unlike the anchor files.
* `recursor/dnssec.rs:1593`: the last NSEC interval of a zone does not wrap
  around to the apex, nor does the single NSEC3 interval of a zone with one
  name (1852), so an honest NXDOMAIN in them is Bogus.
* `recursor/dnssec.rs:1552`: the wildcard to deny is the one "at the closest
  encloser (proves no `*.enc`)". With NSEC each record yields an encloser of its
  own, so that the denial of another wildcard is enough; with NSEC3 a record that
  matches the wildcard, which shows that it exists, counts as its denial (1783).
* `recursor/dnssec.rs:1911`: "RFC 1982 serial-number arithmetic handles 2106
  wrap-around"; the comparisons are plain and the sums wrap in a release build
  (they panic in a debug build), so that valid signatures are rejected within the
  skew of the wrap and in windows that span it.
* `recursor/mod.rs:1048`: the A lookup of a DNS64 listener takes neither the lock
  nor the caches of the A question (144: "multiple callers passing the same
  (name, rtype) get the same Arc<Mutex>").
* `recursor/forwarder.rs:1347`: an answer is compared by server, TXID and name,
  and not by QTYPE or QCLASS: a late answer for another type of the same name
  is taken by the future that draws its TXID next.
* `recursor/forwarder.rs:224`: nothing bounds the SOCKS and TLS handshakes of a
  DoT forwarder; `exchange_dot` is given its own timer instead of the "single
  timeout" around "the whole acquire+exchange" (`recursor/dot_client.rs:110`), and
  `handle_bytes` has no outer one (`recursor/mod.rs:805`). A query may hang there,
  with the lock of its question.
* `recursor/iterative.rs:257`: a hints file with IPv6 addresses only, left by a
  process with `ipv6_upstream` on, starts one with it off without roots, and
  priming then has no seed (1057), where 1044 counts on "the hardcoded IPs".
* `recursor/cache.rs:138`: `max_negative_ttl` gives way to a larger `min_ttl`.
* `io/tcp.rs:5` speaks of out-of-order answers; queries are served one by one.
* `io/doh.rs:269` calls the keep-alive timer shorter; it is 30 s against 8 s. The
  read of a POST body (464) has no timer.
* `recursor/anchor.rs:629` keeps the last RRSIG only, where the comment at 608
  speaks of "the (single) RRSIG". A hold-down completes only if a trusted key's
  signature comes last now and then (`Rotating`).
* `recursor/anchor.rs:597`: an I/O error in the second save leaves a key that is
  revoked on disk in the swap until a later tick; the header says it comes out
  "immediately".
* `recursor/anchor.rs:566`: the state file overrides an anchor file edited by
  hand, which `recursor/mod.rs:615` calls "the source of truth".
* `recursor/anchor.rs:381`: two writers share one temporary name and can tear
  the live file ("never half-written", 310).
* `recursor/mod.rs:158`: at its cap the in-flight map drops a mutex in use, so
  two walks may run for one question (144 promises one mutex).
* `recursor/mod.rs:976`: a DNS64 follower whose name has no A walks again
  (1157: "without burning a fresh walk").
* `recursor/iterative.rs:845`: unvalidated glue enters the response cache
  (365: "we DON'T cache here").
* `recursor/forwarder.rs:420`: a late `Cleanup` removes the entry of the query
  that reused its key, and that query moves on to its next server (398: "so the
  original gets its response"). `recursor/forwarder.rs:401`: a TXID collision is
  not retried with a fresh TXID (400).
* `recursor/dot_pool.rs:211`: `sweep` has no caller, so the idle connections of
  a quiet key stay open (209).
* `main.rs:1093`: open connections of a removed listener keep being served with
  the list they had (`io/tcp.rs:129`). `main.rs:997`: the forwarder table is
  shown before the handler build that may fail (995). `main.rs:1053`: the new
  handler starts with empty failed-walk and in-flight maps (the repository's
  README, line 119: "carries over").

## Fairness

* `Anchor`: the runtime schedules tasks, the ticker and the clock go on (weak
  fairness); a read, write or verification that is possible again and again
  succeeds now and then (strong fairness of `Roll`, `SaveState`,
  `SaveAnchor`), which is what the hourly retry relies on. `HoldDownCompletes`
  has a hypothesis, `Rotating`: each signature is the last one of an answer now
  and then. It is a matter of the root servers, not of the code.
* `Resolver`: an upstream call returns (weak fairness of `Handle`); tokio's mutex
  is FIFO (strong fairness of `Lock`). The walks of `resolver_iterative`, the run
  that checks liveness, have timers; a forwarder over DoT does not while it
  builds a connection, so `EveryQueryAnswered` says nothing of it.
* `UdpMux`: futures are polled and all waits have timeouts. Nothing is assumed of
  the network or of callers.
* `DotPool`: the same, except in the handshake, from which no fairness is
  assumed; `ExchangeEnds` shows that an exchange can hang nowhere else.
* `Walk`: futures are polled, upstream queries end (`UdpMux`), and time passes
  for the outermost `resolve_ns_ips` that waits. Priming and restarts need not
  happen.
* `Frontend`: the tasks of a live runtime are polled, `handle_bytes` returns (but
  for the DoT forwarders above), and a thread told to stop wakes up. A UDP loop that can read again and again does
  so between socket errors (strong fairness). Readiness of a socket is
  level-triggered: that of tokio and the reactor is external. Clients may stop at
  any point.
* `Reload`: the main task runs. `from_parts` may fail at every reload.

## Proofs

Each theorem holds for every value of the constants that satisfies the named
assumption of its module (`AnchorAssumption`, `ResolverAssumption`, ...), which
TLC evaluates in the runs. `PROJECT.json` lists the theorems. The proofs use
Zenon by default, and name SMT in the steps that need arithmetic, sequences or
records. Every invariant and action property of the runs is proved; where the
theorem has a hypothesis, it is named below.

**Anchors.** `HoldDownRespected` holds for any number of tasks. `NoEarlyTrust`
alone is not inductive: a tick's list is computed from the state file and
published two writes later, possibly after another task has rewritten it.
`AnchorInv` adds that every list, on disk or held by a tick, is *sound*: its
active keys are earned, and its pending keys are dated no earlier than their
first validated sighting. `RevokedStaysRevoked` and `ActiveLeavesRevoked` are
action properties and assume one task, since two can undo a revocation (see
above). `WriteInv` says that the list a tick is about to save follows from the
file as it still is.

**Atomic files.** With one writer, `WriteInvariant` says which inode each name
leads to and how much of it is written and synced at each step of the writer; a
published inode never changes again. `ReadsWhole` and `ImplementsAtomicFile`
rest on it; the latter maps every step to a step of `AtomicFile` or a stutter.
With two writers both fail (see above).

**Resolver.** `ServeInvariant` (types, and synthesised data only where DNS64 is
on) gives `SynthesisStaysPerListener`. `VerdictGovernsServed` adds that AD=1 means
judged Secure in what the cache replays and in what is held across an await
(`HonestInv`); its hypothesis is that a validating handler has no forwarder for
reverse names. `UpstreamsAreExclusive` assumes no more clients than
`IN_FLIGHT_CAP`: then, by counting, a full map has an entry nobody uses and the
sweep makes room, so the mutex a query holds stays the one of its question
(`LockInv`, the theorem `LockInvariant`). `WalksAreNotRepeated` has the same
hypothesis: only the holder of a question's mutex puts an answer to it, glue and
the A of a DNS64 follow-up aside, so that what it saw at its second look still
holds when it starts to walk (`ReuseInv`). Without either hypothesis the code
differs (see above).

**UDP multiplexer.** `SlotNotWedged` needs `SenderIsGone`: a future whose oneshot
was used or closed is not in the map any more, so disarming its guard leaves
nothing behind. `StrayAnswersAreStale` needs `KeyIsCurrent` (the key an answer is
compared with is that of the server being tried) and `StrayInv`: while an attempt
waits it owns its slot, so that a datagram for the slot reaches nobody else, and
a datagram held by another future was asked for by an attempt that no longer
waits for it.

**DoT pool.** `ExclusiveUse` and `CircuitIsolation` are inductive together with
`BuiltForKey` (a stream in a bucket was built as the bucket's key says) and
`ExchangeState` (what each step of an exchange holds). `FailuresAreUpstreams` adds
`UsedInv`: a stream that has answered is in the pool or held by an exchange that
took it from there, and so has a retry left.

**Reload.** `ReloadInvariant` says at each step of a reload which listeners,
cells and sockets are already new and which still old (`Progress`,
`PendingIsNew`), and that only protocols of one listener share a cell
(`CellsAreShared`). `ListenersFollowConfig` and `DroppedPeersAreBooted` assume
`NoSplit`: protocols that were one listener have one allow-list in every
configuration. `SocketsAreTracked` has no hypothesis.

**Walk.** `WalkInvariant` has three parts. The walks form a forest: each sub-walk
is awaited, a CNAME chase awaits one, and a name server still to be looked up
has no walk yet. Four lemmas cover all its changes (`GoesOn`, `StillWaits`,
`SubWalksStart`, `Pruned`). Every address held by a walk, the name-server cache
or the root set may be asked. Answers are chains. `NothingIsOrphaned` needs no
hypothesis, nor does `ServersAreUsable`, which allows an empty root set only in a
process whose hints file has no usable address. `AnswersAreChains` assumes that each reply is a
chain (`ChainsFromServers`), which the code takes over unchecked.

**Validator.** `ValidatorInvariant` says that what a validation trusts, fetched
or took from a cache belongs to zones that are not at or below the broken link,
in every scenario in which one link does not verify, and that a chain has the
shape the skipped delegations leave. It gives `OnlyProvenLinks` and
`ChainsAreComplete`. `RevokedKeysExpire` has an invariant of its own, `RevInv`: a
bound on each lifetime in the positive cache, and of the validations under way,
that they see at most one tick and that one which still has the old anchor when
it fetches the root's keys began before the replacement (`Timely`).

`VerdictIsDeserved` is `VerdictIsRight` for any number of validations, lifetimes,
cache sizes and losses. Its invariant, `RightInv`, says what each piece of a
validation may be in a scenario: the signatures and DS sets of a walk's steps
(`WalkRight`), the keys in a cache or in the chain of trust (`KeysRight`,
`ChainRight`), what the prefetch brought and that a loss is still ahead of the
verification (`LoopRight`). For a roll-over it ties a walk to a stage: the walk
saw the present stage, or the one before it in the hour it began in (`SeenAt`),
so that the keys its DS covers are among those that sign the answer. The
delegations are those of the module, two below the root, and the scenarios those
of `ValidatorAssumption`. The one excluded there by hand is a roll-over below two
skipped delegations: the walk then has no DS that would show the zone's cached
keys outdated, and an answer signed with a new key is not Secure until they
expire.

**Listeners.** `ListenerShape` (`ShapeInv`) has the types and what is empty where.
`ConnectionsInStep` (`StreamInv`) is about a connection served one request at a
time: what the server has not used up yet, read ahead or still on the wire, is
the frames of the requests sent, laid end to end from an offset that its place in
the loop determines (`Laid`, `AtRequest`). Offsets are given by a function
(`Starts`) in the invariant, so that no recursive definition is needed, and a read
moves along the sequence whatever its size. `StreamsInStep` (`StreamsInv`) says
the same of HTTP/2, where frames of several requests interleave: the units of
one request are in order, with one end. `DatagramsInv` says that a datagram in
the queue has no task and no answer yet. They give `FramingNeverSlips`,
`PermitsAreBalanced` and, with `KeepAliveInv` (the count of requests is the number
of responses and one) and `AnsweredInv`, `NothingDroppedInSilence`.
`ListenerAssumption` says what a request is: heads and bodies of any length, a
GET without a body, caps of any size.

**Pure rules.** `DecisionInv` says that an answer is the one its operator gives;
the theorems are about the operators. `DenialsAreExact` holds for every finite
zone over any labels and every injective hash of the names involved
(`ZoneAssumption`): the canonical order is a strict total order, shown from the
first label in which two names differ; an interval of the chain has no name of
the zone inside, and outside the last gap each other name lies in one; the
closest encloser the code finds is the zone's. `WindowIsRight` holds for every
word size and every skew below a sixth of it, `LifetimesAreHonest` for every cache configuration and
message. `PtrLeadsBack` goes through the prefix lengths, for each of which the
octets of the IPv4 address have fixed positions (`NumberAssumption`).

Only model-checked: the liveness properties `RevocationTakesEffect`,
`HoldDownCompletes`, `EveryQueryAnswered`, `EveryQueryEnds`, `ExchangeEnds`,
`LastEditIsApplied`, `WalkEnds` and `NothingLeftBehind`. They rest on fairness and
ENABLED, which are out of the prover's reach.

## Not modelled

Message formats and cryptography; the stateless responders (DDR, local zones,
`ipv4only.arpa`) and name normalisation; the token buckets of the rate limiter,
which act on one lock and a clock; ACME, which is a conversation with an
external authority; the configuration (YAML parsing, the checks on its fields,
among them which servers a forwarder may mix), and the `--vrf` slices, which a reload does not
apply again (`main.rs:972`); the TLS rebuild of a reload; the byte framing of
SOCKS5 and of the control socket; socket set-up; the LRU bound of the response
cache, which belongs to the cache library. Outside `Validator` and `DotPool`
time to live is abstracted to expiry at any time. `Walk` leaves out the DNSSEC
records a walk collects, which `Validator` has.

## Plan

Done, in this order: `Anchor`, `AtomicWrite`, `Resolver`, `UdpMux`, `DotPool`,
`Reload`, the first two proof modules, `Walk`, `Validator`, `Denial`, `Dns64`,
`Policy`, `Listener`, `VclPool` and their composition `Frontend`; the theorems
about `AtomicWrite`, `DotPool`, `Reload`, `Resolver`, `Validator` and `Walk`;
`VerdictIsDeserved` and the theorems about `Frontend` and `Decisions`.

Next:

1. `Validator` composed with `Anchor`, and `Resolver` with the handler swap of
   `Reload`.
2. The suffix match of the forwarder table and the keys of the rate limiter.
