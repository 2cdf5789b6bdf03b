------------------------------- MODULE Anchor -------------------------------
(***************************************************************************)
(* The DNSSEC trust-anchor lifecycle of src/recursor/anchor.rs: the RFC    *)
(* 5011 state machine, the two files it persists, the refresh tasks that   *)
(* roll it, and the start-up code of RecursorHandler::from_parts that      *)
(* loads or bootstraps the anchors.                                        *)
(*                                                                         *)
(* Abstractions.                                                           *)
(*  - A DNSKEY is a member of Key, standing for (zone, algorithm, public   *)
(*    key), which is what apply_refresh matches on.  Its flags are its     *)
(*    membership of Sep and the REVOKE bit carried by an observation.  An  *)
(*    RRset lists a public key at most once.                               *)
(*  - A list of ManagedKeys is a function from Key to statuses.            *)
(*  - The files are written atomically (module AtomicWrite refines this).  *)
(*  - root is the DNSKEY RRset the root zone serves (external).  A         *)
(*    response carries the one signature the code looks at.                *)
(*  - Every SIGHUP builds a new handler with its own AnchorSwap and its    *)
(*    own refresh task, and no refresh task is ever aborted, so several    *)
(*    tasks may share the two files.                                       *)
(***************************************************************************)
EXTENDS Naturals

CONSTANTS
    Key,            \* public keys that can occur in the root DNSKEY RRset
    Sep,            \* those with the secure-entry-point flag (KSKs)
    Embedded,       \* EMBEDDED_ROOT_KSKS
    Task,           \* refresh tasks one process can spawn
    NoTask,         \* no handler is live
    HoldDown,       \* DEFAULT_HOLD_DOWN, in clock ticks
    MaxTime,        \* bound on the clock
    MaxCrash,       \* bound on the number of crashes
    RootMove,       \* triples <<k, from, to>>: how the root RRset may change
    OperatorFiles   \* the anchor files an operator may install by hand

RootStatus == {"absent", "standby", "signing", "revoked"}

ASSUME AnchorAssumption ==
    /\ Key # {}
    /\ Embedded \subseteq Key
    /\ Sep \subseteq Key
    /\ NoTask \notin Task
    /\ HoldDown \in Nat
    /\ MaxTime \in Nat
    /\ MaxCrash \in Nat
    /\ RootMove \subseteq Key \X RootStatus \X RootStatus
    /\ OperatorFiles \subseteq SUBSET Key

VARIABLES
    now,          \* the wall clock
    root,         \* what the root zone publishes
    exists,       \* which of the two files exist
    state_file,   \* the key list in <anchor>.state
    anchor_file,  \* the keys in the active anchor file
    pc,           \* where each refresh task is
    anchors,      \* each task's TrustAnchorSwap
    resp,         \* the response a task has fetched and not yet applied
    next,         \* the key list a task is persisting
    live,         \* the task whose swap the serving handler reads
    crashes,      \* crashes so far
    first,        \* history: when a validated RRset first listed the key
    granted       \* history: keys trusted by the build or by the operator

memory == <<pc, anchors, resp, next, live>>
files  == <<exists, state_file, anchor_file>>
ghosts == <<first, granted>>
vars   == <<now, root, files, memory, crashes, ghosts>>

(***************************************************************************)
(* Key statuses and files.                                                 *)
(***************************************************************************)
Absent         == [kind |-> "absent",  at |-> 0]
Active         == [kind |-> "active",  at |-> 0]
Revoked        == [kind |-> "revoked", at |-> 0]
PendingAdd(at) == [kind |-> "pending", at |-> at]
KeyStatus      == {Absent, Active, Revoked} \cup [kind : {"pending"}, at : Nat]
KeyList        == [Key -> KeyStatus]
NoKeys         == [k \in Key |-> Absent]
AllActive(ks)  == [k \in Key |-> IF k \in ks THEN Active ELSE Absent]

\* is_active(); the filter of render_anchor_file and from_managed_keys.
ActiveKeys(keys) == {k \in Key : keys[k].kind = "active"}

Never     == MaxTime + 1
Responses == [keys : [Key -> RootStatus], sig : Key]
NoResp    == [keys |-> [k \in Key |-> "absent"], sig |-> CHOOSE k \in Key : TRUE]
Steps     == {"none", "boot_state", "idle", "verify", "save_state",
              "save_anchor", "publish"}

\* Every variable ranges over the values the code gives it: a pending key carries
\* the natural-number time at which UnknownNext dated it.
TypeOK ==
    /\ now \in 0..MaxTime
    /\ root \in [Key -> RootStatus]
    /\ exists \in SUBSET {"state", "anchor"}
    /\ state_file \in KeyList
    /\ anchor_file \in SUBSET Key
    /\ pc \in [Task -> Steps]
    /\ anchors \in [Task -> SUBSET Key]
    /\ resp \in [Task -> Responses]
    /\ next \in [Task -> KeyList]
    /\ live \in Task \cup {NoTask}
    /\ crashes \in 0..MaxCrash
    /\ first \in [Key -> 0..Never]
    /\ granted \in SUBSET Key

(***************************************************************************)
(* apply_refresh: the next key list, from the prior one and a validated    *)
(* RRset.                                                                  *)
(***************************************************************************)
\* Mutant: the hold-down comparison is lost.
PendingNext_NoHoldDown(status, seen, time) ==
    IF seen = "absent" THEN Absent ELSE Active

\* Mutant: every sighting of a pending key restarts its hold-down.
PendingNext_Restarts(status, seen, time) ==
    IF seen \in {"absent", "revoked"} THEN Absent
    ELSE IF time >= status.at + HoldDown THEN Active ELSE PendingAdd(time)

\* A pending key must still be there, unrevoked, to be kept or promoted.
PendingNext(status, seen, time) ==
    IF seen \in {"absent", "revoked"} THEN Absent
    ELSE IF time >= status.at + HoldDown THEN Active ELSE status

\* Mutant: an active key that is missing from one response is removed.
ActiveNext_DropsAbsent(seen) ==
    IF seen = "revoked" THEN Revoked ELSE IF seen = "absent" THEN Absent ELSE Active

\* An active key stays until it is seen with the REVOKE bit.
ActiveNext(seen) == IF seen = "revoked" THEN Revoked ELSE Active

\* Mutant: the arms of active and revoked keys are one.
RevokedNext_AsActive(seen) == ActiveNext(seen)

\* A revoked key is kept until it is gone.
RevokedNext(seen) == IF seen = "absent" THEN Absent ELSE Revoked

\* A new, unrevoked KSK starts its hold-down.
UnknownNext(seen, sep, time) ==
    IF sep /\ seen \notin {"absent", "revoked"} THEN PendingAdd(time) ELSE Absent

Refreshed(status, seen, sep, time) ==
    IF status.kind = "pending" THEN PendingNext(status, seen, time)
    ELSE IF status.kind = "active" THEN ActiveNext(seen)
    ELSE IF status.kind = "revoked" THEN RevokedNext(seen)
    ELSE UnknownNext(seen, sep, time)

apply_refresh(prior, observed, time) ==
    [k \in Key |-> Refreshed(prior[k], observed[k], k \in Sep, time)]

(***************************************************************************)
(* Start-up (RecursorHandler::from_parts), at process start and on every   *)
(* SIGHUP.                                                                 *)
(***************************************************************************)
\* save_state and save_anchor_file.
WriteState(keys) == state_file' = keys /\ exists' = exists \cup {"state"}
WriteAnchor(ks)  == anchor_file' = ks /\ exists' = exists \cup {"anchor"}

\* The handler under construction has its anchors: its refresh task is
\* spawned and the handler becomes the live one.
Serve(t, ks) ==
    /\ anchors' = [anchors EXCEPT ![t] = ks]
    /\ pc' = [pc EXCEPT ![t] = "idle"]
    /\ live' = t
    /\ UNCHANGED <<resp, next>>

\* The anchor file exists: load it.  A file that cannot be read or parsed
\* leaves the handler without anchors.
LoadAnchors(t) ==
    /\ pc[t] = "none"
    /\ "anchor" \in exists
    /\ \E ks \in {anchor_file, {}} : Serve(t, ks)
    /\ UNCHANGED <<now, root, files, crashes, ghosts>>

\* The anchor file is missing: bootstrap_self_managed writes it first ...
BootAnchor(t) ==
    /\ pc[t] = "none"
    /\ "anchor" \notin exists
    /\ \/ /\ WriteAnchor(Embedded)
          /\ pc' = [pc EXCEPT ![t] = "boot_state"]
          /\ UNCHANGED <<anchors, resp, next, live>>
       \/ Serve(t, {}) /\ UNCHANGED <<exists, anchor_file>>
    /\ UNCHANGED <<now, root, state_file, crashes, ghosts>>

\* ... and then the state file, with every embedded key Active.
BootState(t) ==
    /\ pc[t] = "boot_state"
    /\ \/ /\ WriteState(AllActive(Embedded))
          /\ Serve(t, Embedded)
       \/ Serve(t, {}) /\ UNCHANGED <<exists, state_file>>
    /\ UNCHANGED <<now, root, anchor_file, crashes, ghosts>>

(***************************************************************************)
(* AnchorRefresh::tick.                                                    *)
(***************************************************************************)
Goto(t, step) == pc' = [pc EXCEPT ![t] = step]

\* The tick returns: its locals go out of scope.
Return(t) ==
    /\ Goto(t, "idle")
    /\ resp' = [resp EXCEPT ![t] = NoResp]
    /\ next' = [next EXCEPT ![t] = NoKeys]

\* The root answers `. DNSKEY`.  extract_dnskey_response keeps one RRSIG,
\* the last of those in the answer.  A failed query leaves the task idle.
Fetch(t, k) ==
    /\ pc[t] = "idle"
    /\ root[k] \in {"signing", "revoked"}
    /\ resp' = [resp EXCEPT ![t] = [keys |-> root, sig |-> k]]
    /\ Goto(t, "verify")
    /\ UNCHANGED <<now, root, files, anchors, next, live, crashes, ghosts>>

\* load_state, or the task's own active set on the first refresh.
PriorState(t) ==
    IF "state" \in exists THEN state_file ELSE AllActive(anchors[t])

\* The RRSIG verifies under one of the task's anchors: roll the machine.
Roll(t) ==
    /\ pc[t] = "verify"
    /\ resp[t].sig \in anchors[t]
    /\ next' = [next EXCEPT ![t] = apply_refresh(PriorState(t), resp[t].keys, now)]
    /\ first' = [k \in Key |-> IF first[k] = Never /\ resp[t].keys[k] # "absent"
                               THEN now ELSE first[k]]
    /\ Goto(t, "save_state")
    /\ UNCHANGED <<now, root, files, anchors, resp, live, crashes, granted>>

\* No anchor verifies it, or the state file cannot be read: keep the state.
Refuse(t) ==
    /\ pc[t] = "verify"
    /\ Return(t)
    /\ UNCHANGED <<now, root, files, anchors, live, crashes, ghosts>>

SaveState(t) ==
    /\ pc[t] = "save_state"
    /\ WriteState(next[t])
    /\ Goto(t, "save_anchor")
    /\ UNCHANGED <<now, root, anchor_file, anchors, resp, next, live, crashes, ghosts>>

SaveAnchor(t) ==
    /\ pc[t] = "save_anchor"
    /\ WriteAnchor(ActiveKeys(next[t]))
    /\ Goto(t, "publish")
    /\ UNCHANGED <<now, root, state_file, anchors, resp, next, live, crashes, ghosts>>

\* Mutant: the tick persists the new set and never stores it in the swap.
Publish_NoStore(t) ==
    /\ pc[t] = "publish"
    /\ Return(t)
    /\ UNCHANGED <<now, root, files, anchors, live, crashes, ghosts>>

Publish(t) ==
    /\ pc[t] = "publish"
    /\ anchors' = [anchors EXCEPT ![t] = ActiveKeys(next[t])]
    /\ Return(t)
    /\ UNCHANGED <<now, root, files, live, crashes, ghosts>>

\* An I/O error from either save ends the tick there.
SaveFails(t) ==
    /\ pc[t] \in {"save_state", "save_anchor"}
    /\ Return(t)
    /\ UNCHANGED <<now, root, files, anchors, live, crashes, ghosts>>

(***************************************************************************)
(* The environment.                                                        *)
(***************************************************************************)
Clock ==
    /\ now < MaxTime
    /\ now' = now + 1
    /\ UNCHANGED <<root, files, memory, crashes, ghosts>>

RootChanges ==
    /\ \E m \in RootMove :
          /\ root[m[1]] = m[2]
          /\ root' = [root EXCEPT ![m[1]] = m[3]]
    /\ UNCHANGED <<now, files, memory, crashes, ghosts>>

\* An operator who manages the file by hand installs a new one.
OperatorEdits ==
    /\ \E ks \in OperatorFiles :
          /\ WriteAnchor(ks)
          /\ granted' = granted \cup ks
    /\ UNCHANGED <<now, root, state_file, memory, crashes, first>>

\* The process dies: every task and swap is gone, the files stay.
Crash ==
    /\ crashes < MaxCrash
    /\ \E t \in Task : pc[t] # "none"
    /\ crashes' = crashes + 1
    /\ pc' = [t \in Task |-> "none"]
    /\ anchors' = [t \in Task |-> {}]
    /\ resp' = [t \in Task |-> NoResp]
    /\ next' = [t \in Task |-> NoKeys]
    /\ live' = NoTask
    /\ UNCHANGED <<now, root, files, ghosts>>

Init ==
    /\ now = 0
    /\ root = [k \in Key |-> IF k \in Embedded THEN "signing" ELSE "absent"]
    /\ exists = {}
    /\ state_file = NoKeys
    /\ anchor_file = {}
    /\ pc = [t \in Task |-> "none"]
    /\ anchors = [t \in Task |-> {}]
    /\ resp = [t \in Task |-> NoResp]
    /\ next = [t \in Task |-> NoKeys]
    /\ live = NoTask
    /\ crashes = 0
    /\ first = [k \in Key |-> Never]
    /\ granted = Embedded

Startup(t) == LoadAnchors(t) \/ BootAnchor(t) \/ BootState(t)
Tick(t) ==
    \/ (\E k \in Key : Fetch(t, k)) \/ Roll(t) \/ Refuse(t)
    \/ SaveState(t) \/ SaveAnchor(t) \/ Publish(t) \/ SaveFails(t)

Next ==
    \/ \E t \in Task : Startup(t) \/ Tick(t)
    \/ Clock \/ RootChanges \/ OperatorEdits \/ Crash

Spec == Init /\ [][Next]_vars

\* The runtime schedules every task and the hourly ticker keeps firing; the
\* clock advances; a read, a write or a query that fails does not fail for
\* ever.  Nothing is assumed of the root, the operator or crashes.
Fairness ==
    /\ WF_vars(Clock)
    /\ \A t \in Task :
          /\ WF_vars(Startup(t))
          /\ WF_vars(Tick(t))
          /\ SF_vars(Roll(t))
          /\ SF_vars(SaveState(t))
          /\ SF_vars(SaveAnchor(t))

FairSpec == Spec /\ Fairness

\* The root servers rotate the RRSIGs of their answer, so that each signature
\* is the last one now and then.
Rotating == \A t \in Task : \A k \in Key : SF_vars(Fetch(t, k))

(***************************************************************************)
(* Properties.                                                             *)
(***************************************************************************)
LiveAnchors == IF live \in Task THEN anchors[live] ELSE {}

\* k is trusted by the build or the operator, or it is a KSK that a response
\* signed by a trusted key listed at least HoldDown ago.
Earned(k) == k \in granted \/ (k \in Sep /\ first[k] + HoldDown <= now)

\* No key is trusted before its hold-down: neither a swap the validator reads
\* nor the anchor file a restart will read holds an unearned key, whatever the
\* interleaving of refresh tasks, crashes and failed writes (apply_refresh,
\* tick, bootstrap_self_managed).
NoEarlyTrust ==
    /\ \A t \in Task : \A k \in anchors[t] : Earned(k)
    /\ \A k \in anchor_file : Earned(k)

\* The reason NoEarlyTrust holds: every key list, on disk or about to be
\* written by a tick, calls active only earned keys and dates a pending key
\* no earlier than its first validated sighting, so the age apply_refresh
\* computes never exceeds the true one.
SoundList(keys) ==
    \A k \in Key :
        /\ keys[k].kind = "active" => Earned(k)
        /\ keys[k].kind = "pending" => k \in Sep /\ first[k] <= keys[k].at

AnchorInv ==
    /\ NoEarlyTrust
    /\ SoundList(state_file)
    /\ \A t \in Task : SoundList(next[t])
    /\ Embedded \subseteq granted
    /\ \A k \in Key : first[k] <= now \/ first[k] = Never

\* A revoked entry of the state file is kept until a refresh proves the key
\* gone and then pruned: it never turns active or pending again in one write
\* (the Revoked arms of apply_refresh, "keep until the next refresh proves
\* they're gone. Then prune").
RevocationSticks ==
    [][\A k \in Key : state_file[k].kind = "revoked" =>
                       state_file'[k].kind \in {"revoked", "absent"}]_vars

\* The step that takes k out of the persisted active set, if it does, is a write
\* made by a tick that saw k with the REVOKE bit.
KeepsOrRevokes(k) ==
    state_file[k].kind = "active" =>
        \/ state_file'[k].kind = "active"
        \/ \E t \in Task : pc[t] = "save_state" /\ resp[t].keys[k] = "revoked"

\* An active key leaves the persisted active set only in a write made by a tick
\* that saw it with the REVOKE bit: absence from a response, a failed write or
\* a crash never removes it (the (Active, None) arm, "Removal requires REVOKE").
RemovalNeedsRevoke == [][\A k \in Key : KeepsOrRevokes(k)]_vars

\* A hold-down that ends within the modelled time completes: a key persisted
\* as pending that stays published becomes an anchor of the live handler,
\* across restarts and failed ticks, unless the handler could load no anchor.
\* It takes servers that rotate their signatures: extract_dnskey_response
\* keeps the last RRSIG only, which need not be by a trusted key.
HoldDownCompletes ==
    Rotating =>
    \A k \in Key :
        (/\ state_file[k].kind = "pending"
         /\ state_file[k].at + HoldDown <= MaxTime)
        ~> (k \in LiveAnchors \/ LiveAnchors = {} \/ root[k] \notin {"standby", "signing"})

\* A key the root keeps publishing as revoked is dropped from the live handler
\* for good, however the tick that saw it was cut short.
RevocationTakesEffect ==
    \A k \in Key :
        root[k] = "revoked" ~> (root[k] = "absent" \/ [](k \notin LiveAnchors))
=============================================================================
