---------------------------- MODULE ControlProofs ----------------------------
(***************************************************************************)
(* What runs beside the queries.                                           *)
(*                                                                         *)
(* No trust anchor is used before its hold-down, for every set of keys,    *)
(* every number of refresh tasks, every hold-down time and every history   *)
(* of the root zone, of crashes and of failed writes; and the files the    *)
(* anchors are kept in stay whole (atomic_write).                          *)
(*                                                                         *)
(* For any configs, addresses, peers and connections: no socket outlives   *)
(* its entry in LiveListeners, between reloads the listeners are the ones  *)
(* of the config the handler was built from, and a peer the config does    *)
(* not admit is not served.  The last two take configs that do not split a *)
(* listener: the protocols of one share its AclSwap for good, so allow_from*)
(* cannot be changed for one of them alone.                                *)
(***************************************************************************)
EXTENDS Anchor, AtomicWrite, Reload, TLAPS

\* The leaves are first-order steps; the ones that need arithmetic, sequences or
\* records cite SMT.
USE ZenonT(30)

(***************************************************************************)
(* The operators of the model.                                             *)
(***************************************************************************)
\* A status computed by apply_refresh is a status.
LEMMA RefreshedType ==
    ASSUME NEW s \in KeyStatus, NEW o \in RootStatus, NEW b \in BOOLEAN, NEW n \in Nat
    PROVE  Refreshed(s, o, b, n) \in KeyStatus
BY DEF Refreshed, PendingNext, ActiveNext, RevokedNext, UnknownNext, KeyStatus,
       Absent, Active, Revoked, PendingAdd

\* apply_refresh maps a key list and an RRset to a key list.
LEMMA ApplyRefreshType ==
    ASSUME NEW p \in KeyList, NEW o \in [Key -> RootStatus], NEW n \in Nat
    PROVE  apply_refresh(p, o, n) \in KeyList
<1> SUFFICES ASSUME NEW k \in Key
             PROVE  Refreshed(p[k], o[k], k \in Sep, n) \in KeyStatus
    BY DEF apply_refresh, KeyList
<1>1. p[k] \in KeyStatus /\ o[k] \in RootStatus /\ (k \in Sep) \in BOOLEAN
    BY SMTT(30) DEF KeyList
<1> QED
    BY <1>1, RefreshedType

\* Lists of active and of no keys are key lists.
LEMMA ListTypes ==
    /\ NoKeys \in KeyList
    /\ \A ks : AllActive(ks) \in KeyList
BY DEF NoKeys, AllActive, KeyList, KeyStatus, Absent, Active

\* The placeholder for "no response" is a response.
LEMMA NoRespType == NoResp \in Responses
<1>1. (CHOOSE k \in Key : TRUE) \in Key
    BY AnchorAssumption
<1> QED
    BY <1>1 DEF NoResp, Responses, RootStatus

(***************************************************************************)
(* Type correctness.                                                       *)
(***************************************************************************)
\* Every variable of the anchor lifecycle keeps its type (Anchor!TypeOK).
THEOREM TypeCorrect == Spec => []TypeOK
<1>1. Init => TypeOK
    BY AnchorAssumption, ListTypes, NoRespType, SMTT(30)
    DEF Init, TypeOK, RootStatus, Steps, Never
<1>2. TypeOK /\ [Next]_vars => TypeOK'
    <2> SUFFICES ASSUME TypeOK, [Next]_vars
                 PROVE  TypeOK'
        OBVIOUS
    <2> USE AnchorAssumption DEF TypeOK
    <2>1. ASSUME NEW t \in Task, LoadAnchors(t) PROVE TypeOK'
        BY <2>1, SMTT(30) DEF LoadAnchors, Serve, Steps, files, ghosts
    <2>2. ASSUME NEW t \in Task, BootAnchor(t) PROVE TypeOK'
        BY <2>2 DEF BootAnchor, WriteAnchor, Serve, Steps, ghosts
    <2>3. ASSUME NEW t \in Task, BootState(t) PROVE TypeOK'
        <3>1. AllActive(Embedded) \in KeyList
            BY ListTypes
        <3> QED
            BY <2>3, <3>1 DEF BootState, WriteState, Serve, Steps, ghosts
    <2>4. ASSUME NEW t \in Task, NEW k \in Key, Fetch(t, k) PROVE TypeOK'
        <3>1. [keys |-> root, sig |-> k] \in Responses
            BY DEF Responses
        <3>2. resp' \in [Task -> Responses]
            BY <2>4, <3>1 DEF Fetch
        <3> QED
            BY <2>4, <3>2 DEF Fetch, Goto, Steps, files, ghosts
    <2>5. ASSUME NEW t \in Task, Roll(t) PROVE TypeOK'
        <3>1. PriorState(t) \in KeyList
            <4>1. AllActive(anchors[t]) \in KeyList
                BY ListTypes
            <4> QED
                BY <4>1 DEF PriorState
        <3>2. apply_refresh(PriorState(t), resp[t].keys, now) \in KeyList
            BY <3>1, ApplyRefreshType, SMTT(30) DEF Responses
        <3> QED
            BY <2>5, <3>2, SMTT(30) DEF Roll, Goto, Steps, Never, files
    <2>6. ASSUME NEW t \in Task, Refuse(t) PROVE TypeOK'
        BY <2>6, ListTypes, NoRespType DEF Refuse, Return, Goto, Steps, files, ghosts
    <2>7. ASSUME NEW t \in Task, SaveState(t) PROVE TypeOK'
        BY <2>7 DEF SaveState, WriteState, Goto, Steps, ghosts
    <2>8. ASSUME NEW t \in Task, SaveAnchor(t) PROVE TypeOK'
        BY <2>8 DEF SaveAnchor, WriteAnchor, Goto, Steps, ActiveKeys, ghosts
    <2>9. ASSUME NEW t \in Task, Publish(t) PROVE TypeOK'
        BY <2>9, ListTypes, NoRespType
        DEF Publish, Return, Goto, Steps, ActiveKeys, files, ghosts
    <2>10. ASSUME NEW t \in Task, SaveFails(t) PROVE TypeOK'
        BY <2>10, ListTypes, NoRespType DEF SaveFails, Return, Goto, Steps, files, ghosts
    <2>11. CASE Clock
        BY <2>11, SMTT(30) DEF Clock, files, memory, ghosts
    <2>12. CASE RootChanges
        BY <2>12 DEF RootChanges, files, memory, ghosts
    <2>13. CASE OperatorEdits
        BY <2>13 DEF OperatorEdits, WriteAnchor, memory
    <2>14. CASE Crash
        BY <2>14, ListTypes, NoRespType, SMTT(30) DEF Crash, Steps, files, ghosts
    <2>15. CASE UNCHANGED vars
        BY <2>15 DEF vars, files, memory, ghosts
    <2> QED
        BY <2>1, <2>2, <2>3, <2>4, <2>5, <2>6, <2>7, <2>8, <2>9, <2>10, <2>11,
           <2>12, <2>13, <2>14, <2>15 DEF Next, Startup, Tick
<1> QED
    BY <1>1, <1>2, PTL DEF Spec

(***************************************************************************)
(* No early trust.                                                         *)
(***************************************************************************)
\* What has been earned stays earned while the history only grows: the clock
\* does not go back, first sightings do not move later, grants are kept.
LEMMA SoundnessPersists ==
    ASSUME TypeOK, TypeOK',
           now <= now', granted \subseteq granted',
           \A k \in Key : first'[k] <= first[k]
    PROVE  /\ \A k \in Key : Earned(k) => Earned(k)'
           /\ \A l \in KeyList : SoundList(l) => SoundList(l)'
<1> USE AnchorAssumption
<1>1. \A k \in Key : /\ first[k] \in Nat /\ first'[k] \in Nat
                     /\ now \in Nat /\ now' \in Nat
    BY SMTT(30) DEF TypeOK, Never
<1>2. ASSUME NEW k \in Key, Earned(k) PROVE Earned(k)'
    BY <1>1, <1>2, SMTT(30) DEF Earned
<1>3. ASSUME NEW l \in KeyList, SoundList(l) PROVE SoundList(l)'
    <2> SUFFICES ASSUME NEW k \in Key
                 PROVE  /\ l[k].kind = "active" => Earned(k)'
                        /\ l[k].kind = "pending" => k \in Sep /\ first'[k] <= l[k].at
        BY DEF SoundList
    <2>1. l[k].at \in Nat
        BY SMTT(30) DEF KeyList, KeyStatus, Absent, Active, Revoked
    <2> QED
        BY <1>1, <1>2, <1>3, <2>1, SMTT(30) DEF SoundList
<1> QED
    BY <1>2, <1>3

\* Listing earned keys as active is sound, and so is listing none.
LEMMA SoundLists ==
    /\ SoundList(NoKeys)
    /\ \A ks \in SUBSET Key : (\A k \in ks : Earned(k)) => SoundList(AllActive(ks))
BY DEF SoundList, NoKeys, AllActive, Absent, Active

\* Earned and SoundList for a given history f of first sightings, set g of
\* granted keys and time n.
EarnedAt(k, f, g, n) == k \in g \/ (k \in Sep /\ f[k] + HoldDown <= n)
SoundAt(l, f, g, n) ==
    \A k \in Key :
        /\ l[k].kind = "active" => EarnedAt(k, f, g, n)
        /\ l[k].kind = "pending" => k \in Sep /\ f[k] <= l[k].at

\* One refresh of a sound list at time n is sound, provided every key the
\* response lists has a first sighting by then.
LEMMA ApplyRefreshSound ==
    ASSUME NEW f \in [Key -> Nat], NEW g, NEW n \in Nat,
           NEW p \in KeyList, NEW o \in [Key -> RootStatus],
           SoundAt(p, f, g, n), \A k \in Key : o[k] # "absent" => f[k] <= n
    PROVE  SoundAt(apply_refresh(p, o, n), f, g, n)
<1> USE AnchorAssumption
<1> SUFFICES ASSUME NEW k \in Key
             PROVE  LET r == Refreshed(p[k], o[k], k \in Sep, n)
                    IN  /\ r.kind = "active" => EarnedAt(k, f, g, n)
                        /\ r.kind = "pending" => k \in Sep /\ f[k] <= r.at
    BY DEF SoundAt, apply_refresh
<1>1. p[k] \in KeyStatus /\ f[k] \in Nat
    BY DEF KeyList
<1>2. /\ p[k].kind = "active" => EarnedAt(k, f, g, n)
      /\ p[k].kind = "pending" => k \in Sep /\ f[k] <= p[k].at
    BY DEF SoundAt
<1>3. CASE p[k].kind = "pending"
    <2>1. p[k].at \in Nat
        BY <1>1, SMTT(30) DEF KeyStatus, Absent, Active, Revoked
    <2>2. p[k].at + HoldDown <= n => EarnedAt(k, f, g, n)
        BY <1>1, <1>2, <1>3, <2>1, SMTT(30) DEF EarnedAt
    <2> QED
        BY <1>1, <1>2, <1>3, <2>1, <2>2 DEF Refreshed, PendingNext, Absent, Active
<1>4. CASE p[k].kind = "active"
    BY <1>2, <1>4 DEF Refreshed, ActiveNext, Active, Revoked
<1>5. CASE p[k].kind = "revoked"
    BY <1>5 DEF Refreshed, RevokedNext, Absent, Revoked
<1>6. CASE p[k].kind = "absent"
    BY <1>6 DEF Refreshed, UnknownNext, Absent, PendingAdd
<1> QED
    BY <1>1, <1>3, <1>4, <1>5, <1>6, SMTT(30) DEF KeyStatus, Absent, Active, Revoked

\* Before anything has happened nothing is trusted.
LEMMA InitSound == Init => AnchorInv
BY SoundLists DEF Init, AnchorInv, NoEarlyTrust

\* AnchorInv is preserved by every step.
LEMMA StepSound == TypeOK /\ TypeOK' /\ AnchorInv /\ [Next]_vars => AnchorInv'
<1> SUFFICES ASSUME TypeOK, TypeOK', AnchorInv, [Next]_vars
             PROVE  AnchorInv'
    OBVIOUS
<1> USE AnchorAssumption
<1>a. now \in Nat /\ \A k \in Key : first[k] \in Nat
    BY SMTT(30) DEF TypeOK, Never
<1>b. ASSUME UNCHANGED <<now, ghosts>>
      PROVE  /\ \A k : Earned(k)' <=> Earned(k)
             /\ \A l : SoundList(l)' <=> SoundList(l)
             /\ (Embedded \subseteq granted)'
             /\ (\A k \in Key : first[k] <= now \/ first[k] = Never)'
    BY <1>b DEF Earned, SoundList, AnchorInv, ghosts
<1>1. ASSUME NEW t \in Task, LoadAnchors(t) PROVE AnchorInv'
    BY <1>1, <1>b, SMTT(30) DEF AnchorInv, NoEarlyTrust, LoadAnchors, Serve, TypeOK, files
<1>2. ASSUME NEW t \in Task, BootAnchor(t) PROVE AnchorInv'
    <2>1. \A k \in Embedded : Earned(k)
        BY DEF AnchorInv, Earned
    <2> QED
        BY <1>2, <1>b, <2>1 DEF AnchorInv, NoEarlyTrust, BootAnchor, WriteAnchor, Serve, TypeOK
<1>3. ASSUME NEW t \in Task, BootState(t) PROVE AnchorInv'
    <2>1. \A k \in Embedded : Earned(k)
        BY DEF AnchorInv, Earned
    <2>2. SoundList(AllActive(Embedded))
        BY <2>1, SoundLists
    <2> QED
        BY <1>3, <1>b, <2>1, <2>2
        DEF AnchorInv, NoEarlyTrust, BootState, WriteState, Serve, TypeOK
<1>4. ASSUME NEW t \in Task, NEW k \in Key, Fetch(t, k) PROVE AnchorInv'
    BY <1>4, <1>b DEF AnchorInv, NoEarlyTrust, Fetch, files
<1>5. ASSUME NEW t \in Task, Roll(t) PROVE AnchorInv'
    <2>1. now' = now /\ granted' = granted /\ files' = files /\ anchors' = anchors
        BY <1>5 DEF Roll, files
    <2>2. \A k \in Key : /\ first'[k] <= first[k]
                         /\ first'[k] <= now \/ first'[k] = Never
                         /\ resp[t].keys[k] # "absent" => first'[k] <= now
        BY <1>5, <1>a, SMTT(30) DEF Roll, AnchorInv, TypeOK, Never
    <2>3. /\ \A k \in Key : Earned(k) => Earned(k)'
          /\ \A l \in KeyList : SoundList(l) => SoundList(l)'
        BY <2>1, <2>2, <1>a, SoundnessPersists, SMTT(30)
    <2>4. PriorState(t) \in KeyList /\ resp[t].keys \in [Key -> RootStatus]
        BY ListTypes DEF PriorState, TypeOK, Responses
    <2>5. SoundAt(PriorState(t), first', granted', now)
        <3>1. SoundList(PriorState(t))
            BY SoundLists DEF PriorState, AnchorInv, NoEarlyTrust, TypeOK
        <3>2. \A k \in Key : Earned(k) => EarnedAt(k, first', granted', now)
            BY <2>1, <2>3 DEF Earned, EarnedAt
        <3>3. \A k \in Key : PriorState(t)[k].at \in Nat
            BY <2>4, SMTT(30) DEF KeyList, KeyStatus, Absent, Active, Revoked
        <3>4. \A k \in Key : first'[k] \in Nat /\ first'[k] <= first[k]
            BY <2>2, SMTT(30) DEF TypeOK, Never
        <3> QED
            BY <1>a, <3>1, <3>2, <3>3, <3>4, SMTT(30) DEF SoundList, SoundAt
    <2>6. SoundList(next[t])'
        <3>1. SoundAt(apply_refresh(PriorState(t), resp[t].keys, now), first', granted', now)
            <4>1. first' \in [Key -> Nat]
                BY SMTT(30) DEF TypeOK, Never
            <4> QED
                BY <1>a, <2>2, <2>4, <2>5, <4>1, ApplyRefreshSound
        <3> QED
            BY <1>5, <2>1, <3>1 DEF Roll, TypeOK, SoundAt, SoundList, Earned, EarnedAt
    <2>7. \A u \in Task : SoundList(next[u])'
        BY <1>5, <2>3, <2>6 DEF Roll, AnchorInv, TypeOK
    <2>8. NoEarlyTrust'
        BY <2>1, <2>3 DEF NoEarlyTrust, AnchorInv, TypeOK, files
    <2>9. SoundList(state_file)'
        BY <2>1, <2>3 DEF AnchorInv, TypeOK, files, SoundList
    <2> QED
        BY <2>1, <2>2, <2>7, <2>8, <2>9 DEF AnchorInv
<1>6. ASSUME NEW t \in Task, Refuse(t) PROVE AnchorInv'
    BY <1>6, <1>b, SoundLists DEF AnchorInv, NoEarlyTrust, Refuse, Return, TypeOK, files
<1>7. ASSUME NEW t \in Task, SaveState(t) PROVE AnchorInv'
    BY <1>7, <1>b DEF AnchorInv, NoEarlyTrust, SaveState, WriteState
<1>8. ASSUME NEW t \in Task, SaveAnchor(t) PROVE AnchorInv'
    <2>1. \A k \in ActiveKeys(next[t]) : Earned(k)
        BY DEF ActiveKeys, AnchorInv, SoundList
    <2> QED
        BY <1>8, <1>b, <2>1 DEF AnchorInv, NoEarlyTrust, SaveAnchor, WriteAnchor
<1>9. ASSUME NEW t \in Task, Publish(t) PROVE AnchorInv'
    <2>1. \A k \in ActiveKeys(next[t]) : Earned(k)
        BY DEF ActiveKeys, AnchorInv, SoundList
    <2> QED
        BY <1>9, <1>b, <2>1, SoundLists
        DEF AnchorInv, NoEarlyTrust, Publish, Return, TypeOK, files
<1>10. ASSUME NEW t \in Task, SaveFails(t) PROVE AnchorInv'
    BY <1>10, <1>b, SoundLists DEF AnchorInv, NoEarlyTrust, SaveFails, Return, TypeOK, files
<1>11. CASE Clock
    <2>1. /\ \A k \in Key : Earned(k) => Earned(k)'
          /\ \A l \in KeyList : SoundList(l) => SoundList(l)'
        BY <1>11, <1>a, SoundnessPersists, SMTT(30) DEF Clock, ghosts
    <2> QED
        BY <1>11, <1>a, <2>1, SMTT(30)
        DEF Clock, AnchorInv, NoEarlyTrust, TypeOK, files, memory, ghosts
<1>12. CASE RootChanges
    BY <1>12, <1>b DEF RootChanges, AnchorInv, NoEarlyTrust, files, memory
<1>13. CASE OperatorEdits
    <2>1. /\ \A k \in Key : Earned(k) => Earned(k)'
          /\ \A l \in KeyList : SoundList(l) => SoundList(l)'
        BY <1>13, <1>a, SoundnessPersists, SMTT(30) DEF OperatorEdits
    <2>2. \A k \in anchor_file' : Earned(k)'
        BY <1>13 DEF OperatorEdits, WriteAnchor, Earned
    <2> QED
        BY <1>13, <1>a, <2>1, <2>2 DEF OperatorEdits, AnchorInv, NoEarlyTrust, TypeOK, memory
<1>14. CASE Crash
    BY <1>14, <1>b, SoundLists DEF Crash, AnchorInv, NoEarlyTrust, files
<1>15. CASE UNCHANGED vars
    BY <1>15, <1>b DEF AnchorInv, NoEarlyTrust, vars, files, memory
<1> QED
    BY <1>1, <1>2, <1>3, <1>4, <1>5, <1>6, <1>7, <1>8, <1>9, <1>10, <1>11, <1>12,
       <1>13, <1>14, <1>15 DEF Next, Startup, Tick

\* The invariant behind it holds in every reachable state.
THEOREM AnchorInvHolds == Spec => []AnchorInv
BY TypeCorrect, InitSound, StepSound, PTL DEF Spec

\* No swap and no anchor file ever holds a key that is neither granted nor past
\* its hold-down (Anchor!NoEarlyTrust), for every value of the constants.
THEOREM HoldDownRespected == Spec => []NoEarlyTrust
<1>1. AnchorInv => NoEarlyTrust
    BY DEF AnchorInv
<1> QED
    BY AnchorInvHolds, <1>1, PTL

(***************************************************************************)
(* What one write of the state file may change, when a single refresh task *)
(* runs.  A second one, left behind by a SIGHUP, can write back a list it  *)
(* computed before the first one saved its own.                            *)
(***************************************************************************)
\* Between two states of a key: revoked entries stay or are pruned, and active
\* ones leave only when the response showed the REVOKE bit.
Follows(old, new, seen) ==
    /\ old.kind = "revoked" => new.kind \in {"revoked", "absent"}
    /\ old.kind = "active" => new.kind = "active" \/ seen = "revoked"

\* The list a task is about to write follows the one on disk, and the state
\* file appears after the anchor file only.
WriteInv(t) ==
    /\ "state" \notin exists => state_file = NoKeys
    /\ "state" \in exists => "anchor" \in exists
    /\ anchors[t] # {} => "anchor" \in exists
    /\ pc[t] = "boot_state" => "anchor" \in exists /\ "state" \notin exists
    /\ pc[t] \in {"save_state", "save_anchor", "publish"} => "anchor" \in exists
    /\ pc[t] = "save_state" =>
          \A k \in Key : Follows(state_file[k], next[t][k], resp[t].keys[k])

\* apply_refresh never revives a revoked key, and removes an active one only on
\* its REVOKE bit.
LEMMA RefreshFollows ==
    ASSUME NEW s \in KeyStatus, NEW o \in RootStatus, NEW b \in BOOLEAN, NEW n \in Nat
    PROVE  Follows(s, Refreshed(s, o, b, n), o)
BY DEF Follows, Refreshed, ActiveNext, RevokedNext, Absent, Active, Revoked

\* WriteInv is preserved by every step of the only task and of the environment.
LEMMA StepWrites ==
    ASSUME NEW t, Task = {t}, TypeOK, WriteInv(t), [Next]_vars
    PROVE  WriteInv(t)'
<1> USE AnchorAssumption
<1>0. /\ t \in Task /\ pc \in [Task -> Steps] /\ anchors \in [Task -> SUBSET Key]
      /\ resp \in [Task -> Responses] /\ next \in [Task -> KeyList]
    BY DEF TypeOK
<1>1. CASE LoadAnchors(t)
    BY <1>0, <1>1 DEF WriteInv, LoadAnchors, Serve, files
<1>2. CASE BootAnchor(t)
    BY <1>0, <1>2 DEF WriteInv, BootAnchor, WriteAnchor, Serve
<1>3. CASE BootState(t)
    BY <1>0, <1>3 DEF WriteInv, BootState, WriteState, Serve
<1>4. ASSUME NEW k \in Key, Fetch(t, k) PROVE WriteInv(t)'
    BY <1>0, <1>4 DEF WriteInv, Fetch, Goto, files
<1>5. CASE Roll(t)
    <2>1. /\ pc'[t] = "save_state" /\ resp' = resp /\ anchors' = anchors /\ files' = files
          /\ next'[t] = apply_refresh(PriorState(t), resp[t].keys, now)
          /\ anchors[t] # {}
        BY <1>0, <1>5 DEF Roll, Goto
    <2>2. now \in Nat /\ resp[t].keys \in [Key -> RootStatus] /\ state_file \in KeyList
        BY <1>0, SMTT(30) DEF TypeOK, Responses
    <2>3. ASSUME NEW k \in Key
          PROVE  Follows(state_file[k], next'[t][k], resp[t].keys[k])
        <3>1. CASE "state" \in exists
            <4>1. next'[t][k] = Refreshed(state_file[k], resp[t].keys[k], k \in Sep, now)
                BY <2>1, <3>1 DEF PriorState, apply_refresh
            <4>2. state_file[k] \in KeyStatus /\ resp[t].keys[k] \in RootStatus
                BY <2>2 DEF KeyList
            <4>3. (k \in Sep) \in BOOLEAN
                BY SMTT(30)
            <4>4. Follows(state_file[k], Refreshed(state_file[k], resp[t].keys[k], k \in Sep, now),
                          resp[t].keys[k])
                BY <2>2, <4>2, <4>3, RefreshFollows
            <4> QED
                BY <4>1, <4>4
        <3>2. CASE "state" \notin exists
            BY <3>2, SMTT(30) DEF WriteInv, NoKeys, Absent, Follows
        <3> QED
            BY <3>1, <3>2
    <2> QED
        BY <2>1, <2>3 DEF WriteInv, files
<1>6. CASE Refuse(t)
    BY <1>0, <1>6 DEF WriteInv, Refuse, Return, Goto, files
<1>7. CASE SaveState(t)
    BY <1>0, <1>7 DEF WriteInv, SaveState, WriteState, Goto
<1>8. CASE SaveAnchor(t)
    BY <1>0, <1>8 DEF WriteInv, SaveAnchor, WriteAnchor, Goto
<1>9. CASE Publish(t)
    BY <1>0, <1>9 DEF WriteInv, Publish, Return, Goto, files
<1>10. CASE SaveFails(t)
    BY <1>0, <1>10 DEF WriteInv, SaveFails, Return, Goto, files
<1>11. CASE Clock
    BY <1>11 DEF Clock, WriteInv, files, memory
<1>12. CASE RootChanges
    BY <1>12 DEF RootChanges, WriteInv, files, memory
<1>13. CASE OperatorEdits
    BY <1>13 DEF OperatorEdits, WriteAnchor, WriteInv, memory
<1>14. CASE Crash
    BY <1>0, <1>14 DEF Crash, WriteInv, files
<1>15. CASE UNCHANGED vars
    BY <1>15 DEF vars, WriteInv, files, memory
<1> QED
    BY <1>1, <1>2, <1>3, <1>4, <1>5, <1>6, <1>7, <1>8, <1>9, <1>10, <1>11, <1>12,
       <1>13, <1>14, <1>15 DEF Next, Startup, Tick

\* Every step that writes the state file writes a list that follows the old one.
LEMMA WritesFollow ==
    ASSUME NEW t, Task = {t}, TypeOK, WriteInv(t), [Next]_vars, NEW k \in Key
    PROVE  \/ Follows(state_file[k], state_file'[k], "absent")
           \/ pc[t] = "save_state" /\ Follows(state_file[k], state_file'[k], resp[t].keys[k])
<1>1. ASSUME state_file' = state_file
      PROVE  Follows(state_file[k], state_file'[k], "absent")
    BY <1>1 DEF Follows
<1>2. CASE BootState(t)
    <2>1. state_file[k].kind = "absent"
        BY <1>2, SMTT(30) DEF BootState, WriteInv, NoKeys, Absent
    <2> QED
        BY <2>1 DEF Follows
<1>3. CASE SaveState(t)
    BY <1>3 DEF SaveState, WriteState, WriteInv
<1>4. CASE LoadAnchors(t) \/ BootAnchor(t) \/ Roll(t) \/ Refuse(t) \/ SaveAnchor(t)
           \/ Publish(t) \/ SaveFails(t) \/ \E q \in Key : Fetch(t, q)
    BY <1>1, <1>4 DEF LoadAnchors, BootAnchor, Roll, Refuse, SaveAnchor, Publish, SaveFails,
                      Fetch, files
<1>5. CASE Clock \/ RootChanges \/ OperatorEdits \/ Crash \/ UNCHANGED vars
    BY <1>1, <1>5 DEF Clock, RootChanges, OperatorEdits, Crash, vars, files
<1> QED
    BY <1>2, <1>3, <1>4, <1>5 DEF Next, Startup, Tick

\* With one refresh task, the list about to be written follows the one on disk.
THEOREM WritesAreOrdered ==
    ASSUME NEW theTask, Task = {theTask}
    PROVE  Spec => []WriteInv(theTask)
<1>1. Init => WriteInv(theTask)
    BY DEF Init, WriteInv
<1>2. TypeOK /\ WriteInv(theTask) /\ [Next]_vars => WriteInv(theTask)'
    BY StepWrites
<1> QED
    BY <1>1, <1>2, TypeCorrect, PTL DEF Spec

\* With one refresh task, a revoked entry of the state file is kept or pruned and
\* never turns active or pending in one write (the Revoked arms of apply_refresh).
THEOREM RevokedStaysRevoked ==
    ASSUME NEW theTask, Task = {theTask}
    PROVE  Spec => RevocationSticks
<1>1. TypeOK /\ WriteInv(theTask) /\ [Next]_vars =>
         [\A k \in Key : state_file[k].kind = "revoked" =>
                           state_file'[k].kind \in {"revoked", "absent"}]_vars
    BY WritesFollow DEF Follows
<1> QED
    BY <1>1, TypeCorrect, WritesAreOrdered, PTL DEF Spec, RevocationSticks

\* With one refresh task, an active key leaves the state file only in the write
\* of a tick that saw its REVOKE bit (the Active arms of apply_refresh).
THEOREM ActiveLeavesRevoked ==
    ASSUME NEW theTask, Task = {theTask}
    PROVE  Spec => RemovalNeedsRevoke
<1>1. TypeOK /\ WriteInv(theTask) /\ [Next]_vars => [\A k \in Key : KeepsOrRevokes(k)]_vars
    BY WritesFollow DEF Follows, KeepsOrRevokes
<1> QED
    BY <1>1, TypeCorrect, WritesAreOrdered, PTL DEF Spec, RemovalNeedsRevoke

(***************************************************************************)
(* AtomicWrite, for any number of versions, inodes and blocks, with one    *)
(* writer at a time: every read of the live path yields one whole version, *)
(* and atomic_write implements the atomic file of AtomicFile.  Both fail   *)
(* for two writers, which share the temporary name.                        *)
(***************************************************************************)
Content == Seq(Version \cup {None})
Path    == Inode \cup {None}

\* The first n blocks of version v.
Fill(n, v) == [m \in 1..n |-> v]

FileTypeOK ==
    /\ current \in Path /\ tmp \in Path /\ diskLive \in Path /\ rfd \in Path
    /\ data \in [Inode -> Content] /\ disk \in [Inode -> Content]
    /\ doing \in [Writer -> {"idle", "write", "sync", "rename", "dirsync"}]
    /\ fd \in [Writer -> Path]
    /\ off \in [Writer -> Nat]
    /\ ver \in [Writer -> Version \cup {None}]
    /\ rbuf \in Content

\* A file that holds a whole version, in memory and on disk.
Settled(i) == \E v \in Version : data[i] = Whole(v) /\ disk[i] = Whole(v)

\* What a path or a reader refers to is settled, ...
PublishedIsSettled ==
    /\ current # None => Settled(current)
    /\ diskLive # None => Settled(diskLive)
    /\ rfd # None => Settled(rfd)

\* ... the file being written is none of these, ...
TmpIsPrivate ==
    tmp # None => tmp \notin {current, diskLive, rfd}

\* ... and it holds as much of the new version as the writer's step says.
WriterProgress ==
    \A w \in Writer :
        /\ fd[w] \in {None, tmp}
        /\ doing[w] \in {"write", "sync", "rename"} => tmp # None /\ ver[w] \in Version
        /\ doing[w] = "write" =>
             fd[w] = tmp /\ off[w] < Blocks /\ data[tmp] = Fill(off[w], ver[w])
        /\ doing[w] = "sync" => fd[w] = tmp /\ data[tmp] = Whole(ver[w])
        /\ doing[w] = "rename" =>
             fd[w] = None /\ data[tmp] = Whole(ver[w]) /\ disk[tmp] = Whole(ver[w])

\* A reader has read the first blocks of the version it opened.
ReadSoFar ==
    rfd # None =>
        \E v \in Version, n \in 0..Blocks : data[rfd] = Whole(v) /\ rbuf = Fill(n, v)

FileInv ==
    FileTypeOK /\ PublishedIsSettled /\ TmpIsPrivate /\ WriterProgress /\ ReadSoFar

-----------------------------------------------------------------------------
\* n blocks of one version are a content of length n.
LEMMA FillIsContent ==
    ASSUME NEW n \in Nat, NEW v \in Version \cup {None}
    PROVE  Fill(n, v) \in Content /\ Len(Fill(n, v)) = n
    BY SMTT(30) DEF Fill, Content

\* write_all appends: the block after the first n makes them n + 1.
LEMMA PutBlockAppends ==
    ASSUME NEW n \in Nat, NEW v \in Version
    PROVE  PutBlock(Fill(n, v), n + 1, v) = Fill(n + 1, v)
<1>1. Len(Fill(n, v)) = n
    BY FillIsContent
<1> QED
    BY <1>1, SMTT(30) DEF PutBlock, Fill

\* The version of a whole content is found again.
LEMMA VersionOfWhole ==
    ASSUME NEW v \in Version
    PROVE  VersionOf(Whole(v)) = v
<1>1. ASSUME NEW u \in Version, Whole(v) = Whole(u) PROVE u = v
    <2>1. 1 \in 1..Blocks
        BY AtomicWriteAssumption, SMTT(30)
    <2> QED
        BY <1>1, <2>1 DEF Whole
<1> QED
    BY <1>1 DEF VersionOf

-----------------------------------------------------------------------------
\* With one writer, what is published stays settled and the writer keeps to the
\* private temporary file, through failures, kills and power losses.
THEOREM WriteInvariant ==
    ASSUME NEW theWriter, Writer = {theWriter}
    PROVE  FileSpec => []FileInv
<1> USE AtomicWriteAssumption
<1>1. FileInit => FileInv
    <2> SUFFICES ASSUME FileInit PROVE FileInv
        OBVIOUS
    <2>1. FileTypeOK
        <3>1. <<>> \in Content
            BY SMTT(30) DEF Content
        <3> QED
            BY <3>1 DEF FileInit, FileTypeOK, Path
    <2> QED
        BY <2>1 DEF FileInit, FileInv, PublishedIsSettled, TmpIsPrivate, WriterProgress, ReadSoFar
<1>2. FileInv /\ [FileNext]_fileVars => FileInv'
    <2> SUFFICES ASSUME FileInv, [FileNext]_fileVars
                 PROVE  FileInv'
        OBVIOUS
    <2> USE DEF FileInv
    <2>1. ASSUME NEW w \in Writer, Create(w) PROVE FileInv'
        <3>1. PICK i \in Inode, v \in Version :
                 /\ IF tmp = None THEN Free(i) ELSE i = tmp
                 /\ tmp' = i
                 /\ data' = [data EXCEPT ![i] = <<>>]
                 /\ fd' = [fd EXCEPT ![w] = i]
                 /\ ver' = [ver EXCEPT ![w] = v]
            BY <2>1 DEF Create
        <3>2. i \notin {current, diskLive, rfd}
            BY <3>1 DEF Free, TmpIsPrivate
        <3>3. <<>> \in Content /\ <<>> = Fill(0, v)
            BY SMTT(30) DEF Content, Fill
        <3>4. FileTypeOK'
            BY <2>1, <3>1, <3>3 DEF Create, FileTypeOK, Path, reader
        <3>5. PublishedIsSettled' /\ TmpIsPrivate' /\ ReadSoFar'
            BY <2>1, <3>1, <3>2
            DEF Create, FileTypeOK, Path, reader, PublishedIsSettled, Settled, TmpIsPrivate, ReadSoFar
        <3>6. WriterProgress'
            BY <2>1, <3>1, <3>3, SMTT(30) DEF Create, FileTypeOK, WriterProgress
        <3> QED
            BY <3>4, <3>5, <3>6
    <2>2. ASSUME NEW w \in Writer, WriteBlock(w) PROVE FileInv'
        <3>1. /\ fd[w] = tmp /\ tmp \in Inode /\ ver[w] \in Version
              /\ off[w] \in Nat /\ off[w] < Blocks /\ data[tmp] = Fill(off[w], ver[w])
            BY <2>2 DEF WriteBlock, WriterProgress, FileTypeOK, Path
        <3>2. data' = [data EXCEPT ![tmp] = Fill(off[w] + 1, ver[w])]
            BY <2>2, <3>1, PutBlockAppends DEF WriteBlock
        <3>3. FileTypeOK'
            BY <2>2, <3>1, <3>2, FillIsContent, SMTT(30) DEF WriteBlock, FileTypeOK, reader
        <3>4. PublishedIsSettled' /\ TmpIsPrivate' /\ ReadSoFar'
            BY <2>2, <3>1, <3>2
            DEF WriteBlock, FileTypeOK, Path, reader, PublishedIsSettled, Settled, TmpIsPrivate, ReadSoFar
        <3>5. WriterProgress'
            <4>1. doing'[w] = IF off[w] + 1 = Blocks THEN "sync" ELSE "write"
                BY <2>2 DEF WriteBlock, FileTypeOK
            <4>2. fd'[w] = tmp' /\ off'[w] = off[w] + 1 /\ ver'[w] = ver[w] /\ tmp' = tmp
                BY <2>2, <3>1 DEF WriteBlock, FileTypeOK
            <4>3. data'[tmp] = Fill(off[w] + 1, ver[w])
                BY <3>1, <3>2 DEF FileTypeOK
            <4>4. Fill(Blocks, ver[w]) = Whole(ver[w])
                BY DEF Fill, Whole
            <4>5. Writer = {w}
                OBVIOUS
            <4>6. CASE off[w] + 1 = Blocks
                <5>1. doing'[w] = "sync" /\ data'[tmp'] = Whole(ver'[w])
                    BY <4>1, <4>2, <4>3, <4>4, <4>6
                <5> QED
                    BY <3>1, <4>2, <4>5, <5>1 DEF WriterProgress
            <4>7. CASE off[w] + 1 # Blocks
                <5>1. /\ doing'[w] = "write" /\ off'[w] < Blocks
                      /\ data'[tmp'] = Fill(off'[w], ver'[w])
                    BY <3>1, <4>1, <4>2, <4>3, <4>7, AtomicWriteAssumption, SMTT(30)
                <5> QED
                    BY <3>1, <4>2, <4>5, <5>1 DEF WriterProgress
            <4> QED
                BY <4>6, <4>7
        <3> QED
            BY <3>3, <3>4, <3>5
    <2>3. ASSUME NEW w \in Writer, Sync(w) PROVE FileInv'
        <3>1. fd[w] = tmp /\ tmp \in Inode /\ ver[w] \in Version /\ data[tmp] = Whole(ver[w])
            BY <2>3 DEF Sync, WriterProgress, FileTypeOK, Path
        <3>2. FileTypeOK'
            BY <2>3, <3>1 DEF Sync, FileTypeOK, Path, reader
        <3>3. PublishedIsSettled' /\ TmpIsPrivate' /\ ReadSoFar'
            BY <2>3, <3>1
            DEF Sync, FileTypeOK, Path, reader, PublishedIsSettled, Settled, TmpIsPrivate, ReadSoFar
        <3>4. WriterProgress'
            BY <2>3, <3>1 DEF Sync, FileTypeOK, WriterProgress
        <3> QED
            BY <3>2, <3>3, <3>4
    <2>4. ASSUME NEW w \in Writer, Rename(w) PROVE FileInv'
        <3>1. /\ tmp \in Inode /\ ver[w] \in Version
              /\ data[tmp] = Whole(ver[w]) /\ disk[tmp] = Whole(ver[w])
              /\ fd[w] = None
            BY <2>4 DEF Rename, WriterProgress, FileTypeOK, Path
        <3>2. FileTypeOK'
            BY <2>4, <3>1 DEF Rename, FileTypeOK, Path, reader
        <3>3. PublishedIsSettled' /\ TmpIsPrivate' /\ ReadSoFar'
            BY <2>4, <3>1
            DEF Rename, FileTypeOK, Path, reader, PublishedIsSettled, Settled, TmpIsPrivate, ReadSoFar
        <3>4. WriterProgress'
            BY <2>4, <3>1 DEF Rename, FileTypeOK, WriterProgress
        <3> QED
            BY <3>2, <3>3, <3>4
    <2>5. ASSUME NEW w \in Writer, DirSync(w) \/ WriteFails(w) PROVE FileInv'
        <3>1. FileTypeOK'
            BY <2>5 DEF DirSync, WriteFails, FileTypeOK, Path, reader
        <3>2. PublishedIsSettled' /\ TmpIsPrivate' /\ ReadSoFar'
            BY <2>5 DEF DirSync, WriteFails, FileTypeOK, Path, reader,
                        PublishedIsSettled, Settled, TmpIsPrivate, ReadSoFar
        <3>3. WriterProgress'
            BY <2>5 DEF DirSync, WriteFails, FileTypeOK, WriterProgress
        <3> QED
            BY <3>1, <3>2, <3>3
    <2>6. CASE Open
        <3>1. PICK v \in Version : data[current] = Whole(v)
            BY <2>6 DEF Open, PublishedIsSettled, Settled
        <3>2. FileTypeOK'
            BY <2>6, SMTT(30) DEF Open, FileTypeOK, Path, Content, writers
        <3>3. PublishedIsSettled' /\ TmpIsPrivate'
            BY <2>6 DEF Open, PublishedIsSettled, Settled, TmpIsPrivate
        <3>4. WriterProgress'
            BY <2>6 DEF Open, WriterProgress, writers
        <3>5. <<>> = Fill(0, v) /\ 0 \in 0..Blocks
            BY SMTT(30) DEF Fill
        <3>6. ReadSoFar'
            BY <2>6, <3>1, <3>5 DEF Open, ReadSoFar
        <3> QED
            BY <3>2, <3>3, <3>4, <3>6
    <2>7. CASE ReadBlock
        <3>1. PICK v \in Version, n \in 0..Blocks : data[rfd] = Whole(v) /\ rbuf = Fill(n, v)
            BY <2>7 DEF ReadBlock, ReadSoFar
        <3>2. Len(rbuf) = n /\ Len(data[rfd]) = Blocks /\ Whole(v) = Fill(Blocks, v)
            BY <3>1, FillIsContent, SMTT(30) DEF Fill, Whole
        <3>3. n + 1 \in 1..Blocks /\ data[rfd][n + 1] = v
            BY <2>7, <3>1, <3>2, SMTT(30) DEF ReadBlock, Whole
        <3>4. rbuf' = Fill(n + 1, v)
            <4>1. rbuf' = Append(Fill(n, v), v)
                BY <2>7, <3>1, <3>2, <3>3 DEF ReadBlock
            <4>2. Append(Fill(n, v), v) = Fill(n + 1, v)
                BY FillIsContent, SMTT(30) DEF Fill, Content
            <4> QED
                BY <4>1, <4>2
        <3>5. FileTypeOK'
            BY <2>7, <3>3, <3>4, FillIsContent, SMTT(30) DEF ReadBlock, FileTypeOK, writers
        <3>6. PublishedIsSettled' /\ TmpIsPrivate'
            BY <2>7 DEF ReadBlock, PublishedIsSettled, Settled, TmpIsPrivate
        <3>7. WriterProgress'
            BY <2>7 DEF ReadBlock, WriterProgress, writers
        <3>8. ReadSoFar'
            BY <2>7, <3>1, <3>3, <3>4, SMTT(30) DEF ReadBlock, ReadSoFar
        <3> QED
            BY <3>5, <3>6, <3>7, <3>8
    <2>8. CASE Close
        <3>1. FileTypeOK'
            BY <2>8, SMTT(30) DEF Close, FileTypeOK, Path, Content, writers
        <3>2. PublishedIsSettled' /\ TmpIsPrivate' /\ ReadSoFar'
            BY <2>8 DEF Close, FileTypeOK, Path, PublishedIsSettled, Settled, TmpIsPrivate, ReadSoFar
        <3>3. WriterProgress'
            BY <2>8 DEF Close, WriterProgress, writers
        <3> QED
            BY <3>1, <3>2, <3>3
    <2>9. CASE Kill
        <3>1. FileTypeOK'
            BY <2>9, SMTT(30) DEF Kill, Reset, FileTypeOK, Path, Content
        <3>2. PublishedIsSettled' /\ TmpIsPrivate' /\ ReadSoFar' /\ WriterProgress'
            BY <2>9 DEF Kill, Reset, FileTypeOK, Path,
                        PublishedIsSettled, Settled, TmpIsPrivate, ReadSoFar, WriterProgress
        <3> QED
            BY <3>1, <3>2
    <2>10. CASE PowerLoss
        <3>1. PICK kept \in SUBSET Inode, lost \in SUBSET {i \in Inode : data[i] # disk[i]} :
                 data' = [i \in Inode |-> IF i \in lost THEN <<>>
                                          ELSE IF i \in kept THEN data[i] ELSE disk[i]]
            BY <2>10 DEF PowerLoss
        <3>2. <<>> \in Content
            BY SMTT(30) DEF Content
        <3>3. FileTypeOK'
            BY <2>10, <3>1, <3>2 DEF PowerLoss, Reset, FileTypeOK, Path
        <3>4. \A i \in Inode : Settled(i) => Settled(i)'
            BY <2>10, <3>1 DEF PowerLoss, Settled
        <3>5. PublishedIsSettled'
            BY <2>10, <3>4 DEF PowerLoss, Reset, FileTypeOK, Path, PublishedIsSettled
        <3>6. TmpIsPrivate' /\ ReadSoFar' /\ WriterProgress'
            BY <2>10 DEF PowerLoss, Reset, FileTypeOK, Path, TmpIsPrivate, ReadSoFar, WriterProgress
        <3> QED
            BY <3>3, <3>5, <3>6
    <2>11. CASE UNCHANGED fileVars
        BY <2>11 DEF fileVars, writers, reader, FileTypeOK, PublishedIsSettled, Settled, TmpIsPrivate,
                     WriterProgress, ReadSoFar
    <2> QED
        BY <2>1, <2>2, <2>3, <2>4, <2>5, <2>6, <2>7, <2>8, <2>9, <2>10, <2>11 DEF FileNext
<1> QED
    BY <1>1, <1>2, PTL DEF FileSpec

\* A load that reads the live file to its end while atomic_write replaces it,
\* fails, is killed or loses power gets one whole version (load_state,
\* load_from_file).
THEOREM ReadsWhole ==
    ASSUME NEW theWriter, Writer = {theWriter}
    PROVE  FileSpec => []ReadsAreWhole
<1> USE AtomicWriteAssumption
<1>1. FileInv => ReadsAreWhole
    <2> SUFFICES ASSUME FileInv, AtEnd PROVE VersionOf(rbuf) # Torn
        BY DEF ReadsAreWhole
    <2>1. PICK v \in Version, n \in 0..Blocks : data[rfd] = Whole(v) /\ rbuf = Fill(n, v)
        BY DEF AtEnd, FileInv, ReadSoFar
    <2>2. Len(rbuf) = n /\ Len(data[rfd]) = Blocks
        BY <2>1, FillIsContent, SMTT(30) DEF Fill, Whole
    <2>3. rbuf = Whole(v)
        BY <2>1, <2>2, SMTT(30) DEF AtEnd, Fill, Whole
    <2> QED
        BY <2>3, VersionOfWhole
<1> QED
    BY <1>1, WriteInvariant, PTL

\* The versions of the live path in memory and on disk, as AtomicFile sees them.
Val     == IF current = None THEN None ELSE VersionOf(data[current])
Durable == IF diskLive = None THEN None ELSE VersionOf(disk[diskLive])

\* A file that stays settled on the same version stands for the same version.
LEMMA PathsKeepTheirVersion ==
    ASSUME PublishedIsSettled, FileTypeOK,
           current' = current, diskLive' = diskLive,
           \A i \in Inode : i \in {current, diskLive} => data'[i] = data[i] /\ disk'[i] = disk[i]
    PROVE  Val' = Val /\ Durable' = Durable
    BY DEF Val, Durable, VersionOf, FileTypeOK, Path, Whole

\* atomic_write implements the atomic file: the rename is the save, the fsync of
\* the directory settles it, a power loss keeps the version before or after the
\* last save, and every other step of the writer, the reader or a kill changes
\* neither what a reader of the path sees nor what the disk holds.
THEOREM ImplementsAtomicFile ==
    ASSUME NEW theWriter, Writer = {theWriter}
    PROVE  FileSpec => AtomicSpec
<1> USE AtomicWriteAssumption
<1>1. FileInit => Abstract!Init
    BY DEF FileInit, Abstract!Init
<1>2. FileInv /\ [FileNext]_fileVars => [Abstract!Next]_<<Val, Durable>>
    <2> SUFFICES ASSUME FileInv, [FileNext]_fileVars
                 PROVE  Abstract!Next \/ UNCHANGED <<Val, Durable>>
        OBVIOUS
    <2> USE DEF FileInv
    <2>1. ASSUME NEW w \in Writer, Create(w) PROVE UNCHANGED <<Val, Durable>>
        <3>1. PICK i \in Inode : /\ IF tmp = None THEN Free(i) ELSE i = tmp
                                 /\ data' = [data EXCEPT ![i] = <<>>]
            BY <2>1 DEF Create
        <3>2. i \notin {current, diskLive}
            BY <3>1 DEF Free, TmpIsPrivate
        <3> QED
            BY <2>1, <3>1, <3>2, PathsKeepTheirVersion DEF Create, FileTypeOK
    <2>2. ASSUME NEW w \in Writer, WriteBlock(w) PROVE UNCHANGED <<Val, Durable>>
        <3>1. fd[w] = tmp /\ tmp \notin {current, diskLive}
            BY <2>2 DEF WriteBlock, WriterProgress, TmpIsPrivate
        <3> QED
            BY <2>2, <3>1, PathsKeepTheirVersion DEF WriteBlock, FileTypeOK
    <2>3. ASSUME NEW w \in Writer, Sync(w) PROVE UNCHANGED <<Val, Durable>>
        <3>1. fd[w] = tmp /\ tmp \notin {current, diskLive}
            BY <2>3 DEF Sync, WriterProgress, TmpIsPrivate
        <3> QED
            BY <2>3, <3>1, PathsKeepTheirVersion DEF Sync, FileTypeOK
    <2>4. ASSUME NEW w \in Writer, Rename(w) PROVE Abstract!Next
        <3>1. tmp # None /\ ver[w] \in Version /\ data[tmp] = Whole(ver[w])
            BY <2>4 DEF Rename, WriterProgress
        <3>2. Val' = ver[w] /\ Durable' = Durable
            BY <2>4, <3>1, VersionOfWhole, SMTT(30) DEF Rename, Val, Durable, VersionOf, Whole
        <3> QED
            BY <3>1, <3>2 DEF Abstract!Next, Abstract!Save, Val, Durable
    <2>5. ASSUME NEW w \in Writer, DirSync(w) PROVE Abstract!Next \/ UNCHANGED <<Val, Durable>>
        <3>1. Val' = Val
            BY <2>5 DEF DirSync, Val, VersionOf, Whole
        <3>2. CASE diskLive' = diskLive
            BY <2>5, <3>1, <3>2 DEF DirSync, Durable, VersionOf, Whole
        <3>3. CASE diskLive' = current
            <4>1. current # None => data[current] = disk[current]
                BY DEF PublishedIsSettled, Settled
            <4>2. Durable' = Val
                BY <2>5, <3>3, <4>1 DEF DirSync, Val, Durable, VersionOf
            <4> QED
                BY <3>1, <4>2 DEF Abstract!Next, Abstract!Settle, Val, Durable
        <3> QED
            BY <2>5, <3>2, <3>3 DEF DirSync
    <2>6. ASSUME NEW w \in Writer, WriteFails(w) PROVE UNCHANGED <<Val, Durable>>
        BY <2>6 DEF WriteFails, Val, Durable, VersionOf, Whole
    <2>7. CASE Open \/ ReadBlock \/ Close \/ Kill
        BY <2>7 DEF Open, ReadBlock, Close, Kill, Val, Durable, VersionOf, Whole
    <2>8. CASE PowerLoss
        <3>1. PICK kept \in SUBSET Inode, lost \in SUBSET {i \in Inode : data[i] # disk[i]} :
                 data' = [i \in Inode |-> IF i \in lost THEN <<>>
                                          ELSE IF i \in kept THEN data[i] ELSE disk[i]]
            BY <2>8 DEF PowerLoss
        <3>2. \A i \in Inode : Settled(i) => data'[i] = data[i] /\ disk'[i] = disk[i] /\ data[i] = disk[i]
            BY <2>8, <3>1 DEF PowerLoss, Settled
        <3>3. \A i \in {current, diskLive} \ {None} :
                 data'[i] = data[i] /\ disk'[i] = disk[i] /\ data[i] = disk[i]
            BY <3>2 DEF PublishedIsSettled, FileTypeOK, Path
        <3>4. current' \in {current, diskLive} /\ diskLive' = current'
            BY <2>8 DEF PowerLoss
        <3>5. Durable' = Val'
            BY <3>3, <3>4 DEF Val, Durable, VersionOf
        <3>6. current' = current => Val' = Val
            BY <3>3 DEF Val, VersionOf
        <3>7. current' = diskLive => Val' = Durable
            BY <3>3 DEF Val, Durable, VersionOf
        <3> QED
            BY <3>4, <3>5, <3>6, <3>7 DEF Abstract!Next, Abstract!PowerLoss, Val, Durable
    <2>9. CASE UNCHANGED fileVars
        BY <2>9 DEF fileVars, Val, Durable, VersionOf, Whole
    <2> QED
        BY <2>1, <2>2, <2>3, <2>4, <2>5, <2>6, <2>7, <2>8, <2>9 DEF FileNext
<1> QED
    BY <1>1, <1>2, WriteInvariant, PTL DEF FileSpec, AtomicSpec, Abstract!Spec, Val, Durable
(***************************************************************************)
(* Reload.                                                                 *)
(***************************************************************************)
\* The keys k and l were bound as protocols of one listener of some config.
Together(k, l) ==
    \E v \in Config :
        k \in Desired(v) /\ l \in Desired(v) /\ ListenerOf(v, k) = ListenerOf(v, l)

\* Protocols that were together once have the same allow_from in every config.
NoSplit ==
    \A v \in Config : \A k, l \in Desired(v) :
        Together(k, l) => ListenerOf(v, k).allow_from = ListenerOf(v, l).allow_from

Served ==
    [st : {"open", "busy"}, key : ListenerKey, cell : Cell, peer : Peer]

ReloadTypeOK ==
    /\ file \in Config /\ rcfg \in Config /\ handler \in Config
    /\ rpc \in {"idle", "build", "retain", "update", "alloc", "bind"}
    /\ acl \in [Cell -> SUBSET Peer]
    /\ listeners \in [ListenerKey -> Cell \cup {Nothing}]
    /\ sock \in [ListenerKey -> Cell \cup {Nothing}]
    /\ pending \in [ListenerKey -> Cell \cup {Nothing}]
    /\ todo \subseteq ListenerKey
    /\ conn \in [Conn -> Served \cup {FreeConn}]

\* The listeners K, which are bound, are of version v and have its allow_from.
Matches(K, v) ==
    \A k \in K : k \in Desired(v) /\ acl[listeners[k]] = ListenerOf(v, k).allow_from

\* How far each step of a reload has brought the listeners.
Progress ==
    /\ forwarders_swap = rcfg
    /\ rpc \in {"idle", "build"} => Matches(Bound, handler) /\ listeners_swap = Snapshot
    /\ rpc \notin {"idle", "build"} => handler = rcfg
    /\ rpc = "update" =>
         /\ Bound \subseteq Desired(rcfg)
         /\ todo \subseteq Bound
         /\ Matches(Bound \ todo, rcfg)
    /\ rpc \in {"alloc", "bind"} => Matches(Bound, rcfg)

\* Keys to bind exist only while a reload binds; their cells hold the new list.
PendingIsNew ==
    /\ rpc # "bind" => Pending = {}
    /\ \A k \in Pending :
         k \in Desired(rcfg) /\ acl[pending[k]] = ListenerOf(rcfg, k).allow_from

\* Keys share a cell only as protocols of one listener.
CellsAreShared ==
    \A k, l \in ListenerKey : \A c \in Cell :
        c \in {listeners[k], pending[k]} /\ c \in {listeners[l], pending[l]} => Together(k, l)

ReloadInv == ReloadTypeOK /\ Progress /\ PendingIsNew /\ CellsAreShared

-----------------------------------------------------------------------------
\* The listener of a configured key is one of the config, with that key.
LEMMA ListenerOfKey ==
    ASSUME NEW v \in Config, NEW k \in Desired(v)
    PROVE  /\ ListenerOf(v, k) \in Listeners[v]
           /\ k \in KeysOf(ListenerOf(v, k))
           /\ ListenerOf(v, k).allow_from \in SUBSET Peer
<1>1. PICK l \in Listeners[v] : k \in KeysOf(l)
    BY DEF Desired
<1>2. ListenerOf(v, k) \in Listeners[v] /\ k \in KeysOf(ListenerOf(v, k))
    BY <1>1 DEF ListenerOf
<1> QED
    BY <1>2, ReloadAssumption

\* A step that leaves the reload and its cells alone keeps its bookkeeping.
LEMMA ReloadUntouched ==
    ASSUME Progress, PendingIsNew, CellsAreShared,
           UNCHANGED <<main, acl>>
    PROVE  Progress' /\ PendingIsNew' /\ CellsAreShared'
<1>1. Bound' = Bound /\ Pending' = Pending /\ Snapshot' = Snapshot
    BY DEF main, Bound, Pending, Snapshot
<1>2. Progress'
    BY <1>1 DEF main, Progress, Matches, Bound, Snapshot
<1> QED
    BY <1>1, <1>2 DEF main, PendingIsNew, CellsAreShared

\* Every step of a reload keeps the listeners in line with the config it is
\* applying, and none touches the ones of the running config too early.
THEOREM ReloadInvariant ==
    ASSUME NoSplit
    PROVE  ReloadSpec => []ReloadInv
<1> USE ReloadAssumption
<1>1. ReloadInit => ReloadInv
    <2> SUFFICES ASSUME ReloadInit PROVE ReloadInv
        OBVIOUS
    <2>1. ReloadTypeOK
        BY DEF ReloadInit, ReloadTypeOK, NoCells
    <2>2. Bound = {} /\ Pending = {}
        BY DEF ReloadInit, Bound, Pending, NoCells
    <2>3. Progress /\ PendingIsNew
        BY <2>2 DEF ReloadInit, Progress, PendingIsNew, Matches
    <2>4. CellsAreShared
        BY DEF ReloadInit, CellsAreShared, NoCells
    <2> QED
        BY <2>1, <2>3, <2>4 DEF ReloadInv
<1>2. ReloadInv /\ [ReloadNext]_reloadVars => ReloadInv'
    <2> SUFFICES ASSUME ReloadInv, [ReloadNext]_reloadVars
                 PROVE  ReloadInv'
        OBVIOUS
    <2> USE DEF ReloadInv
    <2>1. ASSUME NEW v \in Config, Edit(v) PROVE ReloadInv'
        BY <2>1, ReloadUntouched DEF Edit, main, ReloadTypeOK
    <2>2. CASE Sighup
        BY <2>2, ReloadUntouched DEF Sighup, main, ReloadTypeOK
    <2>3. ASSUME NEW k \in ListenerKey, DropSocket(k) PROVE ReloadInv'
        BY <2>3, ReloadUntouched DEF DropSocket, main, ReloadTypeOK
    <2>4. CASE Prewarm
        BY <2>4, ReloadUntouched DEF Prewarm, main, ReloadTypeOK
    <2>5. ASSUME NEW c \in Conn, NEW k \in ListenerKey, NEW p \in Peer,
                 Datagram(c, k, p) \/ Accept(c, k, p)
          PROVE  ReloadInv'
        <3>1. \A st \in {"open", "busy"} : sock[k] # Nothing =>
                  [st |-> st, key |-> k, cell |-> sock[k], peer |-> p] \in Served
            BY DEF ReloadTypeOK, Served
        <3>2. ReloadTypeOK'
            BY <2>5, <3>1 DEF Datagram, Accept, Serving, main, ReloadTypeOK
        <3> QED
            BY <2>5, <3>2, ReloadUntouched DEF Datagram, Accept
    <2>6. ASSUME NEW c \in Conn, Request(c) \/ Reply(c) \/ Hangup(c) PROVE ReloadInv'
        <3>1. conn[c] \in Served
            BY <2>6, SMTT(30) DEF Request, Reply, Hangup, ReloadTypeOK, FreeConn
        <3>2. \A st \in {"open", "busy"} : [conn[c] EXCEPT !.st = st] \in Served
            BY <3>1 DEF Served
        <3>3. conn' \in [Conn -> Served \cup {FreeConn}]
            BY <2>6, <3>2 DEF Request, Reply, Hangup, ReloadTypeOK
        <3>4. ReloadTypeOK'
            BY <2>6, <3>3 DEF Request, Reply, Hangup, main, ReloadTypeOK
        <3> QED
            BY <2>6, <3>4, ReloadUntouched DEF Request, Reply, Hangup
    <2>7. CASE Load \/ BuildFails \/ SwapHandler
        <3>1. ReloadTypeOK'
            BY <2>7 DEF Load, BuildFails, SwapHandler, ReloadTypeOK
        <3>2. Bound' = Bound /\ Pending' = Pending /\ Snapshot' = Snapshot
            BY <2>7 DEF Load, BuildFails, SwapHandler, Bound, Pending, Snapshot
        <3>3. Pending = {}
            BY <2>7 DEF Load, BuildFails, SwapHandler, PendingIsNew
        <3>4. Progress'
            BY <2>7, <3>2 DEF Load, BuildFails, SwapHandler, Progress, Matches
        <3>5. PendingIsNew' /\ CellsAreShared'
            BY <2>7, <3>2, <3>3 DEF Load, BuildFails, SwapHandler, PendingIsNew, CellsAreShared
        <3> QED
            BY <3>1, <3>4, <3>5
    <2>8. CASE Retain
        <3> DEFINE gone == Bound \ Desired(rcfg)
        <3>1. /\ listeners' = [k \in ListenerKey |-> IF k \in gone THEN Nothing ELSE listeners[k]]
              /\ todo' = Bound \ gone
              /\ rpc = "retain" /\ rpc' = "update"
              /\ UNCHANGED <<file, rcfg, handler, forwarders_swap, acl, sock, pending, conn>>
            BY <2>8 DEF Retain
        <3>2. ReloadTypeOK'
            BY <3>1 DEF ReloadTypeOK, Bound
        <3>3. Bound' = Bound \ gone
            BY <3>1 DEF Bound
        <3>4. Progress'
            BY <3>1, <3>3 DEF Progress, Matches
        <3>5. Pending' = Pending /\ Pending = {}
            BY <3>1 DEF PendingIsNew, Pending
        <3>6. PendingIsNew'
            BY <3>1, <3>5 DEF PendingIsNew
        <3>7. CellsAreShared'
            BY <3>1 DEF CellsAreShared
        <3> QED
            BY <3>2, <3>4, <3>6, <3>7
    <2>9. ASSUME NEW k \in ListenerKey, HotSwap(k) PROVE ReloadInv'
        <3>1. /\ rpc = "update" /\ k \in todo /\ todo' = todo \ {k}
              /\ acl' = [acl EXCEPT ![listeners[k]] = ListenerOf(rcfg, k).allow_from]
              /\ UNCHANGED <<file, rpc, rcfg, handler, forwarders_swap, listeners, sock, pending, conn>>
            BY <2>9 DEF HotSwap
        <3>2. /\ k \in Bound /\ k \in Desired(rcfg) /\ listeners[k] \in Cell
              /\ Bound \subseteq Desired(rcfg) /\ handler = rcfg /\ rcfg \in Config
            BY <3>1 DEF Progress, Bound, ReloadTypeOK
        <3>3. ReloadTypeOK'
            BY <3>1, <3>2, ListenerOfKey DEF ReloadTypeOK
        <3>4. Bound' = Bound /\ Pending' = Pending /\ Pending = {}
            BY <3>1 DEF Bound, Pending, PendingIsNew
        <3>5. ASSUME NEW j \in Bound \ todo'
              PROVE  acl'[listeners[j]] = ListenerOf(rcfg, j).allow_from
            <4>1. j \in Desired(rcfg) /\ j \in ListenerKey /\ listeners[j] \in Cell
                BY <3>2 DEF Bound, ReloadTypeOK
            <4>2. CASE listeners[j] = listeners[k]
                <5>1. Together(j, k)
                    BY <4>1, <4>2 DEF CellsAreShared
                <5>2. ListenerOf(rcfg, j).allow_from = ListenerOf(rcfg, k).allow_from
                    BY <3>2, <4>1, <5>1 DEF NoSplit
                <5> QED
                    BY <3>1, <3>2, <4>2, <5>2 DEF ReloadTypeOK
            <4>3. CASE listeners[j] # listeners[k]
                <5>1. j \in Bound \ todo
                    BY <3>1, <4>3
                <5>2. acl[listeners[j]] = ListenerOf(rcfg, j).allow_from
                    BY <3>1, <5>1 DEF Progress, Matches
                <5> QED
                    BY <3>1, <4>1, <4>3, <5>2 DEF ReloadTypeOK
            <4> QED
                BY <4>2, <4>3
        <3>6. Progress'
            BY <3>1, <3>2, <3>4, <3>5 DEF Progress, Matches
        <3>7. PendingIsNew' /\ CellsAreShared'
            BY <3>1, <3>4 DEF PendingIsNew, CellsAreShared
        <3> QED
            BY <3>3, <3>6, <3>7
    <2>10. CASE HotSwapped
        <3>1. ReloadTypeOK'
            BY <2>10 DEF HotSwapped, ReloadTypeOK
        <3>2. Bound' = Bound /\ Pending' = Pending
            BY <2>10 DEF HotSwapped, Bound, Pending
        <3>3. Progress'
            BY <2>10, <3>2 DEF HotSwapped, Progress, Matches
        <3>4. PendingIsNew' /\ CellsAreShared'
            BY <2>10, <3>2 DEF HotSwapped, PendingIsNew, CellsAreShared
        <3> QED
            BY <3>1, <3>3, <3>4
    <2>11. CASE Alloc
        <3> DEFINE new == {l \in Listeners[rcfg] : ~(KeysOf(l) \subseteq Bound)}
                   fits == {f \in [new -> Cell \ InUse] : \A l, m \in new : l # m => f[l] # f[m]}
                   at == CHOOSE f \in fits : TRUE
        <3>1. /\ at \in fits
              /\ acl' = [c \in Cell |->
                           IF \E l \in new : at[l] = c
                             THEN (CHOOSE l \in new : at[l] = c).allow_from ELSE acl[c]]
              /\ pending' = [k \in ListenerKey |->
                               IF k \in Desired(rcfg) \ Bound
                                 THEN at[ListenerOf(rcfg, k)] ELSE Nothing]
            BY <2>11 DEF Alloc
        <3> HIDE DEF at
        <3>2. /\ rpc = "alloc" /\ rpc' = "bind" /\ rcfg \in Config
              /\ UNCHANGED <<file, rcfg, handler, forwarders_swap, listeners, sock, todo, conn>>
            BY <2>11 DEF Alloc, ReloadTypeOK
        <3>3. /\ \A l \in new : at[l] \in Cell \ InUse
              /\ \A l, m \in new : l # m => at[l] # at[m]
            BY <3>1
        <3>4. ASSUME NEW k \in Desired(rcfg) \ Bound, k \in ListenerKey
              PROVE  /\ ListenerOf(rcfg, k) \in new
                     /\ pending'[k] = at[ListenerOf(rcfg, k)]
                     /\ pending'[k] \in Cell \ InUse
                     /\ acl'[pending'[k]] = ListenerOf(rcfg, k).allow_from
            <4>1. ListenerOf(rcfg, k) \in new
                BY <3>2, ListenerOfKey
            <4>2. pending'[k] = at[ListenerOf(rcfg, k)]
                BY <3>1, <3>4
            <4>3. \A l \in new : at[l] = at[ListenerOf(rcfg, k)] => l = ListenerOf(rcfg, k)
                BY <3>3, <4>1
            <4>4. (CHOOSE l \in new : at[l] = at[ListenerOf(rcfg, k)]) = ListenerOf(rcfg, k)
                BY <4>1, <4>3
            <4>5. acl'[at[ListenerOf(rcfg, k)]] = ListenerOf(rcfg, k).allow_from
                BY <3>1, <3>3, <4>1, <4>4
            <4> QED
                BY <3>3, <4>1, <4>2, <4>5
        <3>5. ReloadTypeOK'
            <4>1. pending' \in [ListenerKey -> Cell \cup {Nothing}]
                BY <3>1, <3>4
            <4>2. acl' \in [Cell -> SUBSET Peer]
                <5>1. \A l \in new : l.allow_from \in SUBSET Peer
                    BY <3>2
                <5>2. \A c \in Cell : (\E l \in new : at[l] = c) =>
                          (CHOOSE l \in new : at[l] = c) \in new
                    OBVIOUS
                <5> HIDE DEF new, fits
                <5> QED
                    BY <3>1, <5>1, <5>2 DEF ReloadTypeOK
            <4> QED
                BY <3>2, <4>1, <4>2 DEF ReloadTypeOK
        <3>6. Bound' = Bound /\ \A k \in Bound : listeners[k] \in Cell /\ listeners[k] \in InUse
            BY <3>2 DEF Bound, ReloadTypeOK, InUse
        <3>7. \A k \in Bound : acl'[listeners[k]] = acl[listeners[k]]
            <4>1. \A k \in Bound : ~ \E l \in new : at[l] = listeners[k]
                BY <3>3, <3>6
            <4> HIDE DEF new, fits
            <4> QED
                BY <3>1, <3>6, <4>1
        <3>8. Progress'
            BY <3>2, <3>6, <3>7 DEF Progress, Matches
        <3>9. \A k \in ListenerKey : pending'[k] # Nothing => k \in Desired(rcfg) \ Bound
            BY <3>1
        <3>10. PendingIsNew'
            BY <3>2, <3>4, <3>9 DEF PendingIsNew, Pending
        <3>11. CellsAreShared'
            <4> SUFFICES ASSUME NEW k \in ListenerKey, NEW l \in ListenerKey, NEW c \in Cell,
                                c \in {listeners[k], pending'[k]}, c \in {listeners[l], pending'[l]}
                         PROVE  Together(k, l)
                BY <3>2 DEF CellsAreShared, Together
            <4>1. CASE c = listeners[k] /\ c = listeners[l]
                BY <4>1 DEF CellsAreShared
            <4>2. \A i, j \in ListenerKey : pending'[i] = c => listeners[j] # c
                BY <3>4, <3>9, SMTT(30) DEF InUse
            <4>3. CASE c = pending'[k] /\ c = pending'[l]
                <5>1. k \in Desired(rcfg) \ Bound /\ l \in Desired(rcfg) \ Bound
                    BY <3>9, <4>3
                <5>2. at[ListenerOf(rcfg, k)] = at[ListenerOf(rcfg, l)]
                    BY <3>4, <4>3, <5>1
                <5>3. ListenerOf(rcfg, k) = ListenerOf(rcfg, l)
                    BY <3>3, <3>4, <5>1, <5>2
                <5> QED
                    BY <3>2, <5>1, <5>3 DEF Together
            <4> QED
                BY <4>1, <4>2, <4>3
        <3> QED
            BY <3>5, <3>8, <3>10, <3>11
    <2>12. ASSUME NEW k \in ListenerKey, Bind(k) PROVE ReloadInv'
        <3>1. /\ rpc = "bind" /\ pending[k] # Nothing
              /\ sock' = [sock EXCEPT ![k] = pending[k]]
              /\ listeners' = [listeners EXCEPT ![k] = pending[k]]
              /\ pending' = [pending EXCEPT ![k] = Nothing]
              /\ UNCHANGED <<file, rpc, rcfg, handler, forwarders_swap, acl, todo, conn>>
            BY <2>12 DEF Bind, Pending
        <3>2. ReloadTypeOK'
            BY <3>1 DEF ReloadTypeOK
        <3>3. k \in Desired(rcfg) /\ acl[pending[k]] = ListenerOf(rcfg, k).allow_from
            BY <3>1 DEF PendingIsNew, Pending
        <3>4. \A j \in ListenerKey : /\ listeners'[j] = IF j = k THEN pending[k] ELSE listeners[j]
                                     /\ pending'[j] = IF j = k THEN Nothing ELSE pending[j]
            BY <3>1 DEF ReloadTypeOK
        <3>5. Progress'
            BY <3>1, <3>3, <3>4 DEF Progress, Matches, Bound
        <3>6. PendingIsNew'
            BY <3>1, <3>4, SMTT(30) DEF PendingIsNew, Pending
        <3>7. CellsAreShared'
            BY <3>1, <3>4, SMTT(30) DEF CellsAreShared
        <3> QED
            BY <3>2, <3>5, <3>6, <3>7
    <2>13. CASE PublishListeners
        <3>1. ReloadTypeOK'
            BY <2>13 DEF PublishListeners, ReloadTypeOK, NoCells
        <3>2. Bound' = Bound /\ Pending' = {} /\ Snapshot' = Snapshot
            BY <2>13 DEF PublishListeners, Bound, Pending, Snapshot, NoCells
        <3>3. Progress'
            BY <2>13, <3>2 DEF PublishListeners, Progress, Matches
        <3>4. PendingIsNew' /\ CellsAreShared'
            BY <2>13, <3>2 DEF PublishListeners, PendingIsNew, CellsAreShared, NoCells
        <3> QED
            BY <3>1, <3>3, <3>4
    <2>14. CASE UNCHANGED reloadVars
        BY <2>14, ReloadUntouched DEF reloadVars, main, ReloadTypeOK
    <2> QED
        BY <2>1, <2>2, <2>3, <2>4, <2>5, <2>6, <2>7, <2>8, <2>9, <2>10, <2>11, <2>12, <2>13, <2>14
        DEF ReloadNext, Reloading
<1> QED
    BY <1>1, <1>2, PTL DEF ReloadSpec

\* Between reloads the handler, the listeners with their allow_from, and what
\* the control socket shows come from one config, whatever failed on the way
\* (reload, bind_listener_set_with_retry).
THEOREM ListenersFollowConfig ==
    ASSUME NoSplit
    PROVE  ReloadSpec => []ListenersMatchHandler
<1>1. ReloadInv => ListenersMatchHandler
    BY DEF ReloadInv, Progress, Matches, ListenersMatchHandler
<1> QED
    BY <1>1, ReloadInvariant, PTL

\* "a SIGHUP that drops a CIDR boots already-connected clients": between reloads
\* a query on an open connection of a listener the config still has is served
\* only to a peer the config admits (serve_connection).
THEOREM DroppedPeersAreBooted ==
    ASSUME NoSplit
    PROVE  ReloadSpec => OutsidersAreBooted
<1> DEFINE Step == \A c \in Conn :
                      /\ rpc = "idle"
                      /\ conn[c].st = "open" /\ conn'[c].st = "busy"
                      /\ listeners[conn[c].key] = conn[c].cell
                      => conn[c].peer \in ListenerOf(handler, conn[c].key).allow_from
<1>1. ReloadInv /\ [ReloadNext]_reloadVars => [Step]_reloadVars
    <2> SUFFICES ASSUME ReloadInv, ReloadNext, NEW c \in Conn,
                        rpc = "idle", conn[c].st = "open", conn'[c].st = "busy",
                        listeners[conn[c].key] = conn[c].cell
                 PROVE  conn[c].peer \in ListenerOf(handler, conn[c].key).allow_from
        OBVIOUS
    <2>1. conn \in [Conn -> Served \cup {FreeConn}]
        BY DEF ReloadInv, ReloadTypeOK
    <2>2. conn[c].key \in ListenerKey /\ conn[c].cell \in Cell
        BY <2>1, SMTT(30) DEF Served, FreeConn
    <2>3. acl[conn[c].cell] = ListenerOf(handler, conn[c].key).allow_from
        BY <2>2, ReloadAssumption DEF ReloadInv, Progress, Matches, Bound
    <2>4. conn[c].peer \in acl[conn[c].cell]
        <3>1. CASE conn' = conn
            BY <3>1
        <3>2. ASSUME NEW d \in Conn, NEW k \in ListenerKey, NEW p \in Peer,
                     Datagram(d, k, p) \/ Accept(d, k, p)
              PROVE  conn[c].peer \in acl[conn[c].cell]
            BY <2>1, <3>2 DEF Datagram, Accept, Serving
        <3>3. ASSUME NEW d \in Conn, Request(d)
              PROVE  conn[c].peer \in acl[conn[c].cell]
            BY <2>1, <3>3 DEF Request, FreeConn
        <3>4. ASSUME NEW d \in Conn, Reply(d) \/ Hangup(d)
              PROVE  conn[c].peer \in acl[conn[c].cell]
            BY <2>1, <3>4, SMTT(30) DEF Reply, Hangup, FreeConn
        <3> QED
            BY <3>1, <3>2, <3>3, <3>4
            DEF ReloadNext, Reloading, Edit, Sighup, Load, BuildFails, SwapHandler, Retain, HotSwap,
                HotSwapped, Alloc, Bind, PublishListeners, DropSocket, Prewarm
    <2> QED
        BY <2>3, <2>4
<1> QED
    BY <1>1, ReloadInvariant, PTL DEF ReloadSpec, OutsidersAreBooted

-----------------------------------------------------------------------------
\* No listener task outlives its entry: a socket is tracked with the cell its
\* task reads, or was told to stop (Retain, Bind, JoinHandle::abort).  It takes
\* no assumption on the configs.
THEOREM SocketsAreTracked == ReloadSpec => []NoOrphanSocket
<1> DEFINE Inv == /\ NoOrphanSocket
                  /\ DOMAIN sock = ListenerKey
                  /\ DOMAIN listeners = ListenerKey
<1>1. ReloadInit => Inv
    BY DEF ReloadInit, NoOrphanSocket, NoCells
<1>2. Inv /\ [ReloadNext]_reloadVars => Inv'
    <2> SUFFICES ASSUME Inv, [ReloadNext]_reloadVars
                 PROVE  Inv'
        OBVIOUS
    <2>1. CASE Retain
        BY <2>1 DEF Retain, NoOrphanSocket, Bound
    <2>2. ASSUME NEW k \in ListenerKey, Bind(k) PROVE Inv'
        BY <2>2 DEF Bind, NoOrphanSocket
    <2>3. ASSUME NEW k \in ListenerKey, DropSocket(k) PROVE Inv'
        BY <2>3 DEF DropSocket, NoOrphanSocket, main
    <2>4. CASE UNCHANGED <<sock, listeners, aborted>>
        BY <2>4 DEF NoOrphanSocket
    <2> QED
        BY <2>1, <2>2, <2>3, <2>4
        DEF ReloadNext, Reloading, reloadVars, main, Edit, Sighup, Load, BuildFails, SwapHandler, HotSwap,
            HotSwapped, Alloc, PublishListeners, Prewarm, Datagram, Accept, Request, Reply, Hangup
<1> QED
    BY <1>1, <1>2, PTL DEF ReloadSpec
=============================================================================
