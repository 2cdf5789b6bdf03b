---- MODULE FrontendProofs ----
(***************************************************************************)
(* Datagrams and streams, and what every listener promises: the permits    *)
(* balance, framing never slips, and nothing is dropped in silence, for    *)
(* every request a client may send and for every cap.                      *)
(***************************************************************************)
EXTENDS ListenerProofs, FiniteSetTheorems

\* The leaves are first-order steps; the ones that need arithmetic, sequences or
\* records cite SMT.
USE ZenonT(30)

---------------------------------------------------------------------------
(* Keep-alive: the answers of a connection and its count of requests.      *)
KeepAliveInv ==
    kind = "doh" =>
        /\ \A k \in 1..(Len(out) - 1) : ~out[k].close
        /\ Len(out) >= MAX_REQS_PER_CONN => out[Len(out)].close /\ conn.pc = "closed"
        /\ conn.pc # "closed" => \A k \in 1..Len(out) : ~out[k].close
        /\ conn.pc = "new" => Len(out) = 0
        /\ conn.pc \in {"head", "body", "handle"} =>
              conn.count = Len(out) + 1 /\ conn.count <= MAX_REQS_PER_CONN
        /\ conn.pc \in {"body", "handle"} => (conn.count = MAX_REQS_PER_CONN => conn.close)

---------------------------------------------------------------------------
(* Datagrams. *)

\* There are finitely many tasks.
LEMMA RunningFinite ==
    ASSUME ShapeInv
    PROVE  IsFiniteSet(Running) /\ Cardinality(Running) \in Nat
<1>1. Running \subseteq 1..Len(sent) /\ Len(sent) \in Nat
    BY RunningShape, SMTT(30) DEF ShapeInv, ClientOK
<1>2. IsFiniteSet(1..Len(sent))
    BY <1>1, FS_Interval, SMTT(30)
<1>3. IsFiniteSet(Running)
    BY <1>1, <1>2, FS_Subset
<1> QED
    BY <1>3, FS_CardinalityType

\* A step that changes neither tasks nor what is written or under way.
LEMMA DatagramsKept ==
    ASSUME DatagramsInv, UNCHANGED <<kind, wire, tasks, permits, out>>,
           conn'.pc # "closed" => conn.pc # "closed"
    PROVE  DatagramsInv'
BY DEF DatagramsInv, PermitsBalanced, Running, Silent

\* The tasks of the datagrams hold what the semaphore has given away.
LEMMA DatagramsStep ==
    ASSUME ShapeInv, DatagramsInv, [Next]_vars
    PROVE  DatagramsInv'
<1>0. CASE kind # "udp"
    BY <1>0, KindKept DEF DatagramsInv
<1> SUFFICES ASSUME kind = "udp"
             PROVE  DatagramsInv'
    BY <1>0
<1>1. /\ permits \in Nat /\ permits + Cardinality(Running) = MAX_INFLIGHT /\ MAX_INFLIGHT \in Nat
      /\ IsFiniteSet(Running) /\ Cardinality(Running) \in Nat
      /\ conn.pc \in {"parked", "drain", "closed"}
      /\ Running \subseteq 1..Len(sent) /\ DOMAIN tasks = 1..MaxSends
      /\ wire \in Seq(Unit) /\ Len(wire) \in Nat /\ sent \in Seq(Request) /\ Len(sent) \in Nat
      /\ conn \in Connection /\ <<>> \in Seq(Unit)
    BY ListenerAssumption, RunningFinite, RunningShape, SMTT(30)
       DEF DatagramsInv, PermitsBalanced, ShapeInv, PlaceInv, WireOK, ClientOK, ConnOK
<1>2. CASE Send
    <2>0. UNCHANGED <<kind, conn, tasks, permits, out>> /\ conn.pc # "closed"
        BY <1>2, SendFacts
    <2>1. PICK r \in Request, n \in Nat, f \in Seq(Unit), k \in Nat : Sent(r, n, f, k)
        BY <1>2, SendFacts
    <2>2. f = <<<<n, "d">>>> /\ n = Len(sent) + 1 /\ n \in 1..MaxSends
        BY <2>1 DEF Sent, Frame
    <2>3. k = 1 /\ Len(wire') = Len(wire) + 1
        <3>1. Len(f) = 1
            BY <2>2, SMTT(30)
        <3>2. k = 1
            BY <2>1, <3>1, SMTT(30) DEF Sent
        <3>3. Len(wire') = Len(wire) + k
            BY <2>1 DEF Sent
        <3> QED
            BY <3>2, <3>3
    <2>4. wire'[Len(wire) + 1][1] = n
        <3>1. Len(wire) + 1 \in (Len(wire) + 1)..(Len(wire) + k) /\ (Len(wire) + 1) - Len(wire) = 1
            BY <1>1, <2>3, SMTT(30)
        <3>2. wire'[Len(wire) + 1] = f[1]
            BY <2>1, <3>1 DEF Sent
        <3> QED
            BY <2>2, <3>2, SMTT(30)
    <2>5. \A j \in 1..Len(wire) : wire'[j] = wire[j] /\ wire[j][1] \in 1..Len(sent)
        BY <2>1 DEF Sent, ShapeInv, WireOK
    <2>6. tasks[n].pc = "none"
        <3>1. ~(n <= Len(sent))
            BY <1>1, <2>2, SMTT(30)
        <3> QED
            BY <2>2, <3>1 DEF ShapeInv, TasksOK
    <2>7. Silent(n)
        <3>1. n \notin 1..Len(sent)
            BY <1>1, <2>2, SMTT(30)
        <3> QED
            BY <3>1 DEF ShapeInv, OutOK, Silent
    <2>8. \A j \in 1..Len(wire) : tasks[wire[j][1]].pc = "none" /\ Silent(wire[j][1])
        BY <2>0 DEF DatagramsInv
    <2>9. \A j \in 1..Len(wire') : tasks[wire'[j][1]].pc = "none" /\ Silent(wire'[j][1])
        <3> SUFFICES ASSUME NEW j \in 1..Len(wire')
                     PROVE  tasks[wire'[j][1]].pc = "none" /\ Silent(wire'[j][1])
            OBVIOUS
        <3>1. j \in 1..Len(wire) \/ j = Len(wire) + 1
            BY <1>1, <2>3, SMTT(30)
        <3> QED
            BY <2>4, <2>5, <2>6, <2>7, <2>8, <3>1
    <2>10. \A j, m \in 1..Len(wire') : wire'[j][1] = wire'[m][1] => j = m
        <3> SUFFICES ASSUME NEW j \in 1..Len(wire'), NEW m \in 1..Len(wire'),
                            wire'[j][1] = wire'[m][1]
                     PROVE  j = m
            OBVIOUS
        <3>1. /\ j \in 1..Len(wire) \/ j = Len(wire) + 1
              /\ m \in 1..Len(wire) \/ m = Len(wire) + 1
            BY <1>1, <2>3, SMTT(30)
        <3>2. n \notin 1..Len(sent)
            BY <1>1, <2>2, SMTT(30)
        <3>3. \A a, b \in 1..Len(wire) : wire[a][1] = wire[b][1] => a = b
            BY <2>0 DEF DatagramsInv
        <3> QED
            BY <2>4, <2>5, <3>1, <3>2, <3>3
    <2>11. (\A j \in 1..Len(wire) : tasks[wire[j][1]].pc = "none" /\ Silent(wire[j][1]))'
        BY <2>0, <2>9 DEF Silent
    <2> QED
        BY <2>0, <2>10, <2>11 DEF DatagramsInv, PermitsBalanced, Running, Silent
<1>3. CASE Reload \/ BecomeReady \/ UNCHANGED listenerVars
    <2>1. UNCHANGED <<kind, wire, conn, tasks, permits, out>>
        BY <1>3 DEF Reload, BecomeReady, listenerVars
    <2> QED
        BY <2>1, DatagramsKept
<1>4. CASE Wake \/ SocketError
    <2>1. UNCHANGED <<kind, wire, tasks, permits, out>> /\ conn.pc \in {"parked", "drain"}
        BY <1>4 DEF Wake, SocketError, Server
    <2> QED
        BY <2>1, DatagramsKept
<1>5. CASE HostGone
    <2>1. /\ UNCHANGED <<kind, wire, out>> /\ permits' = MAX_INFLIGHT /\ conn'.pc = "closed"
          /\ tasks' = [t \in DOMAIN tasks |-> NoTask]
        BY <1>1, <1>5, ClosedShape DEF HostGone
    <2>2. Running' = {}
        BY <2>1 DEF Running, NoTask
    <2>3. Cardinality(Running') = 0
        BY <2>2, FS_EmptySet
    <2> QED
        BY <1>1, <2>1, <2>2, <2>3, SMTT(30) DEF DatagramsInv, PermitsBalanced
<1>6. CASE Drain
    <2>0. UNCHANGED <<kind, sent>> /\ conn.pc = "drain"
        BY <1>6 DEF Drain, Server, client
    <2> DEFINE id == wire[1][1]
    <2>1. CASE UNCHANGED <<wire, tasks, permits, out>>
        BY <2>0, <2>1, DatagramsKept
    <2>2. CASE /\ wire # <<>> /\ wire' = Tail(wire) /\ UNCHANGED conn
               /\ \/ UNCHANGED <<tasks, permits, out>>
                  \/ Shed(id)
                  \/ Spawn(id)
        <3>1. Len(wire) >= 1 /\ Len(wire') = Len(wire) - 1
              /\ \A j \in 1..(Len(wire) - 1) : wire'[j] = wire[j + 1]
            BY <1>1, <2>2, SMTT(30)
        <3>2. id \in 1..Len(sent)
            BY <1>1, <3>1, SMTT(30) DEF ShapeInv, WireOK
        <3>3. tasks[id].pc = "none" /\ Silent(id)
            BY <1>1, <2>0, <3>1, SMTT(30) DEF DatagramsInv
        <3>4. ASSUME NEW j \in 1..Len(wire')
              PROVE  wire'[j] = wire[j + 1] /\ j + 1 \in 1..Len(wire) /\ wire[j + 1][1] # id
            <4>1. j + 1 \in 1..Len(wire) /\ 1 \in 1..Len(wire) /\ j + 1 # 1
                BY <1>1, <3>1, SMTT(30)
            <4>2. wire[j + 1][1] # id
                BY <2>0, <4>1 DEF DatagramsInv
            <4> QED
                BY <3>1, <4>1, <4>2
        <3>5. \A j, k \in 1..Len(wire') : wire'[j][1] = wire'[k][1] => j = k
            <4> SUFFICES ASSUME NEW j \in 1..Len(wire'), NEW k \in 1..Len(wire'),
                                wire'[j][1] = wire'[k][1]
                         PROVE  j = k
                OBVIOUS
            <4>1. j + 1 = k + 1
                BY <2>0, <3>4 DEF DatagramsInv
            <4> QED
                BY <4>1, SMTT(30)
        <3> HIDE DEF id
        <3>6. CASE UNCHANGED <<tasks, permits, out>>
            <4>1. (\A k \in 1..Len(wire) : tasks[wire[k][1]].pc = "none" /\ Silent(wire[k][1]))'
                BY <2>0, <3>4, <3>6, SMTT(30) DEF DatagramsInv, Silent
            <4> QED
                BY <2>0, <3>5, <3>6, <4>1 DEF DatagramsInv, PermitsBalanced, Running, Silent
        <3>7. CASE Shed(id)
            <4>1. /\ UNCHANGED <<tasks, permits>>
                  /\ UNCHANGED out \/ Reply(id, 5, <<>>, FALSE)
                BY <3>7 DEF Shed
            <4>2. 5 \in Nat /\ FALSE \in BOOLEAN
                OBVIOUS
            <4>3. UNCHANGED out \/ Wrote(id)
                BY <1>1, <2>0, <3>2, <4>1, <4>2, ReplyWrote
            <4>4. \A j : j # id /\ Silent(j) => Silent(j)'
                BY <4>3, SilentKept DEF Silent
            <4>5. (\A k \in 1..Len(wire) : tasks[wire[k][1]].pc = "none" /\ Silent(wire[k][1]))'
                <5>1. \A j : j # id /\ Silent(j) => \A m \in 1..Len(out') : out'[m].id # j
                    BY <4>4 DEF Silent
                <5>2. \A k \in 1..Len(wire') : tasks[wire'[k][1]].pc = "none" /\ Silent(wire'[k][1])
                                              /\ wire'[k][1] # id
                    BY <2>0, <3>4, SMTT(30) DEF DatagramsInv
                <5>3. \A k \in 1..Len(wire') : \A m \in 1..Len(out') : out'[m].id # wire'[k][1]
                    BY <5>1, <5>2
                <5> QED
                    BY <4>1, <5>2, <5>3 DEF Silent
            <4>6. \A i \in Running : i # id
                BY <3>3 DEF Running
            <4>7. Running' = Running
                BY <4>1 DEF Running
            <4>8. \A i \in Running' : Silent(i)'
                BY <4>4, <4>6, <4>7 DEF DatagramsInv
            <4> QED
                BY <1>1, <2>0, <3>5, <4>1, <4>5, <4>7, <4>8 DEF DatagramsInv, PermitsBalanced
        <3>8. CASE Spawn(id)
            <4>1. /\ UNCHANGED out /\ tasks' = [tasks EXCEPT ![id].pc = "handle"]
                  /\ permits > 0 /\ permits' = permits - 1
                BY <3>8 DEF Spawn
            <4>2. id \in 1..MaxSends /\ tasks \in [1..MaxSends -> Task] /\ tasks[id] \in Task
                BY <3>2, RunningShape DEF ShapeInv, TasksOK
            <4>3. /\ tasks'[id].pc = "handle" /\ DOMAIN tasks' = 1..MaxSends
                  /\ \A j \in 1..MaxSends : j # id => tasks'[j] = tasks[j]
                BY <4>1, <4>2 DEF Task
            <4>4. Running' = Running \union {id} /\ id \notin Running
                BY <1>1, <3>3, <4>2, <4>3 DEF Running
            <4>5. Cardinality(Running') = Cardinality(Running) + 1
                BY <1>1, <4>4, FS_AddElement
            <4>6. \A k \in 1..Len(wire') :
                     wire[k + 1][1] \in 1..MaxSends /\ tasks[wire[k + 1][1]].pc = "none"
                BY <2>0, <3>4, RunningShape DEF DatagramsInv, ShapeInv, WireOK
            <4>7. (\A k \in 1..Len(wire) : tasks[wire[k][1]].pc = "none" /\ Silent(wire[k][1]))'
                <5>1. \A k \in 1..Len(wire') : tasks'[wire'[k][1]].pc = "none"
                    BY <3>4, <4>3, <4>6, SMTT(30)
                <5>2. \A k \in 1..Len(wire') : Silent(wire'[k][1])
                    BY <2>0, <3>4 DEF DatagramsInv
                <5> QED
                    BY <4>1, <5>1, <5>2 DEF Silent
            <4>8. \A i \in Running' : Silent(i)'
                BY <3>3, <4>1, <4>4 DEF DatagramsInv, Silent
            <4>9. permits' \in Nat /\ permits' + Cardinality(Running') = MAX_INFLIGHT
                <5> DEFINE c == Cardinality(Running)
                <5>1. permits \in Nat /\ c \in Nat /\ permits + c = MAX_INFLIGHT
                    BY <1>1
                <5>2. permits > 0 /\ permits' = permits - 1 /\ Cardinality(Running') = c + 1
                    BY <4>1, <4>5
                <5> HIDE DEF c
                <5> QED
                    BY <5>1, <5>2, SMTT(30)
            <4> QED
                BY <2>0, <3>5, <4>7, <4>8, <4>9 DEF DatagramsInv, PermitsBalanced
        <3> QED
            BY <2>2, <3>6, <3>7, <3>8
    <2> QED
        BY <1>6, <2>1, <2>2 DEF Drain
<1>7. CASE HandledDatagram
    <2>1. UNCHANGED <<kind, sent, wire, conn>> /\ permits' = permits + 1
        BY <1>7 DEF HandledDatagram, Server, client
    <2>2. PICK i \in Running :
             /\ tasks' = [tasks EXCEPT ![i].pc = "ended"]
             /\ UNCHANGED out \/ Reply(i, 0, <<>>, FALSE)
        BY <1>7 DEF HandledDatagram
    <2>3. i \in 1..Len(sent) /\ i \in 1..MaxSends /\ tasks \in [1..MaxSends -> Task]
          /\ tasks[i] \in Task /\ tasks[i].pc # "none"
        BY RunningShape DEF ShapeInv, TasksOK, Running
    <2>4. /\ tasks'[i].pc = "ended" /\ DOMAIN tasks' = 1..MaxSends
          /\ \A j \in 1..MaxSends : j # i => tasks'[j] = tasks[j]
        BY <2>2, <2>3 DEF Task
    <2>5. Running' = Running \ {i}
        BY <1>1, <2>3, <2>4 DEF Running
    <2>6. Cardinality(Running') = Cardinality(Running) - 1
        BY <1>1, <2>5, FS_RemoveElement
    <2>7. UNCHANGED out \/ Wrote(i)
        <3>1. 0 \in Nat /\ FALSE \in BOOLEAN
            OBVIOUS
        <3> QED
            BY <1>1, <2>1, <2>2, <2>3, <3>1, ReplyWrote
    <2>8. \A j : j # i /\ Silent(j) => Silent(j)'
        BY <2>7, SilentKept DEF Silent
    <2>9. \A j \in Running' : Silent(j)'
        BY <2>5, <2>8 DEF DatagramsInv
    <2>10. conn.pc # "closed" =>
              (\A k \in 1..Len(wire) : tasks[wire[k][1]].pc = "none" /\ Silent(wire[k][1]))'
        <3> SUFFICES ASSUME conn.pc # "closed", NEW k \in 1..Len(wire)
                     PROVE  /\ tasks'[wire[k][1]].pc = "none"
                            /\ \A m \in 1..Len(out') : out'[m].id # wire[k][1]
            BY <2>1 DEF Silent
        <3> DEFINE w == wire[k][1]
        <3>1. tasks[w].pc = "none" /\ Silent(w) /\ w \in 1..Len(sent)
            BY DEF DatagramsInv, ShapeInv, WireOK
        <3>2. w # i /\ w \in 1..MaxSends
            <4>1. tasks[i].pc # "none"
                BY DEF Running
            <4> QED
                BY <3>1, <4>1, RunningShape
        <3> HIDE DEF w
        <3>3. tasks'[w].pc = "none" /\ \A m \in 1..Len(out') : out'[m].id # w
            BY <2>4, <2>8, <3>1, <3>2 DEF Silent
        <3> QED
            BY <3>3 DEF w
    <2>11. permits' \in Nat /\ permits' + Cardinality(Running') = MAX_INFLIGHT
        BY <1>1, <2>1, <2>6, SMTT(30)
    <2> QED
        BY <2>1, <2>9, <2>10, <2>11 DEF DatagramsInv, PermitsBalanced
<1> QED
    <2>1. ListenerNext => Send \/ Reload \/ BecomeReady \/ Wake \/ SocketError \/ Drain
                         \/ HandledDatagram
        BY <1>1 DEF ListenerNext, ServerNext, Hangup, HandshakeEnds, HeadTimeout, Accept,
           ReadFramed, ReadMessage, HandledFramed, ReadHead, StartRequest, ReadBody, HandledHttp,
           AcceptStream, ReadStream, HandledStream, EndStreams
    <2> QED
        BY <1>2, <1>3, <1>4, <1>5, <1>6, <1>7, <2>1, Steps

\* The permits of the UDP listener are conserved, whatever their number.
THEOREM PermitsAreBalanced == Spec => [](DatagramsInv /\ PermitsBalanced)
<1>1. Init => DatagramsInv
    <2> SUFFICES ASSUME Init, kind = "udp"
                 PROVE  DatagramsInv
        BY DEF DatagramsInv
    <2>1. /\ tasks = [i \in 1..MaxSends |-> NoTask] /\ wire = <<>> /\ out = <<>>
          /\ permits = MAX_INFLIGHT /\ MAX_INFLIGHT \in Nat
        BY ListenerAssumption DEF Init, ListenerInit
    <2>2. Running = {}
        BY <2>1 DEF Running, NoTask
    <2>3. Cardinality(Running) = 0
        BY <2>2, FS_EmptySet
    <2>4. Len(wire) = 0
        BY <2>1
    <2> QED
        BY <2>1, <2>2, <2>3, <2>4, SMTT(30) DEF DatagramsInv, PermitsBalanced
<1>2. ShapeInv /\ DatagramsInv /\ [Next]_vars => DatagramsInv'
    BY DatagramsStep
<1>3. DatagramsInv => PermitsBalanced
    BY DEF DatagramsInv, PermitsBalanced
<1> QED
    BY <1>1, <1>2, <1>3, ListenerShape, PTL DEF Spec

---------------------------------------------------------------------------
(* Streams. *)

\* There are finitely many frames under way.
LEMMA FramesFinite ==
    ASSUME WireOK, NEW u
    PROVE  IsFiniteSet(At(u)) /\ Cardinality(At(u)) \in Nat
<1>1. Len(wire) \in Nat
    BY SMTT(30) DEF WireOK
<1>2. IsFiniteSet(1..Len(wire)) /\ At(u) \subseteq 1..Len(wire)
    BY <1>1, FS_Interval, SMTT(30) DEF At
<1>3. IsFiniteSet(At(u))
    BY <1>2, FS_Subset
<1> QED
    BY <1>3, FS_CardinalityType

\* Where a frame was before frame k was taken out.
Before(k, j) == IF j < k THEN j ELSE j + 1

\* One frame is taken; the others keep their order.
LEMMA FrameTaken ==
    ASSUME WireOK, UNCHANGED sent, NEW k \in 1..Len(wire), wire' = Without(k), NEW u
    PROVE  /\ \A j \in At(u)' : j \in Nat /\ Before(k, j) \in At(u) /\ Before(k, j) # k
           /\ Cardinality(At(u)') = IF wire[k] = u THEN Cardinality(At(u)) - 1
                                    ELSE Cardinality(At(u))
<1>1. /\ Len(wire) \in Nat /\ Len(wire') = Len(wire) - 1
      /\ \A j \in 1..(k - 1) : wire'[j] = wire[j]
      /\ \A j \in k..(Len(wire) - 1) : wire'[j] = wire[j + 1]
      /\ k \in Nat /\ k >= 1 /\ k <= Len(wire)
    BY WireWithout, SMTT(30)
<1> DEFINE S == At(u) \ {k}
           T == At(u)'
           n == Len(wire)
           F == [i \in S |-> IF i < k THEN i ELSE i - 1]
<1>2. \A i : i \in S <=> i \in 1..n /\ wire[i] = u /\ i # k
    BY DEF At
<1>3. \A j : j \in T <=> j \in 1..(n - 1) /\ wire'[j] = u
    BY <1>1 DEF At
<1> HIDE DEF S, T, n
<1>4. /\ n \in Nat /\ k <= n
      /\ \A j \in 1..(k - 1) : wire'[j] = wire[j]
      /\ \A j \in k..(n - 1) : wire'[j] = wire[j + 1]
    BY <1>1 DEF n
<1>5. ASSUME NEW i \in S
      PROVE  F[i] \in T
    <2>0. i \in Nat /\ i >= 1 /\ i <= n /\ i # k /\ wire[i] = u
        BY <1>2, <1>4, SMTT(30)
    <2>1. CASE i < k
        <3>1. i \in 1..(k - 1) /\ i \in 1..(n - 1) /\ F[i] = i
            BY <1>1, <1>4, <2>0, <2>1, SMTT(30)
        <3> QED
            BY <1>3, <1>4, <2>0, <3>1
    <2>2. CASE ~(i < k)
        <3>1. i - 1 \in k..(n - 1) /\ i - 1 \in 1..(n - 1) /\ (i - 1) + 1 = i /\ F[i] = i - 1
            BY <1>1, <1>4, <2>0, <2>2, SMTT(30)
        <3> QED
            BY <1>3, <1>4, <2>0, <3>1
    <2> QED
        BY <2>1, <2>2
<1>6. ASSUME NEW a \in S, NEW b \in S, F[a] = F[b]
      PROVE  a = b
    <2>1. a \in Nat /\ b \in Nat /\ a # k /\ b # k
        BY <1>2, <1>4, SMTT(30)
    <2>2. F[a] = (IF a < k THEN a ELSE a - 1) /\ F[b] = (IF b < k THEN b ELSE b - 1)
        OBVIOUS
    <2>3. (IF a < k THEN a ELSE a - 1) = (IF b < k THEN b ELSE b - 1) /\ k \in Nat
        BY <1>1, <1>6, <2>2
    <2> HIDE DEF F
    <2> QED
        BY <2>1, <2>3, SMTT(30)
<1>7. ASSUME NEW j \in T
      PROVE  j \in Nat /\ Before(k, j) \in S /\ F[Before(k, j)] = j
    <2>0. j \in Nat /\ j >= 1 /\ j <= n - 1 /\ wire'[j] = u
        BY <1>3, <1>4, SMTT(30)
    <2>1. CASE j < k
        <3>1. Before(k, j) = j /\ j \in 1..n /\ j \in 1..(k - 1) /\ j # k
            BY <1>1, <1>4, <2>0, <2>1, SMTT(30) DEF Before
        <3>2. j \in S
            BY <1>2, <1>4, <2>0, <3>1
        <3> QED
            BY <2>0, <2>1, <3>1, <3>2
    <2>2. CASE ~(j < k)
        <3>1. Before(k, j) = j + 1 /\ j + 1 \in 1..n /\ j \in k..(n - 1) /\ j + 1 # k /\ ~(j + 1 < k)
              /\ (j + 1) - 1 = j
            BY <1>1, <1>4, <2>0, <2>2, SMTT(30) DEF Before
        <3>2. j + 1 \in S
            BY <1>2, <1>4, <2>0, <3>1
        <3> QED
            BY <2>0, <3>1, <3>2
    <2> QED
        BY <2>1, <2>2
<1>8. ExistsBijection(S, T)
    <2>1. F \in [S -> T]
        BY <1>5
    <2>2. \A a, b \in S : F[a] = F[b] => a = b
        BY <1>6
    <2>3. \A j \in T : \E i \in S : F[i] = j
        BY <1>7
    <2> HIDE DEF F
    <2>4. F \in Bijection(S, T)
        BY <2>1, <2>2, <2>3 DEF Bijection, Injection, Surjection, IsInjective
    <2> QED
        BY <2>4 DEF ExistsBijection
<1>9. IsFiniteSet(At(u)) /\ Cardinality(At(u)) \in Nat
    BY FramesFinite
<1>10. IsFiniteSet(S) /\ Cardinality(S) = IF k \in At(u) THEN Cardinality(At(u)) - 1
                                          ELSE Cardinality(At(u))
    BY <1>9, FS_RemoveElement DEF S
<1>11. Cardinality(T) = Cardinality(S)
    BY <1>8, <1>10, FS_Bijection
<1>12. k \in At(u) <=> wire[k] = u
    BY DEF At
<1>13. \A j \in S : j \in At(u) /\ j # k
    BY DEF S
<1> QED
    BY <1>7, <1>10, <1>11, <1>12, <1>13 DEF T

\* The order of the frames of a stream outlasts a frame taken.
LEMMA FramesKept ==
    ASSUME WireOK, UNCHANGED sent, NEW k \in 1..Len(wire), wire' = Without(k), NEW i, FramesOK(i)
    PROVE  FramesOK(i)'
<1>1. k \in Nat /\ \A u : \A j \in At(u)' : j \in Nat /\ Before(k, j) \in At(u)
    BY FrameTaken, SMTT(30) DEF WireOK
<1>2. \A j, l \in Nat : Before(k, j) = Before(k, l) => j = l
    BY <1>1, SMTT(30) DEF Before
<1>3. \A j, l \in Nat : Before(k, j) < Before(k, l) => j < l
    BY <1>1, SMTT(30) DEF Before
<1>4. \A j, l \in At(<<i, "e">>)' : j = l
    <2> SUFFICES ASSUME NEW j \in At(<<i, "e">>)', NEW l \in At(<<i, "e">>)'
                 PROVE  j = l
        OBVIOUS
    <2>1. Before(k, j) = Before(k, l)
        BY <1>1 DEF FramesOK
    <2> QED
        BY <1>1, <1>2, <2>1
<1>5. \A j \in At(<<i, "b">>)', l \in At(<<i, "f">>)' : j < l
    <2> SUFFICES ASSUME NEW j \in At(<<i, "b">>)', NEW l \in At(<<i, "f">>)'
                 PROVE  j < l
        OBVIOUS
    <2>1. Before(k, j) < Before(k, l)
        BY <1>1 DEF FramesOK
    <2> QED
        BY <1>1, <1>3, <2>1
<1> QED
    BY <1>4, <1>5 DEF FramesOK

\* A frame of another stream.
LEMMA StreamOther ==
    ASSUME ShapeInv, UNCHANGED sent, NEW k \in 1..Len(wire), wire' = Without(k),
           NEW i \in 1..Len(sent), wire[k][1] # i, tasks'[i] = tasks[i], Silent(i) => Silent(i)',
           StreamOK(i)
    PROVE  StreamOK(i)'
<1>1. wire[k] # <<i, "b">> /\ WireOK
    BY SMTT(30) DEF ShapeInv
<1>2. Cardinality(At(<<i, "b">>)') = Cardinality(At(<<i, "b">>))
    BY <1>1, FrameTaken
<1>3. At(<<i, "e">>)' # {} => At(<<i, "e">>) # {}
    BY <1>1, FrameTaken
<1> QED
    BY <1>2, <1>3 DEF StreamOK

\* The frames of a new stream go behind those under way.
LEMMA StreamsSend ==
    ASSUME ShapeInv, StreamsInv, kind = "h2", Send
    PROVE  StreamsInv'
<1>1. UNCHANGED <<kind, eof, conn, tasks, out>> /\ conn.pc = "streams"
    BY SendFacts DEF ShapeInv, PlaceInv
<1>2. PICK r \in Request, n \in Nat, f \in Seq(Unit), k \in Nat : Sent(r, n, f, k)
    BY SendFacts
<1> DEFINE len == r.len
           q == Len(wire)
           m == Len(sent)
<1>3. /\ n = m + 1 /\ n \in 1..MaxSends /\ f = Frame(r, n) /\ Len(sent') = n /\ sent'[n] = r
      /\ \A i \in 1..m : sent'[i] = sent[i]
      /\ k >= 1 /\ k <= Len(f) /\ k >= Len(f) - 1
      /\ wire' \in Seq(Unit) /\ Len(wire') = q + k
      /\ \A j \in 1..q : wire'[j] = wire[j]
      /\ \A j \in (q + 1)..(q + k) : wire'[j] = f[j - q]
    BY <1>2 DEF Sent
<1>4. /\ len \in Nat /\ Len(f) = len + 2 /\ f[1] = <<n, "e">> /\ f[len + 2] = <<n, "f">>
      /\ \A j \in 2..(len + 1) : f[j] = <<n, "b">>
    <2>1. len \in Nat
        BY DEF Request
    <2> QED
        BY <1>3, <2>1, StreamFrame
<1>5. m \in Nat /\ q \in Nat /\ \A j \in 1..q : wire[j][1] \in 1..m
    BY SMTT(30) DEF ShapeInv, ClientOK, WireOK
<1> HIDE DEF len, q, m
<1>6. ASSUME NEW j \in 1..(q + k)
      PROVE  /\ j <= q => wire'[j] = wire[j] /\ wire'[j][1] # n
             /\ j = q + 1 => wire'[j] = <<n, "e">>
             /\ (j > q + 1 /\ j <= q + 1 + len) => wire'[j] = <<n, "b">>
             /\ j > q + 1 + len => j = q + len + 2 /\ wire'[j] = <<n, "f">>
    <2>1. CASE j <= q
        <3>1. j \in 1..q
            BY <1>5, <2>1, SMTT(30)
        <3>2. wire'[j] = wire[j] /\ wire[j][1] \in 1..m
            BY <1>3, <1>5, <3>1 DEF q
        <3>3. n \notin 1..m
            BY <1>3, <1>5, SMTT(30)
        <3> QED
            BY <1>4, <1>5, <2>1, <3>2, <3>3, SMTT(30)
    <2>2. CASE j > q
        <3>1. j \in (q + 1)..(q + k) /\ j - q \in 1..(len + 2)
            BY <1>3, <1>4, <1>5, <2>2, SMTT(30)
        <3>2. wire'[j] = f[j - q]
            BY <1>3, <3>1 DEF q
        <3>3. CASE j = q + 1
            <4>1. j - q = 1
                BY <1>5, <3>3, SMTT(30)
            <4> QED
                BY <1>4, <1>5, <3>2, <3>3, <4>1, SMTT(30)
        <3>4. CASE j > q + 1 /\ j <= q + 1 + len
            <4>1. j - q \in 2..(len + 1)
                BY <1>4, <1>5, <3>4, SMTT(30)
            <4> QED
                BY <1>4, <1>5, <3>2, <3>4, <4>1, SMTT(30)
        <3>5. CASE j > q + 1 + len
            <4>1. j - q = len + 2 /\ j = q + len + 2
                BY <1>4, <1>5, <3>1, <3>5, SMTT(30)
            <4> QED
                BY <1>4, <1>5, <3>2, <3>5, <4>1, SMTT(30)
        <3> QED
            BY <1>4, <1>5, <2>2, <3>3, <3>4, <3>5, SMTT(30)
    <2> QED
        BY <1>5, <2>1, <2>2, SMTT(30)
<1>7. \A u : u[1] # n => At(u)' = At(u)
    <2> SUFFICES ASSUME NEW u, u[1] # n
                 PROVE  At(u)' = At(u)
        OBVIOUS
    <2>1. ASSUME NEW j \in At(u)
          PROVE  j \in At(u)'
        <3>1. j \in 1..q /\ wire[j] = u
            BY DEF At, q
        <3>2. j \in 1..(q + k) /\ j <= q
            BY <1>5, <3>1, SMTT(30)
        <3> QED
            BY <1>3, <1>6, <3>1, <3>2 DEF At, q
    <2>2. ASSUME NEW j \in At(u)'
          PROVE  j \in At(u)
        <3>1. j \in 1..(q + k) /\ wire'[j] = u
            BY <1>3 DEF At, q
        <3>2. wire'[j][1] # n
            BY <3>1
        <3>3. j <= q
            <4>1. j = q + 1 => wire'[j][1] = n
                BY <1>6, <3>1, SMTT(30)
            <4>2. (j > q + 1 /\ j <= q + 1 + len) => wire'[j][1] = n
                BY <1>6, <3>1, SMTT(30)
            <4>3. j > q + 1 + len => wire'[j][1] = n
                BY <1>6, <3>1, SMTT(30)
            <4> QED
                BY <1>4, <1>5, <3>1, <3>2, <4>1, <4>2, <4>3, SMTT(30)
        <3>4. j \in 1..q /\ wire[j] = u
            BY <1>5, <1>6, <3>1, <3>3, SMTT(30)
        <3> QED
            BY <3>4 DEF At, q
    <2> QED
        BY <2>1, <2>2
<1>8. ASSUME NEW j \in 1..(q + k)
      PROVE  /\ wire'[j] = <<n, "e">> => j = q + 1
             /\ wire'[j] = <<n, "b">> => j > q + 1 /\ j <= q + 1 + len
             /\ wire'[j] = <<n, "f">> => j = q + len + 2
    <2>1. CASE j <= q
        BY <1>6, <2>1, SMTT(30)
    <2>2. CASE j = q + 1
        BY <1>5, <1>6, <2>2, SMTT(30)
    <2>3. CASE j > q + 1 /\ j <= q + 1 + len
        BY <1>6, <2>3, SMTT(30)
    <2>4. CASE j > q + 1 + len
        BY <1>6, <2>4, SMTT(30)
    <2> QED
        BY <1>4, <1>5, <2>1, <2>2, <2>3, <2>4, SMTT(30)
<1>9. At(<<n, "b">>)' = (q + 2)..(q + 1 + len)
    <2>1. ASSUME NEW j \in (q + 2)..(q + 1 + len)
          PROVE  j \in At(<<n, "b">>)'
        <3>1. j \in 1..(q + k) /\ j > q + 1 /\ j <= q + 1 + len
            BY <1>3, <1>4, <1>5, SMTT(30)
        <3> QED
            BY <1>3, <1>6, <3>1 DEF At, q
    <2>2. ASSUME NEW j \in At(<<n, "b">>)'
          PROVE  j \in (q + 2)..(q + 1 + len)
        <3>1. j \in 1..(q + k) /\ wire'[j] = <<n, "b">>
            BY <1>3 DEF At, q
        <3> QED
            BY <1>4, <1>5, <1>8, <3>1, SMTT(30)
    <2> QED
        BY <2>1, <2>2
<1>10. Cardinality(At(<<n, "b">>)') = len
    <2>1. q + 2 \in Int /\ q + 1 + len \in Int
        BY <1>4, <1>5, SMTT(30)
    <2>2. Cardinality((q + 2)..(q + 1 + len))
             = IF q + 2 > q + 1 + len THEN 0 ELSE (q + 1 + len) - (q + 2) + 1
        BY <2>1, FS_Interval
    <2> QED
        BY <1>4, <1>5, <1>9, <2>2, SMTT(30)
<1>11. FramesOK(n)'
    <2>1. \A j \in At(<<n, "e">>)' : j = q + 1
        BY <1>3, <1>8 DEF At, q
    <2>2. \A j \in At(<<n, "f">>)' : j = q + len + 2
        BY <1>3, <1>8 DEF At, q
    <2>3. \A j \in (q + 2)..(q + 1 + len) : j < q + len + 2
        BY <1>4, <1>5, SMTT(30)
    <2> QED
        BY <1>9, <2>1, <2>2, <2>3 DEF FramesOK
<1>12. StreamOK(n)'
    <2>1. \A i \in 1..MaxSends : tasks[i].pc # "none" => i <= m
        BY DEF ShapeInv, TasksOK, m
    <2>2. tasks[n].pc = "none"
        BY <1>3, <1>5, <2>1, SMTT(30)
    <2>3. tasks[n].body = <<>> /\ Len(tasks[n].body) = 0
        BY <1>3, <2>2, SMTT(30) DEF StreamsInv
    <2>4. Silent(n)
        <3>1. n \notin 1..Len(sent)
            BY <1>3, <1>5, SMTT(30) DEF m
        <3> QED
            BY <3>1 DEF ShapeInv, OutOK, Silent
    <2>5. Cardinality(At(<<n, "b">>)') + Len(tasks[n].body) = sent'[n].len
        <3>1. sent'[n].len = len
            BY <1>3 DEF len
        <3> QED
            BY <1>4, <1>10, <2>3, <3>1, SMTT(30)
    <2> QED
        BY <1>1, <2>2, <2>3, <2>4, <2>5, SMTT(30) DEF StreamOK, Silent
<1>13. ASSUME NEW i \in 1..m
       PROVE  FramesOK(i)' /\ StreamOK(i)'
    <2>1. FramesOK(i) /\ StreamOK(i)
        BY <1>1 DEF StreamsInv, m
    <2>2. i # n /\ <<i, "e">>[1] # n /\ <<i, "b">>[1] # n /\ <<i, "f">>[1] # n
        BY <1>3, <1>5, SMTT(30)
    <2>3. /\ At(<<i, "e">>)' = At(<<i, "e">>) /\ At(<<i, "b">>)' = At(<<i, "b">>)
          /\ At(<<i, "f">>)' = At(<<i, "f">>)
        BY <1>7, <2>2
    <2>4. sent'[i] = sent[i] /\ UNCHANGED <<tasks, out>>
        BY <1>1, <1>3
    <2>5. FramesOK(i)'
        BY <2>1, <2>3 DEF FramesOK
    <2>6. StreamOK(i)'
        BY <2>1, <2>3, <2>4 DEF StreamOK, Silent
    <2> QED
        BY <2>5, <2>6
<1>14. \A i \in 1..n : i \in 1..m \/ i = n
    BY <1>3, <1>5, SMTT(30)
<1>15. (\A i \in 1..Len(sent) : FramesOK(i) /\ StreamOK(i))'
    BY <1>3, <1>11, <1>12, <1>13, <1>14
<1> QED
    BY <1>1, <1>15 DEF StreamsInv

\* A task takes a frame of its own stream: the other streams keep what they have.
LEMMA StreamsTake ==
    ASSUME ShapeInv, StreamsInv, kind = "h2", conn.pc = "streams", UNCHANGED <<kind, sent, eof, conn>>,
           NEW i \in 1..Len(sent), NEW k \in 1..Len(wire), wire[k][1] = i, wire' = Without(k),
           NEW t \in Task, tasks' = [tasks EXCEPT ![i] = t], t.pc # "none",
           UNCHANGED out \/ Wrote(i), StreamOK(i)'
    PROVE  StreamsInv'
<1>1. WireOK /\ tasks'[i] = t /\ i \in 1..MaxSends
      /\ \A j \in 1..MaxSends : j # i => tasks'[j] = tasks[j]
    BY TaskSet DEF ShapeInv
<1>2. ASSUME NEW j \in 1..Len(sent)
      PROVE  FramesOK(j)' /\ StreamOK(j)'
    <2>1. FramesOK(j) /\ StreamOK(j)
        BY DEF StreamsInv
    <2>2. FramesOK(j)'
        BY <1>1, <2>1, FramesKept
    <2>3. CASE j # i
        <3>1. tasks'[j] = tasks[j]
            BY <1>1, <2>3, RunningShape
        <3>2. Silent(j) => Silent(j)'
            BY <2>3, SilentKept DEF Silent
        <3>3. StreamOK(j)'
            BY <2>1, <2>3, <3>1, <3>2, StreamOther
        <3> QED
            BY <2>2, <3>3
    <2> QED
        BY <2>2, <2>3
<1>3. \A j \in 1..MaxSends : tasks'[j].pc = "none" => tasks'[j].body = <<>>
    BY <1>1 DEF StreamsInv
<1> QED
    BY <1>2, <1>3 DEF StreamsInv

\* A stream is accepted, and its task spawned.
LEMMA StreamsAccept ==
    ASSUME ShapeInv, StreamsInv, AcceptStream
    PROVE  StreamsInv'
<1>1. kind = "h2" /\ conn.pc = "streams" /\ UNCHANGED <<kind, sent, eof, conn>>
    BY DEF AcceptStream, Server, client
<1> DEFINE status(i) == Refusal([sent[i] EXCEPT !.sized = TRUE, !.len = 0])
<1>2. PICK i \in 1..Len(sent) :
         /\ \E k \in Frames(i) : wire[k][2] = "e" /\ wire' = Without(k)
         /\ \/ /\ tasks' = [tasks EXCEPT ![i].pc = IF sent[i].method = "GET" THEN "handle"
                                                   ELSE "body"]
               /\ UNCHANGED out
            \/ /\ tasks' = [tasks EXCEPT ![i].pc = "ended"]
               /\ Reply(i, status(i), <<>>, FALSE)
    BY DEF AcceptStream
<1>3. PICK k \in 1..Len(wire) : wire[k][1] = i /\ wire[k][2] = "e" /\ wire' = Without(k)
    BY <1>2 DEF Frames
<1>4. /\ WireOK /\ wire[k] \in Unit /\ tasks \in [1..MaxSends -> Task] /\ tasks[i] \in Task
      /\ i \in 1..MaxSends /\ sent[i] \in Request /\ <<>> \in Seq(Unit) /\ i \in Nat
    BY RunningShape, SMTT(30) DEF ShapeInv, WireOK, TasksOK, ClientOK
<1>5. wire[k] = <<i, "e">> /\ k \in At(<<i, "e">>)
    BY <1>3, <1>4, SMTT(30) DEF Unit, At
<1>6. FramesOK(i) /\ StreamOK(i)
    BY <1>1 DEF StreamsInv
<1>7. tasks[i].pc = "none" /\ tasks[i].body = <<>> /\ Silent(i)
    <2>1. tasks[i].pc = "none"
        BY <1>5, <1>6 DEF StreamOK
    <2> QED
        BY <1>1, <1>4, <1>6, <2>1 DEF StreamOK, StreamsInv
<1>8. At(<<i, "e">>)' = {}
    <2>1. \A j \in At(<<i, "e">>)' : Before(k, j) \in At(<<i, "e">>) /\ Before(k, j) # k
        BY <1>1, <1>3, <1>4, FrameTaken
    <2> QED
        BY <1>5, <1>6, <2>1 DEF FramesOK
<1>9. Cardinality(At(<<i, "b">>)') = Cardinality(At(<<i, "b">>))
    <2>1. wire[k] # <<i, "b">>
        BY <1>5, SMTT(30)
    <2> QED
        BY <1>1, <1>3, <1>4, <2>1, FrameTaken
<1>10. Cardinality(At(<<i, "b">>)) + Len(tasks[i].body) = sent[i].len
    BY <1>6, <1>7 DEF StreamOK
<1>11. PICK x \in {"handle", "body", "ended"} :
          /\ tasks' = [tasks EXCEPT ![i].pc = x]
          /\ \/ x = (IF sent[i].method = "GET" THEN "handle" ELSE "body") /\ UNCHANGED out
             \/ x = "ended" /\ Reply(i, status(i), <<>>, FALSE)
    BY <1>2
<1>12. PICK t \in Task : t = [tasks[i] EXCEPT !.pc = x]
    BY <1>4 DEF Task
<1>13. t.pc = x /\ t.body = <<>> /\ tasks' = [tasks EXCEPT ![i] = t]
    BY <1>4, <1>7, <1>11, <1>12 DEF Task
<1>14. UNCHANGED out \/ Wrote(i)
    <2>1. status(i) \in Nat /\ FALSE \in BOOLEAN
        BY RefusalIsStatus
    <2> HIDE DEF status
    <2> QED
        BY <1>1, <1>4, <1>11, <2>1, ReplyWrote
<1>15. tasks'[i] = t
    BY <1>1, <1>13, TaskSet
<1>16. StreamOK(i)'
    <2>1. CASE x = "ended"
        BY <1>8, <1>13, <1>15, <2>1 DEF StreamOK
    <2>2. CASE x = "body" /\ UNCHANGED out
        <3>1. Len(t.body) = 0 /\ 1..Len(t.body) = {} /\ Silent(i)'
            BY <1>7, <1>13, <2>2, SMTT(30) DEF Silent
        <3>2. Cardinality(At(<<i, "b">>)') + Len(t.body) = sent'[i].len
            BY <1>1, <1>7, <1>9, <1>10, <1>13
        <3> QED
            BY <1>8, <1>13, <1>15, <2>2, <3>1, <3>2 DEF StreamOK
    <2>3. CASE x = "handle" /\ sent[i].method = "GET" /\ UNCHANGED out
        <3>1. sent[i].len = 0 /\ Silent(i)'
            BY <1>7, <2>3 DEF ShapeInv, ClientOK, Silent
        <3>2. Len(t.body) = 0 /\ t.body \in Seq(Unit)
            BY <1>4, <1>13
        <3>3. t.body = Body(sent[i], i)
            BY <1>4, <3>1, <3>2, BodyUnits, SMTT(30)
        <3> QED
            BY <1>1, <1>8, <1>13, <1>15, <2>3, <3>1, <3>3 DEF StreamOK
    <2> QED
        BY <1>11, <2>1, <2>2, <2>3
<1> QED
    BY <1>1, <1>3, <1>11, <1>13, <1>14, <1>16, StreamsTake

\* A chunk, or the end, of a body.  Over the cap, the body is longer than it.
LEMMA StreamsRead ==
    ASSUME ShapeInv, StreamsInv, ReadStream
    PROVE  /\ StreamsInv'
           /\ \/ UNCHANGED done
              \/ \E i \in 1..Len(sent) : done' = done \union {i} /\ sent[i].len > MAX_BODY
<1>1. kind = "h2" /\ conn.pc = "streams" /\ UNCHANGED <<kind, sent, eof, conn, out>>
    BY DEF ReadStream, Server, client
<1>2. PICK i \in Running : tasks[i].pc = "body" /\ \E k \in Frames(i) :
         /\ \A j \in Frames(i) : k <= j
         /\ wire' = Without(k)
         /\ \/ wire[k][2] = "f" /\ tasks' = [tasks EXCEPT ![i].pc = "handle"] /\ UNCHANGED done
            \/ /\ wire[k][2] = "b" /\ tasks' = [tasks EXCEPT ![i].body = Append(@, wire[k])]
               /\ UNCHANGED done
            \/ /\ wire[k][2] = "b" /\ Len(tasks[i].body) >= MAX_BODY
               /\ tasks' = [tasks EXCEPT ![i] = [NoTask EXCEPT !.pc = "ended"]]
               /\ done' = done \union {i}
    BY DEF ReadStream
<1>3. PICK k \in 1..Len(wire) :
         /\ wire[k][1] = i /\ \A j \in Frames(i) : k <= j
         /\ wire' = Without(k)
         /\ \/ wire[k][2] = "f" /\ tasks' = [tasks EXCEPT ![i].pc = "handle"] /\ UNCHANGED done
            \/ /\ wire[k][2] = "b" /\ tasks' = [tasks EXCEPT ![i].body = Append(@, wire[k])]
               /\ UNCHANGED done
            \/ /\ wire[k][2] = "b" /\ Len(tasks[i].body) >= MAX_BODY
               /\ tasks' = [tasks EXCEPT ![i] = [NoTask EXCEPT !.pc = "ended"]]
               /\ done' = done \union {i}
    BY <1>2 DEF Frames
<1>4. /\ WireOK /\ wire[k] \in Unit /\ tasks \in [1..MaxSends -> Task] /\ tasks[i] \in Task
      /\ i \in 1..Len(sent) /\ i \in 1..MaxSends /\ sent[i] \in Request /\ i \in Nat
      /\ MAX_BODY \in Nat /\ NoTask \in Task /\ tasks[i].body \in Seq(Unit)
      /\ sent[i].len \in Nat
    <2>1. i \in 1..Len(sent) /\ i \in 1..MaxSends /\ tasks[i] \in Task /\ NoTask \in Task
        BY RunningShape
    <2>2. WireOK /\ wire[k] \in Unit /\ tasks \in [1..MaxSends -> Task] /\ sent[i] \in Request
        BY <2>1, SMTT(30) DEF ShapeInv, WireOK, TasksOK, ClientOK
    <2>3. MAX_BODY \in Nat /\ i \in Nat
        BY <2>1, ListenerAssumption, SMTT(30)
    <2>4. tasks[i].body \in Seq(Unit) /\ sent[i].len \in Nat
        BY <2>1, <2>2 DEF Task, Request
    <2> QED
        BY <2>1, <2>2, <2>3, <2>4
<1>5. FramesOK(i) /\ StreamOK(i)
    BY <1>1, <1>4 DEF StreamsInv
<1> DEFINE u == <<i, "b">>
           b == tasks[i].body
           c == Cardinality(At(u))
<1>6. /\ c + Len(b) = sent[i].len /\ (\A j \in 1..Len(b) : b[j] = u) /\ Silent(i)
      /\ At(<<i, "e">>) = {}
    BY <1>2, <1>5 DEF StreamOK
<1>7. c \in Nat /\ Len(b) \in Nat /\ IsFiniteSet(At(u))
    BY <1>4, FramesFinite, SMTT(30)
<1>8. At(<<i, "e">>)' = {}
    BY <1>1, <1>3, <1>4, <1>6, FrameTaken
<1>9. UNCHANGED out \/ Wrote(i)
    BY <1>1
<1>10. Silent(i)'
    BY <1>1, <1>6 DEF Silent
<1>11. CASE wire[k][2] = "f" /\ tasks' = [tasks EXCEPT ![i].pc = "handle"] /\ UNCHANGED done
    <2>1. k \in At(<<i, "f">>)
        BY <1>3, <1>4, <1>11, SMTT(30) DEF Unit, At
    <2>2. At(u) = {}
        <3> SUFFICES ASSUME NEW j \in At(u)
                     PROVE  FALSE
            OBVIOUS
        <3>1. j \in Nat /\ k \in Nat /\ j \in Frames(i)
            BY SMTT(30) DEF At, Frames
        <3>2. j < k /\ k <= j
            BY <1>3, <1>5, <2>1, <3>1 DEF FramesOK
        <3> QED
            BY <3>1, <3>2, SMTT(30)
    <2>3. c = 0
        BY <2>2, FS_EmptySet
    <2>4. b = Body(sent[i], i)
        <3>1. Len(b) = sent[i].len
            BY <1>6, <1>7, <2>3, SMTT(30)
        <3> QED
            BY <1>4, <1>6, <3>1, BodyUnits
    <2>5. PICK t \in Task : t = [tasks[i] EXCEPT !.pc = "handle"]
        BY <1>4 DEF Task
    <2>6. t.pc = "handle" /\ t.body = b /\ tasks' = [tasks EXCEPT ![i] = t]
        BY <1>4, <1>11, <2>5 DEF Task
    <2>7. tasks'[i] = t
        BY <1>1, <1>4, <2>6, TaskSet
    <2>8. StreamOK(i)'
        BY <1>1, <1>8, <1>10, <2>4, <2>6, <2>7 DEF StreamOK
    <2> QED
        BY <1>1, <1>3, <1>4, <1>9, <1>11, <2>6, <2>8, StreamsTake
<1>12. CASE wire[k][2] = "b"
    <2>1. wire[k] = u /\ k \in At(u)
        BY <1>3, <1>4, <1>12, SMTT(30) DEF Unit, At
    <2>2. Cardinality(At(u)') = c - 1
        BY <1>1, <1>3, <1>4, <2>1, FrameTaken
    <2>3. c >= 1
        <3>1. c # 0
            BY <1>7, <2>1, FS_EmptySet
        <3> QED
            BY <1>7, <3>1, SMTT(30)
    <2>4. CASE tasks' = [tasks EXCEPT ![i].body = Append(@, wire[k])] /\ UNCHANGED done
        <3> DEFINE d == Append(b, u)
        <3>1. d \in Seq(Unit) /\ Len(d) = Len(b) + 1 /\ \A j \in 1..Len(d) : d[j] = u
            <4>1. u \in Unit /\ b \in Seq(Unit)
                BY <1>4, <2>1
            <4>2. \A j \in 1..Len(b) : b[j] = u
                BY <1>6
            <4> HIDE DEF u, b
            <4> QED
                BY <4>1, <4>2, SMTT(30)
        <3>2. PICK t \in Task : t = [tasks[i] EXCEPT !.body = d]
            BY <1>4, <3>1 DEF Task
        <3>3. t.pc = "body" /\ t.body = d /\ tasks' = [tasks EXCEPT ![i] = t]
            BY <1>2, <1>4, <2>1, <2>4, <3>2 DEF Task
        <3>4. tasks'[i] = t
            BY <1>1, <1>4, <3>3, TaskSet
        <3>5. Cardinality(At(u)') + Len(d) = sent'[i].len
            <4>1. (c - 1) + (Len(b) + 1) = sent[i].len
                BY <1>6, <1>7, SMTT(30)
            <4> QED
                BY <1>1, <2>2, <3>1, <4>1
        <3>6. StreamOK(i)'
            BY <1>1, <1>8, <1>10, <3>1, <3>3, <3>4, <3>5 DEF StreamOK
        <3> QED
            BY <1>1, <1>3, <1>4, <1>9, <2>4, <3>3, <3>6, StreamsTake
    <2>5. CASE /\ Len(tasks[i].body) >= MAX_BODY
               /\ tasks' = [tasks EXCEPT ![i] = [NoTask EXCEPT !.pc = "ended"]]
               /\ done' = done \union {i}
        <3>1. sent[i].len > MAX_BODY
            BY <1>4, <1>6, <1>7, <2>3, <2>5, SMTT(30)
        <3>2. PICK t \in Task : t = [NoTask EXCEPT !.pc = "ended"]
            BY <1>4 DEF Task
        <3>3. t.pc = "ended" /\ tasks' = [tasks EXCEPT ![i] = t]
            BY <1>4, <2>5, <3>2 DEF Task
        <3>4. tasks'[i] = t
            BY <1>1, <1>4, <3>3, TaskSet
        <3>5. StreamOK(i)'
            BY <1>8, <3>3, <3>4 DEF StreamOK
        <3>6. StreamsInv'
            BY <1>1, <1>3, <1>4, <1>9, <3>3, <3>5, StreamsTake
        <3> QED
            BY <1>4, <2>5, <3>1, <3>6
    <2> QED
        BY <1>3, <1>12, <2>4, <2>5
<1> QED
    BY <1>3, <1>11, <1>12

\* A stream is answered, unless its connection is gone.
LEMMA StreamsHandled ==
    ASSUME ShapeInv, StreamsInv, HandledStream
    PROVE  StreamsInv'
<1>1. kind = "h2" /\ UNCHANGED <<kind, sent, eof, conn, wire>>
    BY DEF HandledStream, Server, client
<1>2. PICK i \in Running :
         /\ tasks' = [tasks EXCEPT ![i] = [NoTask EXCEPT !.pc = "ended"]]
         /\ UNCHANGED out \/ Reply(i, 400, <<>>, FALSE) \/ Reply(i, 200, tasks[i].body, FALSE)
    BY DEF HandledStream, StreamBody
<1>3. /\ i \in 1..Len(sent) /\ i \in 1..MaxSends /\ tasks[i] \in Task /\ NoTask \in Task
      /\ DOMAIN tasks = 1..MaxSends /\ <<>> \in Seq(Unit)
    BY RunningShape, SMTT(30)
<1>4. PICK t \in Task : t = [NoTask EXCEPT !.pc = "ended"]
    BY <1>3 DEF Task
<1>5. t.pc = "ended" /\ tasks' = [tasks EXCEPT ![i] = t]
    BY <1>2, <1>3, <1>4 DEF Task
<1>6. tasks'[i] = t /\ (\A j \in 1..MaxSends : j # i => tasks'[j] = tasks[j])
    BY <1>1, <1>3, <1>5, TaskSet
<1>7. UNCHANGED out \/ Wrote(i)
    <2>1. 400 \in Nat /\ 200 \in Nat /\ FALSE \in BOOLEAN /\ tasks[i].body \in Seq(Unit)
        BY <1>3, SMTT(30) DEF Task
    <2> QED
        BY <1>1, <1>2, <1>3, <2>1, ReplyWrote
<1>8. \A j \in 1..MaxSends : tasks'[j].pc = "none" => tasks'[j].body = <<>>
    BY <1>1, <1>5, <1>6 DEF StreamsInv
<1>9. CASE conn.pc # "streams"
    <2>1. Running # {}
        OBVIOUS
    <2> QED
        BY <1>1, <1>8, <1>9, <2>1 DEF StreamsInv
<1>10. CASE conn.pc = "streams"
    <2>1. ASSUME NEW j \in 1..Len(sent)
          PROVE  FramesOK(j)' /\ StreamOK(j)'
        <3>1. FramesOK(j) /\ StreamOK(j) /\ j \in 1..MaxSends
            BY <1>1, <1>10, RunningShape DEF StreamsInv
        <3>2. \A u : At(u)' = At(u)
            BY <1>1 DEF At
        <3>3. FramesOK(j)'
            BY <3>1, <3>2 DEF FramesOK
        <3>4. CASE j = i
            <4>1. At(<<i, "e">>) = {}
                <5>1. tasks[i].pc # "none"
                    BY DEF Running
                <5> QED
                    BY <3>1, <3>4, <5>1 DEF StreamOK
            <4>2. At(<<j, "e">>)' = {}
                BY <3>2, <3>4, <4>1
            <4> QED
                BY <1>5, <1>6, <3>3, <3>4, <4>2 DEF StreamOK
        <3>5. CASE j # i
            <4>1. Silent(j) => Silent(j)'
                BY <1>7, <3>5, SilentKept DEF Silent
            <4>2. tasks'[j] = tasks[j] /\ sent' = sent
                BY <1>1, <1>6, <3>1, <3>5
            <4>3. At(<<j, "e">>)' = At(<<j, "e">>) /\ At(<<j, "b">>)' = At(<<j, "b">>)
                BY <3>2
            <4>4. StreamOK(j)'
                BY <3>1, <4>1, <4>2, <4>3 DEF StreamOK
            <4> QED
                BY <3>3, <4>4
        <3> QED
            BY <3>4, <3>5
    <2> QED
        BY <1>1, <1>8, <1>10, <2>1 DEF StreamsInv
<1> QED
    BY <1>9, <1>10

\* The end of a connection cuts off the bodies that are still being read.
LEMMA StreamsEnd ==
    ASSUME ShapeInv, StreamsInv, EndStreams
    PROVE  StreamsInv'
<1> DEFINE cut == {i \in Running : tasks[i].pc = "body"}
<1>1. /\ eof /\ UNCHANGED eof /\ conn' = Closed
      /\ tasks' = [i \in DOMAIN tasks |-> IF i \in cut THEN [NoTask EXCEPT !.pc = "ended"]
                                          ELSE tasks[i]]
      /\ kind = "h2"
    BY DEF EndStreams, Server, Close, client
<1>2. /\ DOMAIN tasks = 1..MaxSends /\ conn'.pc = "closed"
    BY <1>1, RunningShape, ClosedShape DEF ShapeInv, ConnOK
<1>3. [NoTask EXCEPT !.pc = "ended"].pc = "ended"
    BY DEF NoTask
<1> HIDE DEF cut
<1>4. ASSUME NEW i \in 1..MaxSends, tasks'[i].pc = "none"
      PROVE  tasks'[i].body = <<>>
    <2>1. i \notin cut
        BY <1>1, <1>2, <1>3, <1>4
    <2>2. tasks'[i] = tasks[i]
        BY <1>1, <1>2, <2>1
    <2> QED
        BY <1>1, <1>4, <2>2 DEF StreamsInv
<1> QED
    BY <1>1, <1>2, <1>4 DEF StreamsInv

\* A step that takes no frame and answers nothing.
LEMMA StreamsKept ==
    ASSUME StreamsInv, UNCHANGED <<kind, sent, wire, conn, tasks, out>>, eof => eof'
    PROVE  StreamsInv'
<1>1. \A u : At(u)' = At(u)
    BY DEF At
<1>2. \A i : FramesOK(i) => FramesOK(i)'
    BY <1>1 DEF FramesOK
<1>3. \A i : StreamOK(i) => StreamOK(i)'
    <2>1. \A i : Silent(i) => Silent(i)'
        BY DEF Silent
    <2>2. \A i : At(<<i, "e">>)' = At(<<i, "e">>) /\ At(<<i, "b">>)' = At(<<i, "b">>)
        BY <1>1
    <2> QED
        BY <2>1, <2>2 DEF StreamOK
<1>4. Running' = Running
    BY DEF Running
<1> QED
    BY <1>2, <1>3, <1>4 DEF StreamsInv

\* Every step of an HTTP/2 connection.
LEMMA StreamsStep ==
    ASSUME ShapeInv, ShapeInv', StreamsInv, [Next]_vars
    PROVE  StreamsInv'
<1>0. CASE kind # "h2"
    BY <1>0, KindKept DEF StreamsInv
<1> SUFFICES ASSUME kind = "h2"
             PROVE  StreamsInv'
    BY <1>0
<1>1. CASE Hangup \/ Reload \/ BecomeReady \/ UNCHANGED listenerVars
    <2>1. UNCHANGED <<kind, sent, wire, conn, tasks, out>> /\ (eof => eof')
        BY <1>1, SMTT(30) DEF Hangup, Reload, BecomeReady, listenerVars, client
    <2> QED
        BY <2>1, StreamsKept
<1>2. CASE Accept \/ HandshakeEnds
    <2>1. UNCHANGED <<kind, sent, tasks>> /\ conn.pc = "new"
        BY <1>2 DEF Accept, HandshakeEnds, Server, client
    <2>2. sent = <<>> /\ Len(sent) = 0
        BY <2>1 DEF ShapeInv, PlaceInv
    <2>3. Running = {} /\ Running' = Running
        <3>1. Running \subseteq 1..Len(sent)
            BY RunningShape
        <3> QED
            BY <2>1, <2>2, <3>1, SMTT(30) DEF Running
    <2>4. 1..Len(sent') = {}
        BY <2>1, <2>2, SMTT(30)
    <2>5. \A i \in 1..MaxSends : tasks'[i].pc = "none" => tasks'[i].body = <<>>
        BY <2>1 DEF StreamsInv
    <2> QED
        BY <2>3, <2>4, <2>5 DEF StreamsInv
<1>3. CASE HostGone
    <2>1. /\ conn'.pc = "closed" /\ tasks' = [i \in DOMAIN tasks |-> NoTask]
          /\ DOMAIN tasks = 1..MaxSends
        BY <1>3, ClosedShape, RunningShape DEF HostGone, ShapeInv, ConnOK
    <2>2. Running' = {}
        BY <2>1 DEF Running, NoTask
    <2>3. \A i \in 1..MaxSends : tasks'[i].body = <<>>
        BY <2>1 DEF NoTask
    <2> QED
        BY <2>1, <2>2, <2>3 DEF StreamsInv
<1>4. ListenerNext =>
         \/ Send \/ Hangup \/ Reload \/ BecomeReady \/ Accept \/ HandshakeEnds
         \/ AcceptStream \/ ReadStream \/ HandledStream \/ EndStreams
    BY DEF ListenerNext, ServerNext, HeadTimeout, ReadFramed, ReadMessage, HandledFramed,
       ReadHead, StartRequest, ReadBody, HandledHttp, Wake, SocketError, Drain, HandledDatagram
<1> QED
    BY <1>1, <1>2, <1>3, <1>4, Steps, StreamsSend, StreamsAccept, StreamsRead, StreamsHandled,
       StreamsEnd

\* What the tasks of the streams have read is always in step with what was sent.
THEOREM StreamsInStep == Spec => [](ShapeInv /\ StreamsInv)
<1>1. Init => StreamsInv
    <2> SUFFICES ASSUME Init, kind = "h2"
                 PROVE  StreamsInv
        BY DEF StreamsInv
    <2>1. conn.pc = "new" /\ tasks = [i \in 1..MaxSends |-> NoTask]
        BY DEF Init, ListenerInit, Fresh
    <2>2. \A i \in 1..MaxSends : tasks[i].body = <<>>
        BY <2>1 DEF NoTask
    <2> QED
        BY <2>1, <2>2 DEF StreamsInv
<1>2. ShapeInv /\ ShapeInv' /\ StreamsInv /\ [Next]_vars => StreamsInv'
    BY StreamsStep
<1> QED
    BY <1>1, <1>2, ListenerShape, PTL DEF Spec

---------------------------------------------------------------------------
(* Framing. *)

\* A response keeps the framing when it is the request's own, and in its turn.
LEMMA FramingReply ==
    ASSUME ShapeInv, ShapeInv', FramingHolds, UNCHANGED <<kind, sent>>, NEW id \in 1..Len(sent),
           Wrote(id),
           (kind # "udp" /\ out'[Len(out) + 1].status \in {0, 200}) =>
              out'[Len(out) + 1].body = Body(sent[id], id),
           kind \in Serial => \A k \in 1..Len(out) : out[k].id < id,
           kind \notin Serial => Silent(id)
    PROVE  FramingHolds'
<1>1. /\ Len(out) \in Nat /\ Len(out') = Len(out) + 1
      /\ \A k \in 1..Len(out) : out'[k] = out[k]
      /\ DOMAIN out = 1..Len(out) /\ DOMAIN out' = 1..Len(out')
    <2>1. out \in Seq(Response) /\ out' \in Seq(Response)
        BY DEF ShapeInv, OutOK
    <2> QED
        BY <2>1, SMTT(30) DEF Wrote
<1> DEFINE n == Len(out) + 1
<1>2. /\ out'[n].id = id
      /\ (kind # "udp" /\ out'[n].status \in {0, 200}) => out'[n].body = Body(sent[id], id)
      /\ \A k \in 1..n : k \in 1..Len(out) \/ k = n
      /\ DOMAIN out' = 1..n
    BY <1>1, SMTT(30) DEF Wrote
<1> HIDE DEF n
<1>3. ASSUME NEW k \in 1..n, kind # "udp", out'[k].status \in {0, 200}
      PROVE  out'[k].body = Body(sent[out'[k].id], out'[k].id)
    <2>1. CASE k \in 1..Len(out)
        BY <1>1, <1>3, <2>1, SMTT(30) DEF FramingHolds
    <2>2. CASE k = n
        BY <1>2, <1>3, <2>2
    <2> QED
        BY <1>2, <2>1, <2>2
<1>4. ASSUME NEW k \in 1..n, NEW l \in 1..n, k < l
      PROVE  IF kind \in Serial THEN out'[k].id < out'[l].id ELSE out'[k].id # out'[l].id
    <2>1. k \in 1..Len(out)
        BY <1>1, <1>4, SMTT(30) DEF n
    <2>2. CASE l \in 1..Len(out)
        BY <1>1, <1>4, <2>1, <2>2 DEF FramingHolds
    <2>3. CASE l = n
        BY <1>1, <1>2, <2>1, <2>3 DEF Silent
    <2> QED
        BY <1>2, <2>2, <2>3
<1> QED
    BY <1>2, <1>3, <1>4, SMTT(30) DEF FramingHolds

\* Nothing is written.
LEMMA FramingKept ==
    ASSUME ShapeInv, FramingHolds, UNCHANGED <<kind, out>>, \A i \in 1..Len(sent) : sent'[i] = sent[i]
    PROVE  FramingHolds'
<1>1. out \in Seq(Response) /\ \A k \in DOMAIN out : out[k].id \in 1..Len(sent)
    BY SMTT(30) DEF ShapeInv, OutOK
<1>2. \A k \in DOMAIN out : sent'[out[k].id] = sent[out[k].id]
    BY <1>1
<1> QED
    BY <1>2, SMTT(30) DEF FramingHolds

\* A refusal is not the status of an answer.
LEMMA RefusalIsNoAnswer == \A r : Refusal(r) # 200
BY SMTT(30) DEF Refusal

\* Answers on a serial connection.
LEMMA FramingSerial ==
    ASSUME ShapeInv, ShapeInv', StreamInv, FramingHolds,
           HandledFramed \/ HandledHttp \/ StartRequest
    PROVE  FramingHolds'
<1>0. <<>> \in Seq(Unit) /\ TRUE \in BOOLEAN /\ FALSE \in BOOLEAN
    BY SMTT(30)
<1>1. kind \in Serial /\ UNCHANGED <<kind, sent>>
    BY DEF HandledFramed, HandledHttp, StartRequest, Server, client, Serial
<1>2. CASE UNCHANGED out
    BY <1>1, <1>2, FramingKept
<1>3. CASE StartRequest /\ ~UNCHANGED out
    <2>1. PICK cur \in 1..Len(sent) : Started(cur) /\ \A k \in 1..Len(out) : out[k].id < cur
        BY <1>3, StreamStart
    <2>2. Reply(cur, Refusal(sent[cur]), <<>>, TRUE) /\ Refusal(sent[cur]) > 0
        BY <1>3, <2>1 DEF Started
    <2>3. Refusal(sent[cur]) \in Nat /\ Refusal(sent[cur]) \notin {0, 200}
        BY <2>2, RefusalIsStatus, RefusalIsNoAnswer, SMTT(30)
    <2>4. Wrote(cur) /\ out'[Len(out) + 1] = [id |-> cur, status |-> Refusal(sent[cur]),
                                              body |-> <<>>, close |-> TRUE]
        BY <1>0, <1>1, <2>2, <2>3, ReplyWrote
    <2>5. out'[Len(out) + 1].status \notin {0, 200}
        BY <2>3, <2>4, SMTT(30)
    <2> QED
        BY <1>1, <2>1, <2>4, <2>5, FramingReply
<1>4. CASE (HandledFramed \/ HandledHttp) /\ ~UNCHANGED out
    <2>1. /\ conn.pc = "handle" /\ conn.id \in 1..Len(sent) /\ conn.body \in Seq(Unit)
          /\ conn.close \in BOOLEAN
        BY <1>4 DEF HandledFramed, HandledHttp, ShapeInv, PlaceInv, ConnOK, Connection
    <2>2. conn.body = Body(sent[conn.id], conn.id) /\ \A k \in 1..Len(out) : out[k].id < conn.id
        <3>1. PICK cur \in 1..(Len(sent) + 1) : \E start \in Starts : AtRequest(cur, start)
            BY <1>1, <2>1 DEF StreamInv
        <3> QED
            BY <2>1, <3>1 DEF AtRequest
    <2>3. \/ Reply(conn.id, 0, conn.body, FALSE)
          \/ Reply(conn.id, 200, conn.body, conn.close)
          \/ Reply(conn.id, 400, <<>>, TRUE)
        BY <1>4 DEF HandledFramed, HandledHttp
    <2>4. /\ Wrote(conn.id)
          /\ out'[Len(out) + 1].status \in {0, 200} => out'[Len(out) + 1].body = conn.body
        <3>1. CASE Reply(conn.id, 0, conn.body, FALSE)
            <4>1. Wrote(conn.id) /\ out'[Len(out) + 1] = [id |-> conn.id, status |-> 0, body |-> conn.body, close |-> FALSE]
                BY <1>0, <1>1, <2>1, <3>1, ReplyWrote
            <4> QED
                BY <4>1, SMTT(30)
        <3>2. CASE Reply(conn.id, 200, conn.body, conn.close)
            <4>1. Wrote(conn.id) /\ out'[Len(out) + 1] = [id |-> conn.id, status |-> 200, body |-> conn.body, close |-> conn.close]
                BY <1>0, <1>1, <2>1, <3>2, ReplyWrote
            <4> QED
                BY <4>1, SMTT(30)
        <3>3. CASE Reply(conn.id, 400, <<>>, TRUE)
            <4>1. PICK s : s = 400
                OBVIOUS
            <4>2. PICK b : b = <<>>
                OBVIOUS
            <4>3. PICK c : c = TRUE
                OBVIOUS
            <4>4. s \in Nat /\ b \in Seq(Unit) /\ c \in BOOLEAN /\ Reply(conn.id, s, b, c)
                <5>1. s \in Nat
                    BY <4>1, SMTT(30)
                <5>2. b \in Seq(Unit)
                    BY <1>0, <4>2
                <5>3. c \in BOOLEAN
                    BY <4>3
                <5>4. Reply(conn.id, s, b, c)
                    BY <3>3, <4>1, <4>2, <4>3
                <5> QED
                    BY <5>1, <5>2, <5>3, <5>4
            <4>5. Wrote(conn.id) /\ out'[Len(out) + 1] = [id |-> conn.id, status |-> s, body |-> b, close |-> c]
                BY <1>1, <2>1, <4>4, ReplyWrote
            <4> QED
                BY <4>1, <4>5, SMTT(30)
        <3> QED
            BY <2>3, <3>1, <3>2, <3>3
    <2> QED
        BY <1>1, <2>1, <2>2, <2>4, FramingReply
<1> QED
    BY <1>2, <1>3, <1>4

\* Answers to streams.
LEMMA FramingStreams ==
    ASSUME ShapeInv, ShapeInv', StreamsInv, FramingHolds, AcceptStream \/ HandledStream
    PROVE  FramingHolds'
<1>0. <<>> \in Seq(Unit) /\ FALSE \in BOOLEAN
    BY SMTT(30)
<1>1. kind = "h2" /\ kind \notin Serial /\ UNCHANGED <<kind, sent>>
    BY DEF AcceptStream, HandledStream, Server, client, Serial
<1>2. CASE UNCHANGED out
    BY <1>1, <1>2, FramingKept
<1>3. CASE AcceptStream /\ ~UNCHANGED out
    <2> DEFINE status(i) == Refusal([sent[i] EXCEPT !.sized = TRUE, !.len = 0])
    <2>1. PICK i \in 1..Len(sent) :
             /\ \E k \in Frames(i) : wire[k][2] = "e"
             /\ status(i) # 0 /\ Reply(i, status(i), <<>>, FALSE)
        BY <1>3 DEF AcceptStream
    <2>2. status(i) \in Nat /\ status(i) \notin {0, 200}
        BY <2>1, RefusalIsStatus, RefusalIsNoAnswer
    <2>3. Silent(i)
        <3>1. PICK k \in 1..Len(wire) : wire[k][1] = i /\ wire[k][2] = "e"
            BY <2>1 DEF Frames
        <3>2. wire[k] \in Unit
            BY SMTT(30) DEF ShapeInv, WireOK
        <3>3. k \in At(<<i, "e">>)
            BY <3>1, <3>2, SMTT(30) DEF Unit, At
        <3>4. conn.pc = "streams"
            BY <1>3 DEF AcceptStream
        <3> QED
            BY <1>1, <3>3, <3>4 DEF StreamsInv, StreamOK
    <2> HIDE DEF status
    <2>4. Wrote(i) /\ out'[Len(out) + 1] = [id |-> i, status |-> status(i), body |-> <<>>, close |-> FALSE]
        BY <1>0, <1>1, <2>1, <2>2, ReplyWrote
    <2>5. out'[Len(out) + 1].status \notin {0, 200}
        BY <2>2, <2>4, SMTT(30)
    <2> QED
        BY <1>1, <2>3, <2>4, <2>5, FramingReply
<1>4. CASE HandledStream /\ ~UNCHANGED out
    <2>1. PICK i \in Running :
             /\ tasks[i].pc = "handle" /\ conn.pc # "closed"
             /\ Reply(i, 400, <<>>, FALSE) \/ Reply(i, 200, tasks[i].body, FALSE)
        BY <1>4 DEF HandledStream, StreamBody
    <2>2. /\ i \in 1..Len(sent) /\ tasks[i].body \in Seq(Unit)
        BY RunningShape DEF Task
    <2>3. conn.pc = "streams"
        <3>1. conn.pc # "new"
            BY <2>2, SMTT(30) DEF ShapeInv, PlaceInv
        <3> QED
            BY <1>1, <2>1, <3>1 DEF ShapeInv, PlaceInv
    <2>4. Silent(i) /\ tasks[i].body = Body(sent[i], i)
        BY <1>1, <2>1, <2>2, <2>3 DEF StreamsInv, StreamOK
    <2>5. /\ Wrote(i)
          /\ out'[Len(out) + 1].status \in {0, 200} => out'[Len(out) + 1].body = tasks[i].body
        <3>1. CASE Reply(i, 400, <<>>, FALSE)
            <4>1. PICK s : s = 400
                OBVIOUS
            <4>2. PICK b : b = <<>>
                OBVIOUS
            <4>3. PICK c : c = FALSE
                OBVIOUS
            <4>4. s \in Nat /\ b \in Seq(Unit) /\ c \in BOOLEAN /\ Reply(i, s, b, c)
                <5>1. s \in Nat
                    BY <4>1, SMTT(30)
                <5>2. b \in Seq(Unit)
                    BY <1>0, <4>2
                <5>3. c \in BOOLEAN
                    BY <4>3
                <5>4. Reply(i, s, b, c)
                    BY <3>1, <4>1, <4>2, <4>3
                <5> QED
                    BY <5>1, <5>2, <5>3, <5>4
            <4>5. Wrote(i) /\ out'[Len(out) + 1] = [id |-> i, status |-> s, body |-> b, close |-> c]
                BY <1>1, <2>2, <4>4, ReplyWrote
            <4> QED
                BY <4>1, <4>5, SMTT(30)
        <3>2. CASE Reply(i, 200, tasks[i].body, FALSE)
            <4>1. PICK s \in Nat, b \in Seq(Unit), c \in BOOLEAN :
                     s = 200 /\ b = tasks[i].body /\ Reply(i, s, b, c)
                BY <1>0, <1>1, <2>2, <3>2
            <4>2. Wrote(i) /\ out'[Len(out) + 1] = [id |-> i, status |-> s, body |-> b, close |-> c]
                BY <1>1, <2>2, <4>1, ReplyWrote, SMTT(30)
            <4> QED
                BY <4>1, <4>2, SMTT(30)
        <3> QED
            BY <2>1, <3>1, <3>2
    <2> QED
        BY <1>1, <2>2, <2>4, <2>5, FramingReply
<1> QED
    BY <1>2, <1>3, <1>4

\* Answers to datagrams.
LEMMA FramingDatagrams ==
    ASSUME ShapeInv, ShapeInv', DatagramsInv, FramingHolds, Drain \/ HandledDatagram
    PROVE  FramingHolds'
<1>0. <<>> \in Seq(Unit) /\ FALSE \in BOOLEAN
    BY SMTT(30)
<1>1. kind = "udp" /\ kind \notin Serial /\ UNCHANGED <<kind, sent>>
    BY DEF Drain, HandledDatagram, Server, client, Serial
<1>2. CASE UNCHANGED out
    BY <1>1, <1>2, FramingKept
<1>3. CASE Drain /\ ~UNCHANGED out
    <2>1. wire # <<>> /\ Reply(wire[1][1], 5, <<>>, FALSE) /\ conn.pc = "drain"
        BY <1>3 DEF Drain, Shed, Spawn
    <2>2. 1 \in 1..Len(wire) /\ wire[1][1] \in 1..Len(sent)
        <3>1. wire \in Seq(Unit) /\ \A k \in 1..Len(wire) : wire[k][1] \in 1..Len(sent)
            BY DEF ShapeInv, WireOK
        <3>2. 1 \in 1..Len(wire)
            BY <2>1, <3>1, SMTT(30)
        <3> QED
            BY <3>1, <3>2
    <2>3. Silent(wire[1][1])
        BY <1>1, <2>1, <2>2 DEF DatagramsInv
    <2>4. Wrote(wire[1][1])
        BY <1>0, <1>1, <2>1, <2>2, ReplyWrote
    <2> QED
        BY <1>1, <2>2, <2>3, <2>4, FramingReply
<1>4. CASE HandledDatagram /\ ~UNCHANGED out
    <2>1. PICK i \in Running : Reply(i, 0, <<>>, FALSE)
        BY <1>4 DEF HandledDatagram
    <2>2. i \in 1..Len(sent) /\ Silent(i)
        BY <1>1, RunningShape DEF DatagramsInv
    <2>3. Wrote(i)
        BY <1>0, <1>1, <2>1, <2>2, ReplyWrote
    <2> QED
        BY <1>1, <2>2, <2>3, FramingReply
<1> QED
    BY <1>2, <1>3, <1>4

\* Steps that write nothing.
LEMMA NothingWritten ==
    ASSUME ShapeInv,
           \/ Send \/ Hangup \/ Reload \/ BecomeReady \/ HandshakeEnds \/ HeadTimeout \/ Accept
           \/ ReadFramed \/ ReadMessage \/ ReadHead \/ ReadBody \/ ReadStream \/ EndStreams \/ Wake
           \/ SocketError \/ HostGone \/ UNCHANGED listenerVars
    PROVE  UNCHANGED <<kind, out>> /\ \A i \in 1..Len(sent) : sent'[i] = sent[i]
<1>1. CASE Send
    <2>1. UNCHANGED <<kind, out>>
        BY <1>1 DEF Send
    <2>2. PICK r \in Request, n \in Nat, f \in Seq(Unit), k \in Nat : Sent(r, n, f, k)
        BY <1>1, SendFacts
    <2> QED
        BY <2>1, <2>2 DEF Sent
<1>2. ~Send => UNCHANGED <<kind, out, sent>>
    BY DEF Hangup, Reload, BecomeReady, HandshakeEnds, HeadTimeout, Accept, ReadFramed, ReadMessage,
       ReadHead, ReadBody, ReadStream, EndStreams, Wake, SocketError, HostGone, listenerVars, client,
       Server
<1> QED
    BY <1>1, <1>2

\* Every step.
LEMMA FramingStep ==
    ASSUME ShapeInv, ShapeInv', StreamInv, StreamsInv, DatagramsInv, FramingHolds, [Next]_vars
    PROVE  FramingHolds'
<1>1. CASE \/ HandledFramed \/ HandledHttp \/ StartRequest
           \/ AcceptStream \/ HandledStream \/ Drain \/ HandledDatagram
    BY <1>1, FramingSerial, FramingStreams, FramingDatagrams
<1>2. CASE ~(\/ HandledFramed \/ HandledHttp \/ StartRequest
             \/ AcceptStream \/ HandledStream \/ Drain \/ HandledDatagram)
    <2>1. UNCHANGED <<kind, out>> /\ \A i \in 1..Len(sent) : sent'[i] = sent[i]
        BY <1>2, Steps, NothingWritten DEF ListenerNext, ServerNext
    <2> QED
        BY <2>1, FramingKept
<1> QED
    BY <1>1, <1>2

\* Framing never slips, whatever the requests and however they are cut up.
THEOREM FramingNeverSlips == Spec => []FramingHolds
<1>1. Init => FramingHolds
    BY SMTT(30) DEF Init, ListenerInit, FramingHolds
<1>2. ShapeInv /\ ShapeInv' /\ StreamInv /\ StreamsInv /\ DatagramsInv /\ FramingHolds /\ [Next]_vars
         => FramingHolds'
    BY FramingStep
<1> QED
    BY <1>1, <1>2, ConnectionsInStep, StreamsInStep, PermitsAreBalanced, PTL DEF Spec

---------------------------------------------------------------------------
(* Keep-alive. *)

\* Nothing is written: the connection closes, or stays at its request.
LEMMA KeepAliveMove ==
    ASSUME KeepAliveInv, UNCHANGED <<kind, out>>,
           \/ conn'.pc = "closed"
           \/ /\ conn'.count = conn.count /\ conn'.close = conn.close
              /\ conn'.pc = conn.pc \/ (conn.pc = "body" /\ conn'.pc = "handle")
    PROVE  KeepAliveInv'
<1>1. CASE conn'.pc = "closed"
    BY <1>1 DEF KeepAliveInv
<1>2. CASE /\ conn'.count = conn.count /\ conn'.close = conn.close
           /\ conn'.pc = conn.pc \/ (conn.pc = "body" /\ conn'.pc = "handle")
    BY <1>2 DEF KeepAliveInv
<1> QED
    BY <1>1, <1>2

\* A response: the last of the connection, or one that does not close.
LEMMA KeepAliveReply ==
    ASSUME ShapeInv, KeepAliveInv, kind = "doh", UNCHANGED kind,
           conn.pc \in {"head", "handle"}, NEW id, Wrote(id),
           \/ /\ conn'.pc = "closed"
              /\ conn.count = MAX_REQS_PER_CONN => out'[Len(out) + 1].close
           \/ /\ ~out'[Len(out) + 1].close
              /\ conn'.pc = "head" /\ conn'.count = conn.count + 1
              /\ conn.count # MAX_REQS_PER_CONN
    PROVE  KeepAliveInv'
<1>1. /\ Len(out) \in Nat /\ Len(out') = Len(out) + 1
      /\ \A k \in 1..Len(out) : out'[k] = out[k] /\ ~out[k].close
      /\ conn.count = Len(out) + 1 /\ conn.count <= MAX_REQS_PER_CONN
      /\ MAX_REQS_PER_CONN \in Nat
    BY ListenerAssumption DEF KeepAliveInv, Wrote
<1>2. \A k \in 1..(Len(out') - 1) : ~out'[k].close
    BY <1>1, SMTT(30)
<1>3. CASE conn'.pc = "closed" /\ (conn.count = MAX_REQS_PER_CONN => out'[Len(out) + 1].close)
    <2>1. Len(out') >= MAX_REQS_PER_CONN => out'[Len(out')].close
        BY <1>1, <1>3, SMTT(30)
    <2> QED
        BY <1>2, <1>3, <2>1 DEF KeepAliveInv
<1>4. CASE /\ ~out'[Len(out) + 1].close
           /\ conn'.pc = "head" /\ conn'.count = conn.count + 1
           /\ conn.count # MAX_REQS_PER_CONN
    <2>1. \A k \in 1..Len(out') : ~out'[k].close
        BY <1>1, <1>4, SMTT(30)
    <2>2. ~(Len(out') >= MAX_REQS_PER_CONN)
          /\ conn'.count = Len(out') + 1 /\ conn'.count <= MAX_REQS_PER_CONN
        BY <1>1, <1>4, SMTT(30)
    <2> QED
        BY <1>2, <1>4, <2>1, <2>2 DEF KeepAliveInv
<1> QED
    BY <1>3, <1>4

\* The response of StartRequest is a refusal, and it closes.
LEMMA KeepAliveStart ==
    ASSUME ShapeInv, ShapeInv', StreamInv, KeepAliveInv, StartRequest
    PROVE  KeepAliveInv'
<1>1. kind = "doh" /\ conn.pc = "head" /\ UNCHANGED <<kind, sent>> /\ conn \in Connection
    BY DEF StartRequest, Server, client, ShapeInv, ConnOK
<1>2. PICK cur \in 1..Len(sent) : Started(cur)
    BY StreamStart
<1>3. CASE Refusal(sent[cur]) = 0
    <2>1. /\ conn'.pc \in {"body", "handle"} /\ conn'.count = conn.count
          /\ conn'.close = LastRequest(sent[cur]) /\ UNCHANGED out
        BY <1>2, <1>3, SMTT(30) DEF Started
    <2>2. conn'.count = MAX_REQS_PER_CONN => conn'.close
        <3>1. conn'.count = MAX_REQS_PER_CONN => conn.count >= MAX_REQS_PER_CONN
            BY <2>1, ListenerAssumption, SMTT(30)
        <3>2. conn.count >= MAX_REQS_PER_CONN => LastRequest(sent[cur])
            BY DEF LastRequest
        <3> QED
            BY <2>1, <3>1, <3>2
    <2> QED
        BY <1>1, <2>1, <2>2 DEF KeepAliveInv
<1>4. CASE Refusal(sent[cur]) # 0
    <2>1. /\ conn' = Closed
          /\ IF Refusal(sent[cur]) > 1 THEN Reply(cur, Refusal(sent[cur]), <<>>, TRUE)
             ELSE UNCHANGED out
        BY <1>2, <1>4 DEF Started
    <2>2. conn'.pc = "closed"
        BY <1>1, <2>1, ClosedShape
    <2>3. CASE UNCHANGED out
        BY <1>1, <2>2, <2>3, KeepAliveMove
    <2>4. CASE Reply(cur, Refusal(sent[cur]), <<>>, TRUE)
        <3>1. <<>> \in Seq(Unit) /\ TRUE \in BOOLEAN
            BY SMTT(30)
        <3>2. Refusal(sent[cur]) \in Nat
            BY RefusalIsStatus
        <3>3. Wrote(cur) /\ out'[Len(out) + 1] = [id |-> cur, status |-> Refusal(sent[cur]),
                                                 body |-> <<>>, close |-> TRUE]
            BY <1>1, <2>4, <3>1, <3>2, ReplyWrote
        <3>4. out'[Len(out) + 1].close
            BY <3>3, SMTT(30)
        <3> QED
            BY <1>1, <2>2, <3>3, <3>4, KeepAliveReply
    <2> QED
        BY <2>1, <2>3, <2>4
<1> QED
    BY <1>3, <1>4

\* The answer of the handler: with the last request, or an error, the connection closes.
LEMMA KeepAliveHandled ==
    ASSUME ShapeInv, KeepAliveInv, HandledHttp
    PROVE  KeepAliveInv'
<1>1. /\ kind = "doh" /\ conn.pc = "handle" /\ UNCHANGED <<kind, sent>>
      /\ conn \in Connection /\ conn.id \in 1..Len(sent)
    BY DEF HandledHttp, Server, client, ShapeInv, ConnOK, PlaceInv
<1>2. /\ conn.body \in Seq(Unit) /\ conn.close \in BOOLEAN /\ conn.count \in Nat
      /\ conn.count = MAX_REQS_PER_CONN => conn.close
    BY <1>1 DEF Connection, KeepAliveInv
<1>3. Closed.pc = "closed"
    BY <1>1, ClosedShape
<1>4. CASE /\ Reply(conn.id, 200, conn.body, conn.close)
           /\ conn' = IF conn.close \/ conn.count = MAX_REQS_PER_CONN THEN Closed
                      ELSE [conn EXCEPT !.pc = "head", !.count = @ + 1, !.body = <<>>]
    <2>1. Wrote(conn.id) /\ out'[Len(out) + 1] = [id |-> conn.id, status |-> 200,
                                                 body |-> conn.body, close |-> conn.close]
        BY <1>1, <1>2, <1>4, ReplyWrote
    <2>2. out'[Len(out) + 1].close = conn.close
        BY <2>1, SMTT(30)
    <2>3. CASE conn.close
        <3>1. conn'.pc = "closed"
            BY <1>3, <1>4, <2>3
        <3>2. out'[Len(out) + 1].close
            BY <2>2, <2>3
        <3> QED
            BY <1>1, <2>1, <3>1, <3>2, KeepAliveReply
    <2>4. CASE ~conn.close
        <3>1. conn.count # MAX_REQS_PER_CONN
            BY <1>2, <2>4
        <3>2. conn'.pc = "head" /\ conn'.count = conn.count + 1
            BY <1>1, <1>4, <2>4, <3>1 DEF Connection
        <3>3. ~out'[Len(out) + 1].close
            BY <2>2, <2>4
        <3> QED
            BY <1>1, <2>1, <3>1, <3>2, <3>3, KeepAliveReply
    <2> QED
        BY <2>3, <2>4
<1>5. CASE conn' = Closed /\ Reply(conn.id, 400, <<>>, TRUE)
    <2>1. PICK s : s = 400
        OBVIOUS
    <2>2. PICK b : b = <<>>
        OBVIOUS
    <2>3. PICK c : c = TRUE
        OBVIOUS
    <2>4. s \in Nat
        BY <2>1, SMTT(30)
    <2>5. b \in Seq(Unit)
        BY <2>2, SMTT(30)
    <2>6. c \in BOOLEAN
        BY <2>3
    <2>7. Reply(conn.id, s, b, c)
        BY <1>5, <2>1, <2>2, <2>3
    <2>8. Wrote(conn.id) /\ out'[Len(out) + 1] = [id |-> conn.id, status |-> s, body |-> b, close |-> c]
        BY <1>1, <2>4, <2>5, <2>6, <2>7, ReplyWrote
    <2>9. out'[Len(out) + 1].close
        BY <2>3, <2>8, SMTT(30)
    <2> QED
        BY <1>1, <1>3, <1>5, <2>8, <2>9, KeepAliveReply
<1>6. CASE conn' = Closed /\ UNCHANGED out
    BY <1>1, <1>3, <1>6, KeepAliveMove
<1> QED
    BY <1>4, <1>5, <1>6 DEF HandledHttp, Close

\* Every step.
LEMMA KeepAliveStep ==
    ASSUME ShapeInv, ShapeInv', StreamInv, KeepAliveInv, [Next]_vars
    PROVE  KeepAliveInv'
<1>0. CASE kind # "doh"
    BY <1>0, KindKept DEF KeepAliveInv
<1> SUFFICES ASSUME kind = "doh"
             PROVE  KeepAliveInv'
    BY <1>0
<1>1. conn \in Connection /\ Closed.pc = "closed"
    BY ClosedShape DEF ShapeInv, ConnOK
<1>2. CASE Send \/ Hangup \/ Reload \/ BecomeReady \/ UNCHANGED listenerVars
    <2>1. UNCHANGED <<kind, conn, out>>
        BY <1>2 DEF Send, Hangup, Reload, BecomeReady, listenerVars
    <2> QED
        BY <2>1, KeepAliveMove
<1>3. CASE HandshakeEnds \/ HeadTimeout \/ HostGone
    <2>1. UNCHANGED <<kind, out>> /\ conn'.pc = "closed"
        BY <1>1, <1>3 DEF HandshakeEnds, HeadTimeout, HostGone, Close, Server
    <2> QED
        BY <2>1, KeepAliveMove
<1>4. CASE Accept
    <2>1. UNCHANGED <<kind, out>> /\ conn.pc = "new"
        BY <1>4 DEF Accept, Server
    <2>2. CASE gate.allowed /\ ready
        <3>1. conn'.pc = "head" /\ conn'.count = 1
            BY <1>1, <1>4, <2>2 DEF Accept, Connection
        <3>2. Len(out) = 0 /\ MAX_REQS_PER_CONN \in Nat \ {0}
            BY <2>1, ListenerAssumption DEF KeepAliveInv
        <3> QED
            BY <2>1, <3>1, <3>2, SMTT(30) DEF KeepAliveInv
    <2>3. CASE ~(gate.allowed /\ ready)
        <3>1. conn'.pc = "closed"
            BY <1>1, <1>4, <2>3 DEF Accept
        <3> QED
            BY <2>1, <3>1, KeepAliveMove
    <2> QED
        BY <2>2, <2>3
<1>5. CASE ReadHead \/ ReadBody
    <2>1. UNCHANGED <<kind, out>>
        BY <1>5 DEF ReadHead, ReadBody, Server
    <2>2. \/ conn'.pc = "closed"
          \/ /\ conn'.count = conn.count /\ conn'.close = conn.close
             /\ conn'.pc = conn.pc \/ (conn.pc = "body" /\ conn'.pc = "handle")
        <3>1. CASE ReadHead
            BY <1>1, <3>1 DEF ReadHead, Close, Connection
        <3>2. CASE ReadBody
            BY <1>1, <3>2 DEF ReadBody, Close, Connection
        <3> QED
            BY <1>5, <3>1, <3>2
    <2> QED
        BY <2>1, <2>2, KeepAliveMove
<1>6. ListenerNext =>
         \/ Send \/ Hangup \/ Reload \/ BecomeReady \/ Accept \/ HandshakeEnds \/ HeadTimeout
         \/ ReadHead \/ StartRequest \/ ReadBody \/ HandledHttp
    BY DEF ListenerNext, ServerNext, ReadFramed, ReadMessage, HandledFramed, AcceptStream,
       ReadStream, HandledStream, EndStreams, Wake, SocketError, Drain, HandledDatagram
<1> QED
    BY <1>2, <1>3, <1>4, <1>5, <1>6, Steps, KeepAliveStart, KeepAliveHandled

---------------------------------------------------------------------------
(* Requests dealt with. *)

(* Why a request may go without a response.                                *)
Excused(i) ==
    \/ eof
    \/ kind = "doh" /\ ~(sent[i].valid /\ sent[i].sized)
    \/ kind = "h2" /\ sent[i].len > MAX_BODY
    \/ kind \in {"tcp", "dot"} /\ sent[i].len = 0
    \/ kind \in {"tcp", "dot", "udp"} /\ (sent[i].dns # "ok" \/ ~gate.allowed \/ reloads > 0)

AnsweredInv == \A i \in done : Silent(i) => Excused(i)

\* What has been written stays: responses are only added.
LEMMA OutGrows ==
    ASSUME ShapeInv, [Next]_vars, NEW i, Silent(i)'
    PROVE  Silent(i)
<1>1. UNCHANGED out \/ \E x : out' = Append(out, x)
    <2>1. CASE UNCHANGED listenerVars \/ HostGone
        BY <2>1 DEF listenerVars, HostGone
    <2>2. CASE Send \/ Hangup \/ Reload \/ BecomeReady \/ HandshakeEnds \/ HeadTimeout \/ Accept
               \/ ReadFramed \/ ReadMessage \/ ReadHead \/ ReadBody \/ ReadStream \/ EndStreams
               \/ Wake \/ SocketError
        BY <2>2, NothingWritten
    <2>3. CASE HandledFramed \/ HandledHttp
        BY <2>3 DEF HandledFramed, HandledHttp, Reply
    <2>4. CASE StartRequest
        BY <2>4 DEF StartRequest, Reply
    <2>5. CASE AcceptStream \/ HandledStream
        BY <2>5 DEF AcceptStream, HandledStream, Reply
    <2>6. CASE Drain \/ HandledDatagram
        BY <2>6 DEF Drain, Shed, Spawn, HandledDatagram, Reply
    <2> QED
        BY <2>1, <2>2, <2>3, <2>4, <2>5, <2>6, Steps DEF ListenerNext, ServerNext
<1>2. CASE UNCHANGED out
    BY <1>2 DEF Silent
<1>3. ASSUME NEW x, out' = Append(out, x)
      PROVE  Silent(i)
    <2>1. out \in Seq(Response)
        BY DEF ShapeInv, OutOK
    <2>2. Len(out) \in Nat /\ Len(out') = Len(out) + 1 /\ \A k \in 1..Len(out) : out'[k] = out[k]
        BY <1>3, <2>1, SMTT(30)
    <2> QED
        BY <2>2, SMTT(30) DEF Silent
<1> QED
    BY <1>1, <1>2, <1>3

\* An excuse stays one.
LEMMA ExcusedKept ==
    ASSUME ShapeInv, [Next]_vars, NEW i \in 1..Len(sent), Excused(i)
    PROVE  Excused(i)'
<1>1. kind' = kind /\ sent'[i] = sent[i]
    <2>1. CASE Send
        <3>1. PICK r \in Request, n \in Nat, f \in Seq(Unit), k \in Nat : Sent(r, n, f, k)
            BY <2>1, SendFacts
        <3> QED
            BY <3>1, KindKept DEF Sent
    <2>2. CASE ~Send
        BY <2>2, Steps, KindKept DEF ListenerNext, ServerNext, Hangup, Reload, BecomeReady,
           HandshakeEnds, HeadTimeout, Accept, ReadFramed, ReadMessage, HandledFramed, ReadHead,
           StartRequest, ReadBody, HandledHttp, AcceptStream, ReadStream, HandledStream, EndStreams,
           Wake, SocketError, Drain, HandledDatagram, HostGone, listenerVars, client, Server
    <2> QED
        BY <2>1, <2>2
<1>2. eof => eof'
    BY Steps DEF ListenerNext, ServerNext, Send, Hangup, Reload, BecomeReady,
       HandshakeEnds, HeadTimeout, Accept, ReadFramed, ReadMessage, HandledFramed, ReadHead,
       StartRequest, ReadBody, HandledHttp, AcceptStream, ReadStream, HandledStream, EndStreams,
       Wake, SocketError, Drain, HandledDatagram, HostGone, listenerVars, client, Server
<1>3. (~gate.allowed \/ reloads > 0) => (~gate'.allowed \/ reloads' > 0)
    <2>1. CASE Reload
        BY <2>1, SMTT(30) DEF Reload, ShapeInv, ClientOK
    <2>2. CASE ~Reload
        <3>1. UNCHANGED <<gate, reloads>>
            BY <2>2, Steps DEF ListenerNext, ServerNext, Send, Hangup, BecomeReady,
               HandshakeEnds, HeadTimeout, Accept, ReadFramed, ReadMessage, HandledFramed, ReadHead,
               StartRequest, ReadBody, HandledHttp, AcceptStream, ReadStream, HandledStream,
               EndStreams, Wake, SocketError, Drain, HandledDatagram, HostGone, listenerVars, client, Server
        <3> QED
            BY <3>1
    <2> QED
        BY <2>1, <2>2
<1> QED
    BY <1>1, <1>2, <1>3 DEF Excused

\* So it is enough to look at the requests a step finishes with.
LEMMA AnsweredBefore ==
    ASSUME ShapeInv, AnsweredInv, [Next]_vars,
           \A i \in done' \ done : Silent(i)' => Excused(i)'
    PROVE  AnsweredInv'
<1>1. done \subseteq 1..Len(sent)
    BY DEF ShapeInv, DoneOK
<1>2. ASSUME NEW i \in done, Silent(i)'
      PROVE  Excused(i)'
    BY <1>1, <1>2, OutGrows, ExcusedKept DEF AnsweredInv
<1> QED
    BY <1>2 DEF AnsweredInv

\* A response is heard, whatever is in it.
LEMMA ReplyIsHeard ==
    ASSUME ShapeInv, NEW id, NEW s, NEW b, NEW c, Reply(id, s, b, c)
    PROVE  ~Silent(id)'
<1>1. PICK x : x.id = id /\ out' = Append(out, x)
    BY DEF Reply
<1>2. out \in Seq(Response)
    BY DEF ShapeInv, OutOK
<1>3. Len(out) \in Nat /\ Len(out') = Len(out) + 1 /\ out'[Len(out) + 1] = x
    BY <1>1, <1>2, SMTT(30)
<1> QED
    BY <1>1, <1>3, SMTT(30) DEF Silent

(* The requests a step finishes with are answered, or excused.             *)
Dealt == \A i \in done' \ done : Silent(i)' => Excused(i)'

\* A step that finishes with one request.
LEMMA DealtWith ==
    ASSUME NEW id, done' = done \union {id}, ~Silent(id)' \/ Excused(id)'
    PROVE  Dealt
<1> SUFFICES ASSUME NEW i \in done' \ done
             PROVE  Silent(i)' => Excused(i)'
    BY DEF Dealt
<1>1. i = id
    OBVIOUS
<1> QED
    BY <1>1

\* TCP and DNS over TLS.
LEMMA DealtFramed ==
    ASSUME ShapeInv, ReadFramed \/ ReadMessage \/ HandledFramed
    PROVE  Dealt
<1>1. kind \in {"tcp", "dot"} /\ UNCHANGED <<kind, gate, reloads, sent, eof>>
    BY DEF ReadFramed, ReadMessage, HandledFramed, Server, client
<1>2. CASE UNCHANGED done
    BY <1>2 DEF Dealt
<1>3. CASE ReadFramed /\ ~UNCHANGED done
    <2>1. done' = done \union {wire[1][1]} /\ sent[wire[1][1]].len = 0
        BY <1>3 DEF ReadFramed
    <2>2. Excused(wire[1][1])
        BY <1>1, <2>1 DEF Excused
    <2>3. PICK id : id = wire[1][1]
        OBVIOUS
    <2>4. done' = done \union {id} /\ Excused(id)'
        BY <1>1, <2>1, <2>2, <2>3 DEF Excused
    <2> QED
        BY <2>4, DealtWith
<1>4. CASE ReadMessage /\ ~UNCHANGED done
    <2>1. done' = done \union {conn.id} /\ ~gate.allowed
        BY <1>4 DEF ReadMessage
    <2>2. PICK id : id = conn.id
        OBVIOUS
    <2>3. done' = done \union {id} /\ Excused(id)'
        BY <1>1, <2>1, <2>2 DEF Excused
    <2> QED
        BY <2>3, DealtWith
<1>5. CASE HandledFramed
    <2>1. PICK id : id = conn.id
        OBVIOUS
    <2>2. /\ done' = done \union {id}
          /\ \/ Reply(id, 0, conn.body, FALSE)
             \/ sent[id].dns # "ok"
             \/ eof
        BY <1>5, <2>1 DEF HandledFramed, NoAnswer
    <2>3. ~Silent(id)' \/ Excused(id)'
        <3>1. CASE Reply(id, 0, conn.body, FALSE)
            BY <3>1, ReplyIsHeard
        <3>2. CASE sent[id].dns # "ok" \/ eof
            BY <1>1, <3>2 DEF Excused
        <3> QED
            BY <2>2, <3>1, <3>2
    <2> QED
        BY <2>2, <2>3, DealtWith
<1> QED
    BY <1>2, <1>3, <1>4, <1>5

\* A request closed upon without a word has a bad head.
LEMMA SilentRefusal ==
    ASSUME NEW r, Refusal(r) = 1
    PROVE  ~(r.valid /\ r.sized)
BY SMTT(30) DEF Refusal

\* HTTP/1.1.
LEMMA DealtHttp ==
    ASSUME ShapeInv, ShapeInv', StreamInv, StartRequest \/ HandledHttp
    PROVE  Dealt
<1>1. kind = "doh" /\ UNCHANGED <<kind, gate, reloads, sent, eof>>
    BY DEF StartRequest, HandledHttp, Server, client
<1>2. CASE StartRequest
    <2>1. PICK id \in 1..Len(sent) : Started(id)
        BY <1>2, StreamStart
    <2>2. CASE UNCHANGED done
        BY <2>2 DEF Dealt
    <2>3. CASE ~UNCHANGED done
        <3>1. /\ done' = done \union {id} /\ Refusal(sent[id]) > 0
              /\ Refusal(sent[id]) > 1 => Reply(id, Refusal(sent[id]), <<>>, TRUE)
            BY <2>1, <2>3 DEF Started
        <3>2. CASE Refusal(sent[id]) > 1
            <4>1. ~Silent(id)'
                BY <3>1, <3>2, ReplyIsHeard
            <4> QED
                BY <3>1, <4>1, DealtWith
        <3>3. CASE ~(Refusal(sent[id]) > 1)
            <4>1. Refusal(sent[id]) = 1
                BY <3>1, <3>3, RefusalIsStatus, SMTT(30)
            <4>2. ~(sent[id].valid /\ sent[id].sized)
                BY <4>1, SilentRefusal
            <4>3. Excused(id)'
                BY <1>1, <4>2 DEF Excused
            <4> QED
                BY <3>1, <4>3, DealtWith
        <3> QED
            BY <3>2, <3>3
    <2> QED
        BY <2>2, <2>3
<1>3. CASE HandledHttp
    <2>1. PICK id : id = conn.id
        OBVIOUS
    <2>2. /\ done' = done \union {id}
          /\ \/ Reply(id, 200, conn.body, conn.close)
             \/ Reply(id, 400, <<>>, TRUE)
             \/ eof
        BY <1>3, <2>1 DEF HandledHttp
    <2>3. ~Silent(id)' \/ Excused(id)'
        <3>1. CASE Reply(id, 200, conn.body, conn.close)
            BY <3>1, ReplyIsHeard
        <3>2. CASE Reply(id, 400, <<>>, TRUE)
            BY <3>2, ReplyIsHeard
        <3>3. CASE eof
            BY <1>1, <3>3 DEF Excused
        <3> QED
            BY <2>2, <3>1, <3>2, <3>3
    <2> QED
        BY <2>2, <2>3, DealtWith
<1> QED
    BY <1>2, <1>3

\* HTTP/2.
LEMMA DealtStreams ==
    ASSUME ShapeInv, StreamsInv, AcceptStream \/ ReadStream \/ HandledStream \/ EndStreams
    PROVE  Dealt
<1>1. kind = "h2" /\ UNCHANGED <<kind, gate, reloads, sent, eof>>
    BY DEF AcceptStream, ReadStream, HandledStream, EndStreams, Server, client
<1>2. CASE UNCHANGED done
    BY <1>2 DEF Dealt
<1>3. CASE AcceptStream /\ ~UNCHANGED done
    <2>1. PICK id : done' = done \union {id} /\ \E s : Reply(id, s, <<>>, FALSE)
        BY <1>3 DEF AcceptStream
    <2>2. ~Silent(id)'
        BY <2>1, ReplyIsHeard
    <2> QED
        BY <2>1, <2>2, DealtWith
<1>4. CASE ReadStream /\ ~UNCHANGED done
    <2>1. PICK id \in 1..Len(sent) : done' = done \union {id} /\ sent[id].len > MAX_BODY
        BY <1>4, StreamsRead
    <2>2. Excused(id)'
        BY <1>1, <2>1 DEF Excused
    <2> QED
        BY <2>1, <2>2, DealtWith
<1>5. CASE HandledStream
    <2>1. PICK id \in Running :
             /\ done' = done \union {id}
             /\ \/ conn.pc = "closed"
                \/ Reply(id, 400, <<>>, FALSE)
                \/ Reply(id, 200, StreamBody(id), FALSE)
        BY <1>5 DEF HandledStream
    <2>2. ~Silent(id)' \/ Excused(id)'
        <3>1. CASE conn.pc = "closed"
            BY <1>1, <3>1 DEF StreamsInv, Excused
        <3>2. CASE Reply(id, 400, <<>>, FALSE)
            BY <3>2, ReplyIsHeard
        <3>3. CASE Reply(id, 200, StreamBody(id), FALSE)
            BY <3>3, ReplyIsHeard
        <3> QED
            BY <2>1, <3>1, <3>2, <3>3
    <2> QED
        BY <2>1, <2>2, DealtWith
<1>6. CASE EndStreams
    BY <1>1, <1>6 DEF EndStreams, Dealt, Excused
<1> QED
    BY <1>2, <1>3, <1>4, <1>5, <1>6

\* UDP.
LEMMA DealtDatagrams ==
    ASSUME ShapeInv, Drain \/ HandledDatagram
    PROVE  Dealt
<1>1. kind = "udp" /\ UNCHANGED <<kind, gate, reloads, sent, eof>>
    BY DEF Drain, HandledDatagram, Server, client
<1>2. CASE UNCHANGED done
    BY <1>2 DEF Dealt
<1>3. CASE Drain /\ ~UNCHANGED done
    <2>1. PICK id : id = wire[1][1]
        OBVIOUS
    <2>2. /\ done' = done \union {id}
          /\ \/ ~gate.allowed
             \/ sent[id].dns = "malformed"
             \/ Reply(id, 5, <<>>, FALSE)
        BY <1>3, <2>1 DEF Drain, Shed, Spawn
    <2>3. ~Silent(id)' \/ Excused(id)'
        <3>1. CASE ~gate.allowed \/ sent[id].dns = "malformed"
            BY <1>1, <3>1 DEF Excused
        <3>2. CASE Reply(id, 5, <<>>, FALSE)
            BY <3>2, ReplyIsHeard
        <3> QED
            BY <2>2, <3>1, <3>2
    <2> QED
        BY <2>2, <2>3, DealtWith
<1>4. CASE HandledDatagram
    <2>1. PICK id \in Running :
             /\ done' = done \union {id}
             /\ sent[id].dns # "ok" \/ Reply(id, 0, <<>>, FALSE)
        BY <1>4 DEF HandledDatagram
    <2>2. ~Silent(id)' \/ Excused(id)'
        <3>1. CASE sent[id].dns # "ok"
            BY <1>1, <3>1 DEF Excused
        <3>2. CASE Reply(id, 0, <<>>, FALSE)
            BY <3>2, ReplyIsHeard
        <3> QED
            BY <2>1, <3>1, <3>2
    <2> QED
        BY <2>1, <2>2, DealtWith
<1> QED
    BY <1>2, <1>3, <1>4

\* Every step.
LEMMA AnsweredStep ==
    ASSUME ShapeInv, ShapeInv', StreamInv, StreamsInv, AnsweredInv, [Next]_vars
    PROVE  AnsweredInv'
<1>1. Dealt
    <2>1. CASE \/ ReadFramed \/ ReadMessage \/ HandledFramed \/ StartRequest \/ HandledHttp
               \/ AcceptStream \/ ReadStream \/ HandledStream \/ EndStreams
               \/ Drain \/ HandledDatagram
        BY <2>1, DealtFramed, DealtHttp, DealtStreams, DealtDatagrams
    <2>2. CASE ~(\/ ReadFramed \/ ReadMessage \/ HandledFramed \/ StartRequest \/ HandledHttp
                 \/ AcceptStream \/ ReadStream \/ HandledStream \/ EndStreams
                 \/ Drain \/ HandledDatagram)
        <3>1. UNCHANGED done
            BY <2>2, Steps DEF ListenerNext, ServerNext, Send, Hangup, Reload, BecomeReady,
               HandshakeEnds, HeadTimeout, Accept, ReadHead, ReadBody, Wake, SocketError, HostGone,
               listenerVars, Server
        <3> QED
            BY <3>1 DEF Dealt
    <2> QED
        BY <2>1, <2>2
<1> QED
    BY <1>1, AnsweredBefore DEF Dealt

\* No request is dropped in silence, whatever the limits, the requests and the reloads.
THEOREM NothingDroppedInSilence == Spec => []NoSilentDrop
<1>1. Init => KeepAliveInv /\ AnsweredInv
    <2> SUFFICES ASSUME Init
                 PROVE  KeepAliveInv /\ AnsweredInv
        OBVIOUS
    <2>1. out = <<>> /\ done = {} /\ Len(out) = 0
        BY DEF Init, ListenerInit
    <2>2. MAX_REQS_PER_CONN \in Nat \ {0}
        BY ListenerAssumption
    <2>3. kind = "doh" => conn.pc = "new"
        BY DEF Init, ListenerInit, Fresh
    <2> QED
        BY <2>1, <2>2, <2>3, SMTT(30) DEF KeepAliveInv, AnsweredInv
<1>2. ShapeInv /\ ShapeInv' /\ StreamInv /\ StreamsInv /\ KeepAliveInv /\ AnsweredInv /\ [Next]_vars
         => KeepAliveInv' /\ AnsweredInv'
    BY KeepAliveStep, AnsweredStep
<1>3. ShapeInv /\ KeepAliveInv /\ AnsweredInv => NoSilentDrop
    <2> SUFFICES ASSUME ShapeInv, KeepAliveInv, AnsweredInv
                 PROVE  NoSilentDrop
        OBVIOUS
    <2>1. DOMAIN out = 1..Len(out)
        BY SMTT(30) DEF ShapeInv, OutOK
    <2>2. \A i : Replies(i) = {} => Silent(i)
        BY <2>1 DEF Replies, Silent
    <2>3. \A i \in done : Replies(i) = {} => Excused(i)
        BY <2>2 DEF AnsweredInv
    <2> QED
        BY <2>3 DEF NoSilentDrop, Excused, KeepAliveInv
<1> QED
    BY <1>1, <1>2, <1>3, ConnectionsInStep, StreamsInStep, PTL DEF Spec
===========================================================================
