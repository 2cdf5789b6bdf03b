---- MODULE ListenerProofs ----
(***************************************************************************)
(* The shape of a listener's state, and serial connections: what has been  *)
(* read is always in step with what was sent, for every request a client   *)
(* may send and however its units are cut up.                              *)
(***************************************************************************)
EXTENDS Frontend, Integers, WellFoundedInduction, TLAPS

\* The leaves are first-order steps; the ones that need arithmetic, sequences or
\* records cite SMT.
USE ZenonT(30)

---------------------------------------------------------------------------
(* Types. *)

Unit == Nat \X {"l", "b", "h", "e", "f", "d"}
Response == [id : Nat, status : Nat, body : Seq(Unit), close : BOOLEAN]
Task == [pc : {"none", "body", "handle", "ended"}, body : Seq(Unit)]
Connection == [pc : {"new", "head", "body", "handle", "streams", "parked", "drain", "closed"},
               pending : Seq(Unit), count : Nat, id : Nat, body : Seq(Unit), close : BOOLEAN]

ClientOK ==
    /\ kind \in Kinds
    /\ reloads \in Nat
    /\ sent \in Seq(Request) /\ Len(sent) <= MaxSends
    /\ \A i \in 1..Len(sent) : sent[i].method = "GET" => sent[i].len = 0
    /\ whole \in Nat /\ whole <= Len(sent) /\ Len(sent) <= whole + 1
    /\ eof \in BOOLEAN
WireOK ==
    /\ wire \in Seq(Unit)
    /\ \A k \in 1..Len(wire) : wire[k][1] \in 1..Len(sent)
ConnOK ==
    /\ conn \in Connection
    /\ \A k \in 1..Len(conn.pending) : conn.pending[k][1] \in 1..Len(sent)
TasksOK ==
    /\ tasks \in [1..MaxSends -> Task]
    /\ \A i \in 1..MaxSends : tasks[i].pc # "none" => i <= Len(sent)
DoneOK == done \subseteq 1..Len(sent)
OutOK ==
    /\ out \in Seq(Response)
    /\ \A k \in 1..Len(out) : out[k].id \in 1..Len(sent)

(* Where a connection of each protocol may be.                             *)
PlaceInv ==
    /\ kind = "udp" => conn.pc \in {"parked", "drain", "closed"}
    /\ kind = "h2" => conn.pc \in {"new", "streams", "closed"}
    /\ kind \in Serial => conn.pc \in {"new", "head", "body", "handle", "closed"}
    /\ conn.pc = "new" => sent = <<>>
    /\ kind \in {"tcp", "dot"} => conn.pending = <<>>
    /\ conn.pc \in {"new", "head"} => conn.body = <<>>
    /\ conn.pc \in {"new", "body"} => conn.pending = <<>>
    /\ conn.pc \in {"body", "handle"} => conn.id \in 1..Len(sent)

ShapeInv == ClientOK /\ WireOK /\ ConnOK /\ TasksOK /\ DoneOK /\ OutOK /\ PlaceInv

---------------------------------------------------------------------------
(* Serial connections: the stream of requests.                             *)

Header(k, r) == IF k = "doh" THEN r.head + 1 ELSE 2
Size(k, r) == Header(k, r) + r.len
UnitAt(k, r, id, j) ==
    IF j > Header(k, r) THEN <<id, "b">>
    ELSE IF k # "doh" THEN <<id, "l">>
    ELSE IF j = Header(k, r) THEN <<id, "e">> ELSE <<id, "h">>

(* The unread units u are the end of the frames of the requests s, laid    *)
(* one behind the other: the i-th starts behind unit start[i].             *)
Laid(k, u, s, w, start) ==
    /\ \A i \in 1..Len(s) : start[i + 1] = start[i] + Size(k, s[i])
    /\ \A i \in 1..(Len(s) + 1) : start[i] <= start[Len(s) + 1]
    /\ Len(u) = start[Len(s) + 1] - (Len(s) - w)
    /\ \A i \in 1..Len(s) : \A j \in 1..Size(k, s[i]) :
          start[i] + j \in 1..Len(u) => u[start[i] + j] = UnitAt(k, s[i], i, j)

(* What the task has read of the current request.                          *)
AtRequest(cur, start) ==
    /\ \A k \in 1..Len(out) : out[k].id < cur
    /\ conn.pc = "head" => start[cur] = 0
    /\ conn.pc \in {"body", "handle"} => cur = conn.id
    /\ conn.pc = "body" =>
          /\ start[cur] = 0 - (Header(kind, sent[cur]) + Len(conn.body))
          /\ Len(conn.body) < sent[cur].len
          /\ kind # "doh" => conn.body = <<>>
          /\ \A j \in 1..Len(conn.body) : conn.body[j] = <<cur, "b">>
    /\ conn.pc = "handle" =>
          /\ start[cur + 1] = 0
          /\ conn.body = Body(sent[cur], cur)

Starts == [1..(Len(sent) + 1) -> Int]
Unread == conn.pending \o wire
StreamInv ==
    (kind \in Serial /\ conn.pc \in {"head", "body", "handle"}) =>
        \E cur \in 1..(Len(sent) + 1) : \E start \in Starts :
            Laid(kind, Unread, sent, whole, start) /\ AtRequest(cur, start)

---------------------------------------------------------------------------
(* Streams and datagrams, each with a task of its own.                     *)

Silent(i) == \A k \in 1..Len(out) : out[k].id # i
At(u) == {k \in 1..Len(wire) : wire[k] = u}

FramesOK(i) ==
    /\ \A j, k \in At(<<i, "e">>) : j = k
    /\ \A j \in At(<<i, "b">>), k \in At(<<i, "f">>) : j < k
StreamOK(i) ==
    /\ At(<<i, "e">>) # {} => tasks[i].pc = "none"
    /\ tasks[i].pc # "ended" => Silent(i)
    /\ tasks[i].pc \in {"none", "body"} =>
          /\ Cardinality(At(<<i, "b">>)) + Len(tasks[i].body) = sent[i].len
          /\ \A j \in 1..Len(tasks[i].body) : tasks[i].body[j] = <<i, "b">>
    /\ tasks[i].pc = "handle" => tasks[i].body = Body(sent[i], i)

StreamsInv ==
    kind = "h2" =>
        /\ \A i \in 1..MaxSends : tasks[i].pc = "none" => tasks[i].body = <<>>
        /\ (conn.pc = "closed" /\ Running # {}) => eof
        /\ conn.pc = "streams" => \A i \in 1..Len(sent) : FramesOK(i) /\ StreamOK(i)

DatagramsInv ==
    kind = "udp" =>
        /\ permits \in Nat /\ PermitsBalanced
        /\ \A i \in Running : Silent(i)
        /\ conn.pc # "closed" =>
              /\ \A k \in 1..Len(wire) : tasks[wire[k][1]].pc = "none" /\ Silent(wire[k][1])
              /\ \A j, k \in 1..Len(wire) : wire[j][1] = wire[k][1] => j = k

---------------------------------------------------------------------------
(* Sequences of units. *)

\* A part of a sequence of units.
LEMMA Slice ==
    ASSUME NEW s \in Seq(Unit), NEW m \in Nat \ {0}, NEW n \in Nat, n <= Len(s)
    PROVE  /\ SubSeq(s, m, n) \in Seq(Unit)
           /\ Len(SubSeq(s, m, n)) = IF m <= n THEN n - m + 1 ELSE 0
           /\ \A j \in 1..(n - m + 1) : SubSeq(s, m, n)[j] = s[m + j - 1]
<1>1. \A i \in m..n : s[i] \in Unit
    BY SMTT(30)
<1> QED
    BY <1>1, SMTT(30)

\* Equal units in a row.
LEMMA RepeatUnits ==
    ASSUME NEW x \in Unit, NEW n \in Nat
    PROVE  /\ Repeat(x, n) \in Seq(Unit) /\ Len(Repeat(x, n)) = n
           /\ \A j \in 1..n : Repeat(x, n)[j] = x
<1>1. Repeat(x, n) \in [1..n -> Unit]
    BY DEF Repeat
<1> QED
    BY <1>1, SMTT(30) DEF Repeat

\* Two sequences, one behind the other.
LEMMA Joined ==
    ASSUME NEW s \in Seq(Unit), NEW t \in Seq(Unit)
    PROVE  /\ s \o t \in Seq(Unit) /\ Len(s \o t) = Len(s) + Len(t)
           /\ \A j \in 1..Len(s) : (s \o t)[j] = s[j]
           /\ \A j \in (Len(s) + 1)..(Len(s) + Len(t)) : (s \o t)[j] = t[j - Len(s)]
BY SMTT(30)

\* The units of a request, and how many they are.
LEMMA SerialFrame ==
    ASSUME kind \in Serial, NEW r \in Request, NEW id \in Nat
    PROVE  /\ Frame(r, id) \in Seq(Unit) /\ Len(Frame(r, id)) = Size(kind, r)
           /\ \A j \in 1..Len(Frame(r, id)) : Frame(r, id)[j] = UnitAt(kind, r, id, j)
<1> DEFINE n == r.len
           m == r.head
           b == Repeat(<<id, "b">>, n)
           l == Repeat(<<id, "l">>, 2)
           h == Repeat(<<id, "h">>, m)
           e == <<<<id, "e">>>>
           f == Frame(r, id)
<1>1. n \in Nat /\ m \in Nat /\ 1 \in Nat /\ 2 \in Nat
    BY DEF Request
<1>2. /\ <<id, "b">> \in Unit /\ <<id, "l">> \in Unit /\ <<id, "h">> \in Unit
      /\ <<id, "e">> \in Unit
    BY DEF Unit
<1> HIDE DEF n, m
<1>3. b \in Seq(Unit) /\ Len(b) = n /\ \A j \in 1..n : b[j] = <<id, "b">>
    BY <1>1, <1>2, RepeatUnits
<1>4. l \in Seq(Unit) /\ Len(l) = 2 /\ \A j \in 1..2 : l[j] = <<id, "l">>
    BY <1>2, RepeatUnits
<1>5. h \in Seq(Unit) /\ Len(h) = m /\ \A j \in 1..m : h[j] = <<id, "h">>
    BY <1>1, <1>2, RepeatUnits
<1>6. e \in Seq(Unit) /\ Len(e) = 1 /\ e[1] = <<id, "e">>
    BY <1>2, SMTT(30)
<1>7. CASE kind = "doh"
    <2> DEFINE he == h \o e
    <2>1. f = he \o b
        BY <1>7 DEF Frame, HttpHead, Body, n, m
    <2> HIDE DEF b, h, e, f
    <2>2. /\ he \in Seq(Unit) /\ Len(he) = m + 1
          /\ \A j \in 1..m : he[j] = h[j]
          /\ \A j \in (m + 1)..(m + 1) : he[j] = e[j - m]
        <3>1. /\ he \in Seq(Unit) /\ Len(he) = Len(h) + Len(e)
              /\ \A j \in 1..Len(h) : he[j] = h[j]
              /\ \A j \in (Len(h) + 1)..(Len(h) + Len(e)) : he[j] = e[j - Len(h)]
            BY <1>5, <1>6, Joined
        <3> HIDE DEF he
        <3> QED
            BY <1>1, <1>5, <1>6, <3>1
    <2> HIDE DEF he
    <2>3. /\ f \in Seq(Unit) /\ Len(f) = (m + 1) + n
          /\ \A j \in 1..(m + 1) : f[j] = he[j]
          /\ \A j \in ((m + 1) + 1)..((m + 1) + n) : f[j] = b[j - (m + 1)]
        <3>1. /\ f \in Seq(Unit) /\ Len(f) = Len(he) + Len(b)
              /\ \A j \in 1..Len(he) : f[j] = he[j]
              /\ \A j \in (Len(he) + 1)..(Len(he) + Len(b)) : f[j] = b[j - Len(he)]
            BY <1>3, <2>1, <2>2, Joined
        <3> HIDE DEF f
        <3> QED
            BY <1>1, <1>3, <2>1, <2>2, <3>1
    <2>4. Header(kind, r) = m + 1 /\ Size(kind, r) = (m + 1) + n
        BY <1>7 DEF Header, Size, m, n
    <2>5. ASSUME NEW j \in 1..((m + 1) + n)
          PROVE  f[j] = UnitAt(kind, r, id, j)
        <3>1. CASE j <= m
            <4>1. f[j] = <<id, "h">>
                BY <1>1, <1>5, <2>2, <2>3, <3>1, SMTT(30)
            <4> QED
                BY <1>1, <1>7, <2>4, <3>1, <4>1, SMTT(30) DEF UnitAt
        <3>2. CASE j = m + 1
            <4>0. j - m = 1
                BY <1>1, <3>2, SMTT(30)
            <4>1. f[j] = <<id, "e">>
                BY <1>1, <1>6, <2>2, <2>3, <3>2, <4>0, SMTT(30)
            <4> QED
                BY <1>1, <1>7, <2>4, <3>2, <4>1, SMTT(30) DEF UnitAt
        <3>3. CASE j > m + 1
            <4>1. j - (m + 1) \in 1..n /\ j \in ((m + 1) + 1)..((m + 1) + n)
                BY <1>1, <3>3, SMTT(30)
            <4>2. f[j] = <<id, "b">>
                BY <1>3, <2>3, <4>1
            <4> QED
                BY <1>1, <2>4, <3>3, <4>2 DEF UnitAt
        <3> QED
            BY <1>1, <3>1, <3>2, <3>3, SMTT(30)
    <2> QED
        BY <2>3, <2>4, <2>5 DEF f
<1>8. CASE kind \in {"tcp", "dot"}
    <2>1. f = l \o b
        BY <1>8 DEF Frame, Body, n
    <2> HIDE DEF b, l, f
    <2>3. /\ f \in Seq(Unit) /\ Len(f) = 2 + n
          /\ \A j \in 1..2 : f[j] = l[j]
          /\ \A j \in (2 + 1)..(2 + n) : f[j] = b[j - 2]
        <3>1. /\ f \in Seq(Unit) /\ Len(f) = Len(l) + Len(b)
              /\ \A j \in 1..Len(l) : f[j] = l[j]
              /\ \A j \in (Len(l) + 1)..(Len(l) + Len(b)) : f[j] = b[j - Len(l)]
            BY <1>3, <1>4, <2>1, Joined
        <3> HIDE DEF f
        <3> QED
            BY <1>1, <1>3, <1>4, <2>1, <3>1
    <2>4. Header(kind, r) = 2 /\ Size(kind, r) = 2 + n
        BY <1>8 DEF Header, Size, n
    <2>5. ASSUME NEW j \in 1..(2 + n)
          PROVE  f[j] = UnitAt(kind, r, id, j)
        <3>1. CASE j <= 2
            <4>1. f[j] = <<id, "l">>
                BY <1>1, <1>4, <2>3, <3>1, SMTT(30)
            <4> QED
                BY <1>1, <1>8, <2>4, <3>1, <4>1, SMTT(30) DEF UnitAt
        <3>2. CASE j > 2
            <4>1. j - 2 \in 1..n /\ j \in (2 + 1)..(2 + n)
                BY <1>1, <3>2, SMTT(30)
            <4>2. f[j] = <<id, "b">>
                BY <1>3, <2>3, <4>1
            <4> QED
                BY <1>1, <2>4, <3>2, <4>2 DEF UnitAt
        <3> QED
            BY <1>1, <3>1, <3>2, SMTT(30)
    <2> QED
        BY <2>3, <2>4, <2>5 DEF f
<1> QED
    BY <1>7, <1>8 DEF Serial

\* A stream: its head, the chunks of its body, and its end.
LEMMA StreamFrame ==
    ASSUME kind = "h2", NEW r \in Request, NEW id \in Nat
    PROVE  LET n == r.len
               f == Frame(r, id)
           IN  /\ f \in Seq(Unit) /\ Len(f) = n + 2
               /\ f[1] = <<id, "e">> /\ f[n + 2] = <<id, "f">>
               /\ \A j \in 2..(n + 1) : f[j] = <<id, "b">>
<1> DEFINE n == r.len
           b == Repeat(<<id, "b">>, n)
           e == <<<<id, "e">>>>
           g == <<<<id, "f">>>>
           eb == e \o b
           f == Frame(r, id)
<1>1. n \in Nat /\ 1 \in Nat
    BY DEF Request
<1>2. <<id, "b">> \in Unit /\ <<id, "e">> \in Unit /\ <<id, "f">> \in Unit
    BY DEF Unit
<1>3. f = eb \o g
    BY DEF Frame, Body
<1> HIDE DEF n, f
<1>4. b \in Seq(Unit) /\ Len(b) = n /\ \A j \in 1..n : b[j] = <<id, "b">>
    BY <1>1, <1>2, RepeatUnits
<1>5. e \in Seq(Unit) /\ Len(e) = 1 /\ e[1] = <<id, "e">>
    BY <1>2, SMTT(30)
<1>6. g \in Seq(Unit) /\ Len(g) = 1 /\ g[1] = <<id, "f">>
    BY <1>2, SMTT(30)
<1> HIDE DEF b, e, g
<1>7. /\ eb \in Seq(Unit) /\ Len(eb) = 1 + n
      /\ \A j \in 1..1 : eb[j] = e[j]
      /\ \A j \in (1 + 1)..(1 + n) : eb[j] = b[j - 1]
    <2>1. /\ eb \in Seq(Unit) /\ Len(eb) = Len(e) + Len(b)
          /\ \A j \in 1..Len(e) : eb[j] = e[j]
          /\ \A j \in (Len(e) + 1)..(Len(e) + Len(b)) : eb[j] = b[j - Len(e)]
        BY <1>4, <1>5, Joined
    <2> HIDE DEF eb
    <2> QED
        BY <1>1, <1>4, <1>5, <2>1
<1> HIDE DEF eb
<1>8. /\ f \in Seq(Unit) /\ Len(f) = (1 + n) + 1
      /\ \A j \in 1..(1 + n) : f[j] = eb[j]
      /\ \A j \in ((1 + n) + 1)..((1 + n) + 1) : f[j] = g[j - (1 + n)]
    <2>1. /\ f \in Seq(Unit) /\ Len(f) = Len(eb) + Len(g)
          /\ \A j \in 1..Len(eb) : f[j] = eb[j]
          /\ \A j \in (Len(eb) + 1)..(Len(eb) + Len(g)) : f[j] = g[j - Len(eb)]
        BY <1>3, <1>6, <1>7, Joined
    <2> HIDE DEF f
    <2> QED
        BY <1>1, <1>3, <1>6, <1>7, <2>1
<1>9. f[1] = <<id, "e">>
    BY <1>1, <1>5, <1>7, <1>8, SMTT(30)
<1>10. f[n + 2] = <<id, "f">>
    <2>1. (n + 2) - (1 + n) = 1 /\ n + 2 \in ((1 + n) + 1)..((1 + n) + 1)
        BY <1>1, SMTT(30)
    <2> QED
        BY <1>6, <1>8, <2>1
<1>11. ASSUME NEW j \in 2..(n + 1)
       PROVE  f[j] = <<id, "b">>
    <2>1. j - 1 \in 1..n /\ j \in (1 + 1)..(1 + n) /\ j \in 1..(1 + n)
        BY <1>1, SMTT(30)
    <2> QED
        BY <1>4, <1>7, <1>8, <2>1
<1>12. Len(f) = n + 2
    BY <1>1, <1>8, SMTT(30)
<1> QED
    BY <1>8, <1>9, <1>10, <1>11, <1>12 DEF n, f

\* A datagram is one unit; every unit of a request carries its number.
LEMMA FrameShape ==
    ASSUME kind \in Kinds, NEW r \in Request, NEW id \in Nat
    PROVE  /\ Frame(r, id) \in Seq(Unit) /\ Len(Frame(r, id)) >= 1
           /\ \A j \in 1..Len(Frame(r, id)) : Frame(r, id)[j][1] = id
<1> DEFINE f == Frame(r, id)
<1>1. r.len \in Nat /\ r.head \in Nat
    BY DEF Request
<1>2. CASE kind \in Serial
    <2>1. \A j \in Nat : UnitAt(kind, r, id, j)[1] = id
        BY DEF UnitAt
    <2>2. Size(kind, r) >= 1
        BY <1>1, SMTT(30) DEF Size, Header
    <2>3. /\ f \in Seq(Unit) /\ Len(f) = Size(kind, r)
          /\ \A j \in 1..Len(f) : f[j] = UnitAt(kind, r, id, j)
        BY <1>2, SerialFrame
    <2> HIDE DEF f
    <2> QED
        BY <2>1, <2>2, <2>3, SMTT(30) DEF f
<1>3. CASE kind = "h2"
    <2> DEFINE n == r.len
    <2>1. /\ f \in Seq(Unit) /\ Len(f) = n + 2
          /\ f[1] = <<id, "e">> /\ f[n + 2] = <<id, "f">>
          /\ \A j \in 2..(n + 1) : f[j] = <<id, "b">>
        BY <1>3, StreamFrame
    <2> HIDE DEF f, n
    <2>2. n \in Nat
        BY <1>1 DEF n
    <2>3. ASSUME NEW j \in 1..Len(f)
          PROVE  f[j][1] = id
        <3>1. j = 1 \/ j = n + 2 \/ j \in 2..(n + 1)
            BY <2>1, <2>2, SMTT(30)
        <3> QED
            BY <2>1, <3>1, SMTT(30)
    <2> QED
        BY <2>1, <2>2, <2>3, SMTT(30) DEF f
<1>4. CASE kind = "udp"
    <2>1. f = <<<<id, "d">>>>
        BY <1>4 DEF Frame
    <2>2. <<id, "d">> \in Unit
        BY DEF Unit
    <2> QED
        BY <2>1, <2>2, SMTT(30)
<1> QED
    BY <1>2, <1>3, <1>4, ListenerAssumption DEF Serial

---------------------------------------------------------------------------
(* Steps. *)

\* The runtime of the listener's thread is dropped.
HostGone ==
    /\ conn' = Closed
    /\ tasks' = [t \in DOMAIN tasks |-> NoTask]
    /\ permits' = MAX_INFLIGHT
    /\ UNCHANGED <<kind, gate, ready, reloads, client, wire, done, out>>

\* What a step does to the listener.
LEMMA Steps ==
    ASSUME [Next]_vars
    PROVE  ListenerNext \/ HostGone \/ UNCHANGED listenerVars
BY DEF Next, vars, Pool, HostExits, HostGone

\* Closing keeps the connection a connection.
LEMMA ClosedShape ==
    ASSUME conn \in Connection
    PROVE  /\ Closed \in Connection
           /\ Closed.pc = "closed" /\ Closed.pending = <<>> /\ Closed.body = <<>>
<1>1. <<>> \in Seq(Unit)
    BY SMTT(30)
<1>2. Closed \in Connection
    BY <1>1 DEF Closed, Connection
<1>3. Closed.pc = "closed" /\ Closed.pending = <<>> /\ Closed.body = <<>>
    BY DEF Closed, Connection
<1> QED
    BY <1>2, <1>3

\* A response goes behind those written before.
LEMMA ReplyShape ==
    ASSUME OutOK, sent \in Seq(Request), UNCHANGED sent, NEW id \in 1..Len(sent), NEW status \in Nat,
           NEW body \in Seq(Unit), NEW close \in BOOLEAN, Reply(id, status, body, close)
    PROVE  /\ OutOK'
           /\ Len(out) \in Nat /\ Len(out') = Len(out) + 1
           /\ \A k \in 1..Len(out) : out'[k] = out[k]
           /\ out'[Len(out) + 1] = [id |-> id, status |-> status, body |-> body, close |-> close]
<1> DEFINE r == [id |-> id, status |-> status, body |-> body, close |-> close]
<1>1. r \in Response /\ r.id = id
    BY SMTT(30) DEF Response
<1>2. out' = Append(out, r) /\ out \in Seq(Response)
    BY DEF Reply, OutOK
<1> HIDE DEF r
<1>3. /\ out' \in Seq(Response) /\ Len(out) \in Nat /\ Len(out') = Len(out) + 1
      /\ \A k \in 1..Len(out) : out'[k] = out[k]
      /\ out'[Len(out) + 1] = r
    BY <1>1, <1>2, SMTT(30)
<1>4. ASSUME NEW k \in 1..Len(out')
      PROVE  out'[k].id \in 1..Len(sent)
    <2>1. CASE k \in 1..Len(out)
        BY <1>3, <2>1 DEF OutOK
    <2>2. CASE k = Len(out) + 1
        BY <1>1, <1>3, <2>2
    <2> QED
        BY <1>3, <2>1, <2>2, SMTT(30)
<1> QED
    BY <1>3, <1>4 DEF OutOK, r

\* Units are taken from the front of the wire.
LEMMA WireRest ==
    ASSUME WireOK, UNCHANGED sent, NEW n \in Nat, n <= Len(wire),
           wire' = SubSeq(wire, n + 1, Len(wire))
    PROVE  /\ WireOK' /\ Len(wire) \in Nat /\ Len(wire') = Len(wire) - n
           /\ \A j \in 1..(Len(wire) - n) : wire'[j] = wire[n + j]
<1>1. wire \in Seq(Unit) /\ Len(wire) \in Nat /\ n + 1 \in Nat \ {0}
    BY SMTT(30) DEF WireOK
<1>2. /\ wire' \in Seq(Unit)
      /\ Len(wire') = IF n + 1 <= Len(wire) THEN Len(wire) - (n + 1) + 1 ELSE 0
      /\ \A j \in 1..(Len(wire) - (n + 1) + 1) : wire'[j] = wire[(n + 1) + j - 1]
    BY <1>1, Slice, SMTT(30)
<1>3. Len(wire') = Len(wire) - n
    BY <1>1, <1>2, SMTT(30)
<1>4. \A j \in 1..(Len(wire) - n) : wire'[j] = wire[n + j]
    <2> SUFFICES ASSUME NEW j \in 1..(Len(wire) - n)
                 PROVE  wire'[j] = wire[n + j]
        OBVIOUS
    <2>1. j \in 1..(Len(wire) - (n + 1) + 1) /\ (n + 1) + j - 1 = n + j
        BY <1>1, SMTT(30)
    <2> QED
        BY <1>2, <2>1
<1>5. \A j \in 1..(Len(wire) - n) : n + j \in 1..Len(wire)
    BY <1>1, SMTT(30)
<1> QED
    BY <1>1, <1>2, <1>3, <1>4, <1>5 DEF WireOK

\* The units a read returns.
LEMMA WireFirst ==
    ASSUME WireOK, NEW n \in Nat, n <= Len(wire)
    PROVE  /\ SubSeq(wire, 1, n) \in Seq(Unit) /\ Len(SubSeq(wire, 1, n)) = n
           /\ \A j \in 1..n : SubSeq(wire, 1, n)[j] = wire[j]
<1>1. wire \in Seq(Unit) /\ 1 \in Nat \ {0}
    BY SMTT(30) DEF WireOK
<1>2. /\ SubSeq(wire, 1, n) \in Seq(Unit)
      /\ Len(SubSeq(wire, 1, n)) = IF 1 <= n THEN n - 1 + 1 ELSE 0
      /\ \A j \in 1..(n - 1 + 1) : SubSeq(wire, 1, n)[j] = wire[1 + j - 1]
    BY <1>1, Slice
<1>3. Len(SubSeq(wire, 1, n)) = n
    BY <1>2, SMTT(30)
<1>4. \A j \in 1..n : j \in 1..(n - 1 + 1) /\ 1 + j - 1 = j
    BY SMTT(30)
<1> QED
    BY <1>2, <1>3, <1>4

\* A set of natural numbers has a least element.
LEMMA LeastNat ==
    ASSUME NEW S \in SUBSET Nat, S # {}
    PROVE  \E x \in S : \A y \in S : x <= y
<1> DEFINE R == {p \in Nat \X Nat : p[1] < p[2]}
<1>1. IsWellFoundedOn(OpToRel(<, Nat), Nat)
    BY NatLessThanWellFounded
<1>2. OpToRel(<, Nat) = R
    BY DEF OpToRel
<1>3. IsWellFoundedOn(R, Nat)
    BY <1>1, <1>2
<1>4. \E x \in S : \A y \in S : ~(<<y, x>> \in R)
    BY <1>3, WFMin
<1>5. \A x, y \in Nat : <<y, x>> \notin R => x <= y
    <2>1. ASSUME NEW x \in Nat, NEW y \in Nat, ~(x <= y)
          PROVE  <<y, x>> \in R
        BY <2>1, SMTT(30)
    <2> QED
        BY <2>1
<1> HIDE DEF R
<1> QED
    BY <1>4, <1>5

\* The end of the first head, as StartRequest finds it.
HeadEnd == CHOOSE i \in HeadEnds : \A j \in HeadEnds : i <= j

\* The end that read_until_double_crlf finds is there, and the first.
LEMMA HeadEndIsFirst ==
    ASSUME conn \in Connection, HeadEnds # {}
    PROVE  /\ HeadEnd \in 1..Len(conn.pending) /\ conn.pending[HeadEnd][2] = "e"
           /\ \A j \in 1..Len(conn.pending) : conn.pending[j][2] = "e" => HeadEnd <= j
<1>1. HeadEnds \in SUBSET Nat
    BY SMTT(30) DEF HeadEnds
<1>2. \E i \in HeadEnds : \A j \in HeadEnds : i <= j
    BY <1>1, LeastNat
<1>3. HeadEnd \in HeadEnds /\ \A j \in HeadEnds : HeadEnd <= j
    BY <1>2 DEF HeadEnd
<1> QED
    BY <1>3 DEF HeadEnds

\* The over-read is divided between the body and the next request.
LEMMA SplitShape ==
    ASSUME NEW seed \in Seq(Unit), NEW len \in Nat
    PROVE  /\ Split(seed, len).body \in Seq(Unit) /\ Split(seed, len).pending \in Seq(Unit)
           /\ Len(seed) >= len =>
                 /\ Len(Split(seed, len).body) = len
                 /\ \A j \in 1..len : Split(seed, len).body[j] = seed[j]
                 /\ Len(Split(seed, len).pending) = Len(seed) - len
                 /\ \A j \in 1..(Len(seed) - len) :
                       Split(seed, len).pending[j] = seed[len + j]
           /\ Len(seed) < len => Split(seed, len).body = seed /\ Split(seed, len).pending = <<>>
<1>1. Len(seed) \in Nat /\ 1 \in Nat \ {0} /\ len + 1 \in Nat \ {0}
    BY SMTT(30)
<1>2. CASE Len(seed) >= len
    <2>1. Split(seed, len).body = SubSeq(seed, 1, len)
          /\ Split(seed, len).pending = SubSeq(seed, len + 1, Len(seed))
        BY <1>2 DEF Split
    <2>2. /\ SubSeq(seed, 1, len) \in Seq(Unit)
          /\ Len(SubSeq(seed, 1, len)) = IF 1 <= len THEN len - 1 + 1 ELSE 0
          /\ \A j \in 1..(len - 1 + 1) : SubSeq(seed, 1, len)[j] = seed[1 + j - 1]
        BY <1>1, <1>2, Slice
    <2>3. /\ SubSeq(seed, len + 1, Len(seed)) \in Seq(Unit)
          /\ Len(SubSeq(seed, len + 1, Len(seed)))
                = IF len + 1 <= Len(seed) THEN Len(seed) - (len + 1) + 1 ELSE 0
          /\ \A j \in 1..(Len(seed) - (len + 1) + 1) :
                SubSeq(seed, len + 1, Len(seed))[j] = seed[(len + 1) + j - 1]
        BY <1>1, Slice, SMTT(30)
    <2>4. Len(SubSeq(seed, 1, len)) = len
        BY <1>1, <2>2, SMTT(30)
    <2>5. Len(SubSeq(seed, len + 1, Len(seed))) = Len(seed) - len
        BY <1>1, <1>2, <2>3, SMTT(30)
    <2>6. \A j \in 1..len : j \in 1..(len - 1 + 1) /\ 1 + j - 1 = j
        BY SMTT(30)
    <2>7. \A j \in 1..(Len(seed) - len) :
             j \in 1..(Len(seed) - (len + 1) + 1) /\ (len + 1) + j - 1 = len + j
        BY <1>1, SMTT(30)
    <2>8. \A j \in 1..len : SubSeq(seed, 1, len)[j] = seed[j]
        BY <2>2, <2>6
    <2>9. \A j \in 1..(Len(seed) - len) : SubSeq(seed, len + 1, Len(seed))[j] = seed[len + j]
        BY <2>3, <2>7
    <2> QED
        BY <1>1, <1>2, <2>1, <2>2, <2>3, <2>4, <2>5, <2>8, <2>9, SMTT(30)
<1>3. CASE Len(seed) < len
    <2>1. Split(seed, len).body = seed /\ Split(seed, len).pending = <<>>
        BY <1>1, <1>3, SMTT(30) DEF Split
    <2> QED
        BY <1>1, <1>3, <2>1, SMTT(30)
<1> QED
    BY <1>1, <1>2, <1>3, SMTT(30)

\* What was read behind the head.
LEMMA LeftoverShape ==
    ASSUME NEW s \in Seq(Unit), NEW end \in 1..Len(s)
    PROVE  /\ Leftover(s, end) \in Seq(Unit) /\ Len(Leftover(s, end)) = Len(s) - end
           /\ \A j \in 1..(Len(s) - end) : Leftover(s, end)[j] = s[end + j]
<1>1. Len(s) \in Nat /\ end + 1 \in Nat \ {0}
    BY SMTT(30)
<1>2. /\ Leftover(s, end) \in Seq(Unit)
      /\ Len(Leftover(s, end)) = IF end + 1 <= Len(s) THEN Len(s) - (end + 1) + 1 ELSE 0
      /\ \A j \in 1..(Len(s) - (end + 1) + 1) : Leftover(s, end)[j] = s[(end + 1) + j - 1]
    BY <1>1, Slice, SMTT(30) DEF Leftover
<1>3. \A j \in 1..(Len(s) - end) :
         j \in 1..(Len(s) - (end + 1) + 1) /\ (end + 1) + j - 1 = end + j
    BY <1>1, SMTT(30)
<1>4. Len(Leftover(s, end)) = Len(s) - end
    BY <1>1, <1>2, SMTT(30)
<1> QED
    BY <1>2, <1>3, <1>4

\* What a step leaves alone keeps its type; a closed connection has one.
LEMMA Kept ==
    ASSUME ShapeInv
    PROVE  /\ UNCHANGED <<kind, reloads, client>> => ClientOK'
           /\ UNCHANGED <<sent, wire>> => WireOK'
           /\ UNCHANGED <<sent, tasks>> => TasksOK'
           /\ UNCHANGED <<sent, done>> => DoneOK'
           /\ UNCHANGED <<sent, out>> => OutOK'
           /\ UNCHANGED <<sent, conn>> => ConnOK'
           /\ UNCHANGED <<kind, sent, conn>> => PlaceInv'
           /\ (UNCHANGED <<kind, sent>> /\ conn' = Closed) => ConnOK' /\ PlaceInv'
           /\ \A id \in 1..Len(sent) : (UNCHANGED sent /\ done' = done \union {id}) => DoneOK'
<1>1. UNCHANGED <<kind, reloads, client>> => ClientOK'
    BY DEF ShapeInv, ClientOK, client
<1>2. UNCHANGED <<sent, wire>> => WireOK'
    BY DEF ShapeInv, WireOK
<1>3. UNCHANGED <<sent, tasks>> => TasksOK'
    BY DEF ShapeInv, TasksOK
<1>4. UNCHANGED <<sent, done>> => DoneOK'
    BY DEF ShapeInv, DoneOK
<1>5. UNCHANGED <<sent, out>> => OutOK'
    BY DEF ShapeInv, OutOK
<1>6. UNCHANGED <<sent, conn>> => ConnOK'
    BY DEF ShapeInv, ConnOK
<1>7. UNCHANGED <<kind, sent, conn>> => PlaceInv'
    BY DEF ShapeInv, PlaceInv
<1>8. (UNCHANGED <<kind, sent>> /\ conn' = Closed) => ConnOK' /\ PlaceInv'
    <2> SUFFICES ASSUME UNCHANGED <<kind, sent>>, conn' = Closed
                 PROVE  ConnOK' /\ PlaceInv'
        OBVIOUS
    <2>1. /\ conn' \in Connection
          /\ conn'.pc = "closed" /\ conn'.pending = <<>> /\ conn'.body = <<>>
        BY ClosedShape DEF ShapeInv, ConnOK
    <2>2. Len(conn'.pending) = 0
        BY <2>1
    <2> QED
        BY <2>1, <2>2, SMTT(30) DEF ConnOK, PlaceInv
<1>9. \A id \in 1..Len(sent) : (UNCHANGED sent /\ done' = done \union {id}) => DoneOK'
    BY DEF ShapeInv, DoneOK
<1> QED
    BY <1>1, <1>2, <1>3, <1>4, <1>5, <1>6, <1>7, <1>8, <1>9

\* A refusal is a status.
LEMMA RefusalIsStatus == \A r : Refusal(r) \in Nat
BY SMTT(30) DEF Refusal

\* A request, or all of it but the last unit, goes behind what is under way.
Sent(r, n, f, k) ==
    /\ n = Len(sent) + 1 /\ n \in 1..MaxSends /\ whole = Len(sent)
    /\ r.method = "GET" => r.len = 0
    /\ f = Frame(r, n) /\ f \in Seq(Unit) /\ \A j \in 1..Len(f) : f[j][1] = n
    /\ k >= 1 /\ k <= Len(f) /\ k >= Len(f) - 1
    /\ sent' \in Seq(Request) /\ Len(sent') = n /\ sent'[n] = r
    /\ \A i \in 1..Len(sent) : sent'[i] = sent[i]
    /\ whole' = IF k = Len(f) THEN n ELSE Len(sent)
    /\ wire' \in Seq(Unit) /\ Len(wire') = Len(wire) + k
    /\ \A j \in 1..Len(wire) : wire'[j] = wire[j]
    /\ \A j \in (Len(wire) + 1)..(Len(wire) + k) : wire'[j] = f[j - Len(wire)]

\* What Send does: a request is recorded, and its frame, or all but its last unit, is under way.
LEMMA SendFacts ==
    ASSUME ShapeInv, Send
    PROVE  /\ UNCHANGED <<kind, reloads, eof, conn, tasks, permits, done, out>>
           /\ conn.pc \notin {"new", "closed"} /\ ~eof
           /\ \E r \in Request, n \in Nat, f \in Seq(Unit), k \in Nat : Sent(r, n, f, k)
<1>0. /\ UNCHANGED <<kind, reloads, eof, conn, tasks, permits, done, out>>
      /\ conn.pc \notin {"new", "closed"} /\ ~eof
    BY DEF Send, Alive
<1> DEFINE n == Len(sent) + 1
<1>1. PICK r \in Requests(kind, n) :
         \E k \in {Len(Frame(r, n)) - 1, Len(Frame(r, n))} \ {0} :
             /\ sent' = Append(sent, r)
             /\ whole' = IF k = Len(Frame(r, n)) THEN whole + 1 ELSE whole
             /\ wire' = wire \o SubSeq(Frame(r, n), 1, k)
    BY DEF Send
<1> DEFINE f == Frame(r, n)
<1>2. PICK k \in {Len(f) - 1, Len(f)} \ {0} :
         /\ sent' = Append(sent, r)
         /\ whole' = IF k = Len(f) THEN whole + 1 ELSE whole
         /\ wire' = wire \o SubSeq(f, 1, k)
    BY <1>1
<1>3. /\ sent \in Seq(Request) /\ Len(sent) \in Nat /\ Len(sent) < MaxSends
      /\ whole = Len(sent) /\ kind \in Kinds /\ MaxSends \in Nat
    BY ListenerAssumption DEF Send, Alive, ShapeInv, ClientOK
<1>4. n \in 1..MaxSends /\ n \in Nat
    BY <1>3, SMTT(30)
<1>5. r \in Request /\ (r.method = "GET" => r.len = 0)
    BY <1>3, <1>4, ListenerAssumption
<1>6. f \in Seq(Unit) /\ Len(f) >= 1 /\ \A j \in 1..Len(f) : f[j][1] = n
    BY <1>3, <1>4, <1>5, FrameShape
<1>7. f = Frame(r, n) /\ n = Len(sent) + 1
    OBVIOUS
<1> HIDE DEF f
<1>8. k \in Nat /\ k >= 1 /\ k <= Len(f) /\ Len(f) \in Nat /\ k >= Len(f) - 1
    BY <1>2, <1>6, SMTT(30)
<1> DEFINE g == SubSeq(f, 1, k)
<1>9. g \in Seq(Unit) /\ Len(g) = k /\ \A j \in 1..k : g[j] = f[j]
    <2>1. /\ g \in Seq(Unit) /\ Len(g) = IF 1 <= k THEN k - 1 + 1 ELSE 0
          /\ \A j \in 1..(k - 1 + 1) : g[j] = f[1 + j - 1]
        BY <1>6, <1>8, Slice, SMTT(30)
    <2>2. \A j \in 1..k : j \in 1..(k - 1 + 1) /\ 1 + j - 1 = j
        BY <1>8, SMTT(30)
    <2> HIDE DEF g
    <2> QED
        BY <1>8, <2>1, <2>2, SMTT(30)
<1>10. wire \in Seq(Unit) /\ Len(wire) \in Nat /\ wire' = wire \o g
    BY <1>2, SMTT(30) DEF ShapeInv, WireOK
<1> HIDE DEF g
<1>11. /\ sent' \in Seq(Request) /\ Len(sent') = n /\ sent'[n] = r
       /\ \A i \in 1..Len(sent) : sent'[i] = sent[i]
    BY <1>2, <1>3, <1>5, SMTT(30)
<1>12. /\ wire' \in Seq(Unit) /\ Len(wire') = Len(wire) + Len(g)
       /\ \A j \in 1..Len(wire) : wire'[j] = wire[j]
       /\ \A j \in (Len(wire) + 1)..(Len(wire) + Len(g)) : wire'[j] = g[j - Len(wire)]
    BY <1>9, <1>10, Joined
<1>13. ASSUME NEW j \in (Len(wire) + 1)..(Len(wire) + k)
       PROVE  wire'[j] = f[j - Len(wire)]
    <2>1. j - Len(wire) \in 1..k
        BY <1>8, <1>10, SMTT(30)
    <2>2. wire'[j] = g[j - Len(wire)]
        BY <1>9, <1>12
    <2> QED
        BY <1>9, <2>1, <2>2
<1>14. whole' = IF k = Len(f) THEN n ELSE Len(sent)
    BY <1>2, <1>3
<1> HIDE DEF n
<1>15. Len(wire') = Len(wire) + k
    BY <1>9, <1>12
<1>16. Sent(r, n, f, k)
    BY <1>3, <1>4, <1>5, <1>6, <1>7, <1>8, <1>11, <1>12, <1>13, <1>14, <1>15 DEF Sent
<1> QED
    BY <1>0, <1>4, <1>5, <1>6, <1>8, <1>16

\* The client's steps and the operator's.
LEMMA ShapeEnvironment ==
    ASSUME ShapeInv, Send \/ Hangup \/ Reload \/ BecomeReady
    PROVE  ShapeInv'
<1>1. CASE Send
    <2>0. UNCHANGED <<kind, reloads, eof, conn, tasks, done, out>> /\ conn.pc # "new"
        BY <1>1, SendFacts
    <2>1. PICK r \in Request, n \in Nat, f \in Seq(Unit), k \in Nat : Sent(r, n, f, k)
        BY <1>1, SendFacts
    <2>2. /\ Len(sent) \in Nat /\ n = Len(sent) + 1 /\ MaxSends \in Nat
        BY <2>1, ListenerAssumption DEF Sent, ShapeInv, ClientOK
    <2>3. ClientOK'
        <3>1. \A i \in 1..n : sent'[i].method = "GET" => sent'[i].len = 0
            <4> SUFFICES ASSUME NEW i \in 1..n
                         PROVE  sent'[i].method = "GET" => sent'[i].len = 0
                OBVIOUS
            <4>1. i \in 1..Len(sent) \/ i = n
                BY <2>2, SMTT(30)
            <4> QED
                BY <2>1, <4>1 DEF ShapeInv, ClientOK, Sent
        <3>2. whole' \in Nat /\ whole' <= n /\ n <= whole' + 1
            BY <2>1, <2>2, SMTT(30) DEF Sent
        <3> QED
            BY <2>0, <2>1, <3>1, <3>2, SMTT(30) DEF ShapeInv, ClientOK, Sent
    <2>4. WireOK'
        <3>1. Len(wire) \in Nat /\ f \in Seq(Unit) /\ Len(f) \in Nat
            BY <2>1, SMTT(30) DEF ShapeInv, WireOK, Sent
        <3>2. ASSUME NEW j \in 1..Len(wire')
              PROVE  wire'[j][1] \in 1..n
            <4>1. CASE j <= Len(wire)
                <5>1. j \in 1..Len(wire) /\ wire'[j] = wire[j]
                    BY <2>1, <3>1, <4>1, SMTT(30) DEF Sent
                <5>2. wire[j][1] \in 1..Len(sent)
                    BY <5>1 DEF ShapeInv, WireOK
                <5> QED
                    BY <2>2, <5>1, <5>2, SMTT(30)
            <4>2. CASE j > Len(wire)
                <5>1. j - Len(wire) \in 1..Len(f) /\ j \in (Len(wire) + 1)..(Len(wire) + k)
                    BY <2>1, <3>1, <4>2, SMTT(30) DEF Sent
                <5>2. wire'[j] = f[j - Len(wire)]
                    BY <2>1, <5>1 DEF Sent
                <5>3. f[j - Len(wire)][1] = n
                    BY <2>1, <5>1 DEF Sent
                <5> QED
                    BY <2>2, <5>2, <5>3, SMTT(30)
            <4> QED
                BY <3>1, <4>1, <4>2, SMTT(30)
        <3> QED
            BY <2>1, <3>2 DEF WireOK, Sent
    <2>5. ConnOK' /\ TasksOK' /\ DoneOK' /\ OutOK' /\ PlaceInv'
        <3>1. \A i \in 1..Len(sent) : i \in 1..n
            BY <2>2, SMTT(30)
        <3>2. \A i \in 1..MaxSends : i <= Len(sent) => i <= n
            BY <2>2, SMTT(30)
        <3>0. Len(sent') = n
            BY <2>1 DEF Sent
        <3>3. ConnOK'
            BY <2>0, <3>0, <3>1 DEF ShapeInv, ConnOK
        <3>4. TasksOK'
            BY <2>0, <3>0, <3>2 DEF ShapeInv, TasksOK
        <3>5. DoneOK'
            BY <2>0, <3>0, <3>1 DEF ShapeInv, DoneOK
        <3>6. OutOK'
            BY <2>0, <3>0, <3>1 DEF ShapeInv, OutOK
        <3>7. PlaceInv'
            BY <2>0, <3>0, <3>1 DEF ShapeInv, PlaceInv
        <3> QED
            BY <3>3, <3>4, <3>5, <3>6, <3>7
    <2> QED
        BY <2>3, <2>4, <2>5 DEF ShapeInv
<1>2. CASE Hangup
    <2>1. UNCHANGED <<kind, reloads, sent, whole, wire, conn, tasks, done, out>> /\ eof' = TRUE
        BY <1>2 DEF Hangup
    <2>2. ClientOK'
        BY <2>1 DEF ShapeInv, ClientOK
    <2> QED
        BY <2>1, <2>2, Kept DEF ShapeInv
<1>3. CASE Reload
    <2>1. UNCHANGED <<kind, sent, whole, eof, wire, conn, tasks, done, out>>
          /\ reloads' = reloads + 1
        BY <1>3 DEF Reload, client
    <2>2. ClientOK'
        BY <2>1, SMTT(30) DEF ShapeInv, ClientOK
    <2> QED
        BY <2>1, <2>2, Kept DEF ShapeInv
<1>4. CASE BecomeReady
    <2>1. UNCHANGED <<kind, reloads, client, sent, wire, conn, tasks, done, out>>
        BY <1>4 DEF BecomeReady, client
    <2> QED
        BY <2>1, Kept DEF ShapeInv
<1> QED
    BY <1>1, <1>2, <1>3, <1>4

\* The connections of TCP and DoT, and the start and end of the others.
LEMMA ShapeFramed ==
    ASSUME ShapeInv,
           Accept \/ HandshakeEnds \/ HeadTimeout \/ ReadFramed \/ ReadMessage \/ HandledFramed
    PROVE  ShapeInv'
<1>0. /\ conn \in Connection /\ Len(sent) \in Nat /\ sent \in Seq(Request)
      /\ wire \in Seq(Unit) /\ Len(wire) \in Nat
    BY SMTT(30) DEF ShapeInv, ConnOK, ClientOK, WireOK
<1>1. CASE Accept
    <2>1. UNCHANGED <<kind, reloads, client, sent, wire, tasks, done, out>> /\ conn.pc = "new"
        BY <1>1 DEF Accept, Server, client
    <2>2. CASE conn' = Closed
        BY <2>1, <2>2, Kept DEF ShapeInv
    <2>3. CASE conn' = [conn EXCEPT !.pc = IF kind = "h2" THEN "streams" ELSE "head", !.count = 1]
        <3>1. /\ conn' \in Connection /\ conn'.pending = conn.pending /\ conn'.body = conn.body
              /\ conn'.pc = IF kind = "h2" THEN "streams" ELSE "head"
            BY <1>0, <2>3 DEF Connection
        <3>2. ConnOK'
            BY <2>1, <3>1 DEF ShapeInv, ConnOK
        <3>3. PlaceInv'
            BY <2>1, <3>1 DEF ShapeInv, PlaceInv, Serial
        <3> QED
            BY <2>1, <3>2, <3>3, Kept DEF ShapeInv
    <2> QED
        BY <1>1, <2>2, <2>3 DEF Accept
<1>2. CASE HandshakeEnds \/ HeadTimeout
    <2>1. UNCHANGED <<kind, reloads, client, sent, wire, tasks, done, out>> /\ conn' = Closed
        BY <1>2 DEF HandshakeEnds, HeadTimeout, Server, Close, client
    <2> QED
        BY <2>1, Kept DEF ShapeInv
<1>3. CASE ReadFramed
    <2> DEFINE id == wire[1][1]
    <2>1. UNCHANGED <<kind, reloads, client, sent, tasks, out>> /\ conn.pc = "head"
          /\ kind \in {"tcp", "dot"}
        BY <1>3 DEF ReadFramed, Server, client
    <2>2. CASE conn' = Closed /\ UNCHANGED <<wire, done>>
        BY <2>1, <2>2, Kept DEF ShapeInv
    <2>3. CASE /\ Len(wire) >= 2 /\ wire' = SubSeq(wire, 3, Len(wire))
               /\ \/ conn' = Closed /\ done' = done \union {id}
                  \/ conn' = [conn EXCEPT !.pc = "body", !.id = id] /\ UNCHANGED done
        <3>1. WireOK'
            <4>1. 2 \in Nat /\ 2 <= Len(wire) /\ wire' = SubSeq(wire, 2 + 1, Len(wire))
                BY <1>0, <2>3, SMTT(30)
            <4> QED
                BY <2>1, <4>1, WireRest DEF ShapeInv
        <3>2. id \in 1..Len(sent) /\ id \in Nat
            BY <1>0, <2>3, SMTT(30) DEF ShapeInv, WireOK
        <3> HIDE DEF id
        <3>3. CASE conn' = Closed /\ done' = done \union {id}
            BY <2>1, <3>1, <3>2, <3>3, Kept DEF ShapeInv
        <3>4. CASE conn' = [conn EXCEPT !.pc = "body", !.id = id] /\ UNCHANGED done
            <4>1. /\ conn' \in Connection /\ conn'.pending = conn.pending /\ conn'.body = conn.body
                  /\ conn'.pc = "body" /\ conn'.id = id
                BY <1>0, <3>2, <3>4 DEF Connection
            <4>2. ConnOK'
                BY <2>1, <4>1 DEF ShapeInv, ConnOK
            <4>3. PlaceInv'
                BY <2>1, <3>2, <4>1 DEF ShapeInv, PlaceInv, Serial
            <4> QED
                BY <2>1, <3>1, <3>4, <4>2, <4>3, Kept DEF ShapeInv
        <3> QED
            BY <2>3, <3>3, <3>4
    <2> QED
        BY <1>3, <2>2, <2>3 DEF ReadFramed, Close
<1>4. CASE ReadMessage
    <2> DEFINE id == conn.id
               len == sent[id].len
    <2>1. UNCHANGED <<kind, reloads, client, sent, tasks, out>> /\ conn.pc = "body"
          /\ kind \in {"tcp", "dot"}
        BY <1>4 DEF ReadMessage, Server, client
    <2>2. id \in 1..Len(sent)
        BY <2>1 DEF ShapeInv, PlaceInv
    <2>3. len \in Nat
        <3>1. sent[id] \in Request
            BY <1>0, <2>2, SMTT(30)
        <3> QED
            BY <3>1 DEF Request
    <2>4. CASE conn' = Closed /\ UNCHANGED <<wire, done>>
        BY <2>1, <2>4, Kept DEF ShapeInv
    <2>5. CASE /\ Len(wire) >= len /\ wire' = SubSeq(wire, len + 1, Len(wire))
               /\ \/ /\ conn' = [conn EXCEPT !.pc = "handle", !.body = SubSeq(wire, 1, len)]
                     /\ UNCHANGED done
                  \/ conn' = Closed /\ done' = done \union {id}
        <3> HIDE DEF len
        <3>1. WireOK'
            BY <1>0, <2>1, <2>3, <2>5, WireRest DEF ShapeInv
        <3>2. SubSeq(wire, 1, len) \in Seq(Unit)
            BY <1>0, <2>3, <2>5, WireFirst DEF ShapeInv
        <3>3. CASE conn' = Closed /\ done' = done \union {id}
            BY <2>1, <2>2, <3>1, <3>3, Kept DEF ShapeInv
        <3>4. CASE conn' = [conn EXCEPT !.pc = "handle", !.body = SubSeq(wire, 1, len)]
                   /\ UNCHANGED done
            <4>1. /\ conn' \in Connection /\ conn'.pending = conn.pending
                  /\ conn'.pc = "handle" /\ conn'.id = conn.id
                BY <1>0, <3>2, <3>4 DEF Connection
            <4>2. ConnOK'
                BY <2>1, <4>1 DEF ShapeInv, ConnOK
            <4>3. PlaceInv'
                BY <2>1, <2>2, <4>1 DEF ShapeInv, PlaceInv, Serial
            <4> QED
                BY <2>1, <3>1, <3>4, <4>2, <4>3, Kept DEF ShapeInv
        <3> QED
            BY <2>5, <3>3, <3>4
    <2> QED
        BY <1>4, <2>4, <2>5 DEF ReadMessage, Close, Consume
<1>5. CASE HandledFramed
    <2>1. /\ UNCHANGED <<kind, reloads, client, sent, wire, tasks>> /\ conn.pc = "handle"
          /\ kind \in {"tcp", "dot"} /\ done' = done \union {conn.id}
        BY <1>5 DEF HandledFramed, Server, client
    <2>2. conn.id \in 1..Len(sent) /\ conn.body \in Seq(Unit)
        BY <1>0, <2>1 DEF ShapeInv, PlaceInv, Connection
    <2>3. OutOK'
        <3>1. CASE UNCHANGED out
            BY <2>1, <3>1, Kept
        <3>2. CASE Reply(conn.id, 0, conn.body, FALSE)
            BY <1>0, <2>1, <2>2, <3>2, ReplyShape DEF ShapeInv
        <3> QED
            BY <1>5, <3>1, <3>2 DEF HandledFramed
    <2>4. ConnOK' /\ PlaceInv'
        <3>1. CASE conn' = Closed
            BY <2>1, <3>1, Kept
        <3>2. CASE conn' = [conn EXCEPT !.pc = "head", !.body = <<>>]
            <4>0. <<>> \in Seq(Unit)
                BY SMTT(30)
            <4>1. /\ conn' \in Connection /\ conn'.pending = conn.pending
                  /\ conn'.pc = "head" /\ conn'.body = <<>>
                BY <1>0, <3>2, <4>0 DEF Connection
            <4>2. ConnOK'
                BY <2>1, <4>1 DEF ShapeInv, ConnOK
            <4>3. PlaceInv'
                BY <2>1, <2>2, <4>1 DEF ShapeInv, PlaceInv, Serial
            <4> QED
                BY <4>2, <4>3
        <3> QED
            BY <1>5, <3>1, <3>2 DEF HandledFramed, Close
    <2> QED
        BY <2>1, <2>2, <2>3, <2>4, Kept DEF ShapeInv
<1> QED
    BY <1>1, <1>2, <1>3, <1>4, <1>5

\* HTTP/1.1.
LEMMA ShapeHttp ==
    ASSUME ShapeInv, ReadHead \/ StartRequest \/ ReadBody \/ HandledHttp
    PROVE  ShapeInv'
<1>0. /\ conn \in Connection /\ Len(sent) \in Nat /\ sent \in Seq(Request)
      /\ wire \in Seq(Unit) /\ Len(wire) \in Nat
      /\ conn.pending \in Seq(Unit) /\ conn.body \in Seq(Unit)
    BY SMTT(30) DEF ShapeInv, ConnOK, ClientOK, WireOK, Connection
<1>1. CASE ReadHead
    <2>1. UNCHANGED <<kind, reloads, client, sent, tasks, done, out>> /\ conn.pc = "head"
          /\ kind = "doh"
        BY <1>1 DEF ReadHead, Server, client
    <2>2. CASE conn' = Closed /\ UNCHANGED wire
        BY <2>1, <2>2, Kept DEF ShapeInv
    <2>3. ASSUME NEW n \in 1..CHUNK, n <= Len(wire),
                 conn' = [conn EXCEPT !.pending = @ \o SubSeq(wire, 1, n)],
                 wire' = SubSeq(wire, n + 1, Len(wire))
          PROVE  ShapeInv'
        <3>0. n \in Nat
            BY <2>3, ListenerAssumption, SMTT(30)
        <3>1. WireOK'
            BY <2>1, <2>3, <3>0, WireRest DEF ShapeInv
        <3> DEFINE read == SubSeq(wire, 1, n)
                   p == conn.pending \o read
        <3>2. read \in Seq(Unit) /\ Len(read) = n /\ \A j \in 1..n : read[j] = wire[j]
            BY <2>3, <3>0, WireFirst DEF ShapeInv
        <3> HIDE DEF read
        <3>3. /\ p \in Seq(Unit) /\ Len(p) = Len(conn.pending) + Len(read)
              /\ \A j \in 1..Len(conn.pending) : p[j] = conn.pending[j]
              /\ \A j \in (Len(conn.pending) + 1)..(Len(conn.pending) + Len(read)) :
                    p[j] = read[j - Len(conn.pending)]
            BY <1>0, <3>2, Joined
        <3>4. conn' = [conn EXCEPT !.pending = p]
            BY <2>3 DEF read
        <3> HIDE DEF p
        <3>5. ASSUME NEW j \in 1..Len(p)
              PROVE  p[j][1] \in 1..Len(sent)
            <4>0. Len(conn.pending) \in Nat
                BY <1>0, SMTT(30)
            <4>1. CASE j <= Len(conn.pending)
                BY <3>3, <4>0, <4>1, SMTT(30) DEF ShapeInv, ConnOK
            <4>2. CASE j > Len(conn.pending)
                <5>0. Len(p) = Len(conn.pending) + n /\ j \in Nat /\ j <= Len(p)
                    BY <3>0, <3>2, <3>3, <4>0, SMTT(30)
                <5>1. /\ j - Len(conn.pending) \in 1..n /\ j - Len(conn.pending) \in 1..Len(wire)
                      /\ j \in (Len(conn.pending) + 1)..(Len(conn.pending) + Len(read))
                    <6> DEFINE m == Len(conn.pending)
                    <6>1. /\ m \in Nat /\ j > m /\ j <= m + n /\ Len(read) = n
                          /\ j \in Nat /\ n \in Nat /\ n <= Len(wire) /\ Len(wire) \in Nat
                        BY <1>0, <2>3, <3>0, <3>2, <4>0, <4>2, <5>0
                    <6> HIDE DEF m
                    <6>2. j - m \in 1..n /\ j - m \in 1..Len(wire) /\ j \in (m + 1)..(m + n)
                        BY <6>1, SMTT(30)
                    <6> QED
                        BY <6>1, <6>2 DEF m
                <5>2. p[j] = wire[j - Len(conn.pending)]
                    BY <3>2, <3>3, <5>1
                <5> QED
                    BY <5>1, <5>2 DEF ShapeInv, WireOK
            <4> QED
                BY <3>3, <4>0, <4>1, <4>2, SMTT(30)
        <3>6. /\ conn' \in Connection /\ conn'.pending = p
              /\ conn'.pc = "head" /\ conn'.body = conn.body
            BY <1>0, <2>1, <3>3, <3>4 DEF Connection
        <3>7. ConnOK'
            BY <2>1, <3>5, <3>6 DEF ConnOK
        <3>8. PlaceInv'
            BY <2>1, <3>6 DEF ShapeInv, PlaceInv, Serial
        <3> QED
            BY <2>1, <3>1, <3>7, <3>8, Kept DEF ShapeInv
    <2> QED
        BY <1>1, <2>2, <2>3 DEF ReadHead, Close
<1>2. CASE StartRequest
    <2> DEFINE end == HeadEnd
               id == conn.pending[end][1]
               r == sent[id]
               seed == Leftover(conn.pending, end)
               refusal == IF SubSeq(conn.pending, 1, end) = HttpHead(r, id) THEN Refusal(r) ELSE 1
               len == IF r.method = "POST" THEN r.len ELSE 0
               s == Split(seed, len)
               next_ == [conn EXCEPT !.id = id, !.close = LastRequest(r),
                                     !.pending = s.pending, !.body = s.body]
    <2>1. UNCHANGED <<kind, reloads, client, sent, wire, tasks>> /\ conn.pc = "head"
          /\ kind = "doh" /\ HeadEnds # {}
        BY <1>2 DEF StartRequest, Server, client
    <2>2. end \in 1..Len(conn.pending)
        BY <1>0, <2>1, HeadEndIsFirst
    <2>3. id \in 1..Len(sent) /\ id \in Nat
        BY <1>0, <2>2, SMTT(30) DEF ShapeInv, ConnOK
    <2>4. r \in Request /\ r.len \in Nat /\ r.close \in BOOLEAN
        <3>1. r \in Request
            BY <1>0, <2>3, SMTT(30)
        <3> QED
            BY <3>1 DEF Request
    <2>5. len \in Nat
        BY <2>4
    <2>6. /\ seed \in Seq(Unit) /\ Len(seed) = Len(conn.pending) - end
          /\ \A j \in 1..(Len(conn.pending) - end) : seed[j] = conn.pending[end + j]
        BY <1>0, <2>2, LeftoverShape
    <2>7. LastRequest(r) \in BOOLEAN /\ refusal \in Nat
        BY <2>4, RefusalIsStatus DEF LastRequest
    <2>8. \/ /\ conn' = [next_ EXCEPT !.pc = IF Len(seed) >= len THEN "handle" ELSE "body"]
             /\ UNCHANGED <<done, out>>
          \/ /\ conn' = Closed
             /\ done' = done \union {id}
             /\ Reply(id, refusal, <<>>, TRUE) \/ UNCHANGED out
        BY <1>2 DEF StartRequest, Close, HeadEnd
    <2> HIDE DEF end, id, r, seed, refusal, len
    <2>9. /\ s.body \in Seq(Unit) /\ s.pending \in Seq(Unit)
          /\ Len(seed) >= len => /\ Len(s.pending) = Len(seed) - len
                                 /\ \A j \in 1..(Len(seed) - len) : s.pending[j] = seed[len + j]
          /\ Len(seed) < len => s.pending = <<>>
        BY <2>5, <2>6, SplitShape
    <2> HIDE DEF s
    <2>10. CASE /\ conn' = [next_ EXCEPT !.pc = IF Len(seed) >= len THEN "handle" ELSE "body"]
                /\ UNCHANGED <<done, out>>
        <3>1. /\ conn' \in Connection /\ conn'.id = id /\ conn'.pending = s.pending
              /\ conn'.pc = IF Len(seed) >= len THEN "handle" ELSE "body"
            BY <1>0, <2>3, <2>7, <2>9, <2>10 DEF Connection
        <3>2. ASSUME NEW j \in 1..Len(s.pending)
              PROVE  s.pending[j][1] \in 1..Len(sent)
            <4>0. Len(seed) \in Nat /\ Len(conn.pending) \in Nat /\ end \in Nat
                BY <1>0, <2>2, <2>6, SMTT(30)
            <4>1. Len(seed) >= len
                <5>1. Len(seed) < len => Len(s.pending) = 0
                    BY <2>9, SMTT(30)
                <5> QED
                    BY <2>5, <4>0, <5>1, SMTT(30)
            <4>2. /\ j \in 1..(Len(seed) - len) /\ len + j \in 1..(Len(conn.pending) - end)
                  /\ end + (len + j) \in 1..Len(conn.pending)
                BY <2>5, <2>6, <2>9, <4>0, <4>1, SMTT(30)
            <4>3. s.pending[j] = conn.pending[end + (len + j)]
                BY <2>6, <2>9, <4>1, <4>2
            <4> QED
                BY <4>2, <4>3 DEF ShapeInv, ConnOK
        <3>3. ConnOK'
            BY <2>1, <3>1, <3>2 DEF ConnOK
        <3>4. PlaceInv'
            <4>1. Len(seed) \in Nat
                BY <2>6, SMTT(30)
            <4> QED
                BY <2>1, <2>3, <2>5, <2>9, <3>1, <4>1, SMTT(30) DEF ShapeInv, PlaceInv, Serial
        <3> QED
            BY <2>1, <2>10, <3>3, <3>4, Kept DEF ShapeInv
    <2>11. CASE /\ conn' = Closed
                /\ done' = done \union {id}
                /\ Reply(id, refusal, <<>>, TRUE) \/ UNCHANGED out
        <3>1. <<>> \in Seq(Unit)
            BY SMTT(30)
        <3>2. OutOK'
            BY <1>0, <2>1, <2>3, <2>7, <2>11, <3>1, ReplyShape, Kept DEF ShapeInv
        <3> QED
            BY <2>1, <2>3, <2>11, <3>2, Kept DEF ShapeInv
    <2> QED
        BY <2>8, <2>10, <2>11
<1>3. CASE ReadBody
    <2> DEFINE missing == sent[conn.id].len - Len(conn.body)
    <2>1. UNCHANGED <<kind, reloads, client, sent, tasks, done, out>> /\ conn.pc = "body"
          /\ kind = "doh"
        BY <1>3 DEF ReadBody, Server, client
    <2>2. conn.id \in 1..Len(sent)
        BY <2>1 DEF ShapeInv, PlaceInv
    <2>3. sent[conn.id].len \in Nat
        <3>1. sent[conn.id] \in Request
            BY <1>0, <2>2, SMTT(30)
        <3> QED
            BY <3>1 DEF Request
    <2>4. CASE conn' = Closed /\ UNCHANGED wire
        BY <2>1, <2>4, Kept DEF ShapeInv
    <2>5. ASSUME NEW n \in 1..missing, n <= Len(wire),
                 conn' = [conn EXCEPT !.body = @ \o SubSeq(wire, 1, n),
                                      !.pc = IF n = missing THEN "handle" ELSE "body"],
                 wire' = SubSeq(wire, n + 1, Len(wire))
          PROVE  ShapeInv'
        <3>0. n \in Nat
            BY <1>0, <2>3, SMTT(30)
        <3>1. WireOK'
            BY <2>1, <2>5, <3>0, WireRest DEF ShapeInv
        <3>2. SubSeq(wire, 1, n) \in Seq(Unit)
            BY <2>5, <3>0, WireFirst DEF ShapeInv
        <3>3. conn.body \o SubSeq(wire, 1, n) \in Seq(Unit)
            BY <1>0, <3>2, SMTT(30)
        <3>4. /\ conn' \in Connection /\ conn'.id = conn.id /\ conn'.pending = conn.pending
              /\ conn'.pc \in {"body", "handle"}
            BY <1>0, <2>5, <3>3 DEF Connection
        <3>5. ConnOK'
            BY <2>1, <3>4 DEF ShapeInv, ConnOK
        <3>6. PlaceInv'
            BY <2>1, <2>2, <3>4 DEF ShapeInv, PlaceInv, Serial
        <3> QED
            BY <2>1, <3>1, <3>5, <3>6, Kept DEF ShapeInv
    <2> QED
        BY <1>3, <2>4, <2>5 DEF ReadBody, Close
<1>4. CASE HandledHttp
    <2>1. /\ UNCHANGED <<kind, reloads, client, sent, wire, tasks>> /\ conn.pc = "handle"
          /\ kind = "doh" /\ done' = done \union {conn.id}
        BY <1>4 DEF HandledHttp, Server, client
    <2>2. conn.id \in 1..Len(sent) /\ conn.close \in BOOLEAN /\ conn.count \in Nat
        BY <1>0, <2>1 DEF ShapeInv, PlaceInv, Connection
    <2>3. <<>> \in Seq(Unit)
        BY SMTT(30)
    <2>4. OutOK'
        <3>1. CASE UNCHANGED out
            BY <2>1, <3>1, Kept
        <3>2. CASE Reply(conn.id, 200, conn.body, conn.close)
            BY <1>0, <2>1, <2>2, <3>2, ReplyShape DEF ShapeInv
        <3>3. CASE Reply(conn.id, 400, <<>>, TRUE)
            <4>1. 400 \in Nat /\ TRUE \in BOOLEAN
                BY SMTT(30)
            <4> QED
                BY <1>0, <2>1, <2>2, <2>3, <3>3, <4>1, ReplyShape DEF ShapeInv
        <3> QED
            BY <1>4, <3>1, <3>2, <3>3 DEF HandledHttp
    <2>5. ConnOK' /\ PlaceInv'
        <3>1. CASE conn' = Closed
            BY <2>1, <3>1, Kept
        <3>2. CASE conn' = [conn EXCEPT !.pc = "head", !.count = @ + 1, !.body = <<>>]
            <4>0. conn.count + 1 \in Nat
                BY <2>2, SMTT(30)
            <4>a. conn' \in Connection
                BY <1>0, <2>3, <3>2, <4>0 DEF Connection
            <4>b. conn'.pending = conn.pending /\ conn'.pc = "head" /\ conn'.body = <<>>
                BY <1>0, <3>2 DEF Connection
            <4>1. /\ conn' \in Connection /\ conn'.pending = conn.pending
                  /\ conn'.pc = "head" /\ conn'.body = <<>>
                BY <4>a, <4>b
            <4>2. ConnOK'
                BY <2>1, <4>1 DEF ShapeInv, ConnOK
            <4>3. PlaceInv'
                BY <2>1, <4>1 DEF ShapeInv, PlaceInv, Serial
            <4> QED
                BY <4>2, <4>3
        <3> QED
            BY <1>4, <3>1, <3>2 DEF HandledHttp, Close
    <2> QED
        BY <2>1, <2>2, <2>4, <2>5, Kept DEF ShapeInv
<1> QED
    BY <1>1, <1>2, <1>3, <1>4

\* A frame is taken out of the wire.
LEMMA WireWithout ==
    ASSUME WireOK, UNCHANGED sent, NEW k \in 1..Len(wire), wire' = Without(k)
    PROVE  /\ WireOK' /\ Len(wire) \in Nat /\ Len(wire') = Len(wire) - 1
           /\ \A j \in 1..(k - 1) : wire'[j] = wire[j]
           /\ \A j \in k..(Len(wire) - 1) : wire'[j] = wire[j + 1]
<1> DEFINE a == SubSeq(wire, 1, k - 1)
           b == SubSeq(wire, k + 1, Len(wire))
           n == Len(wire)
<1>1. wire \in Seq(Unit) /\ n \in Nat /\ k \in Nat /\ k >= 1 /\ k <= n
    BY SMTT(30) DEF WireOK
<1>2. a \in Seq(Unit) /\ Len(a) = k - 1 /\ \A j \in 1..(k - 1) : a[j] = wire[j]
    <2>1. k - 1 \in Nat /\ k - 1 <= Len(wire)
        BY <1>1, SMTT(30)
    <2> QED
        BY <2>1, WireFirst
<1>3. b \in Seq(Unit) /\ Len(b) = n - k /\ \A j \in 1..(n - k) : b[j] = wire[k + j]
    <2>1. k + 1 \in Nat \ {0} /\ Len(wire) \in Nat /\ Len(wire) <= Len(wire)
        BY <1>1, SMTT(30)
    <2>2. /\ b \in Seq(Unit)
          /\ Len(b) = IF k + 1 <= Len(wire) THEN Len(wire) - (k + 1) + 1 ELSE 0
          /\ \A j \in 1..(Len(wire) - (k + 1) + 1) : b[j] = wire[(k + 1) + j - 1]
        BY <1>1, <2>1, Slice, SMTT(30)
    <2> HIDE DEF b
    <2>3. \A j \in 1..(n - k) : j \in 1..(Len(wire) - (k + 1) + 1) /\ (k + 1) + j - 1 = k + j
        BY <1>1, SMTT(30)
    <2>4. Len(b) = n - k
        BY <1>1, <2>2, SMTT(30)
    <2> QED
        BY <2>2, <2>3, <2>4
<1>4. wire' = a \o b
    BY DEF Without
<1> HIDE DEF a, b
<1>5. /\ wire' \in Seq(Unit) /\ Len(wire') = Len(a) + Len(b)
      /\ \A j \in 1..Len(a) : wire'[j] = a[j]
      /\ \A j \in (Len(a) + 1)..(Len(a) + Len(b)) : wire'[j] = b[j - Len(a)]
    <2>1. a \in Seq(Unit) /\ b \in Seq(Unit)
        BY <1>2, <1>3
    <2>2. /\ a \o b \in Seq(Unit) /\ Len(a \o b) = Len(a) + Len(b)
          /\ \A j \in 1..Len(a) : (a \o b)[j] = a[j]
          /\ \A j \in (Len(a) + 1)..(Len(a) + Len(b)) : (a \o b)[j] = b[j - Len(a)]
        BY <2>1, Joined
    <2> QED
        BY <1>4, <2>2
<1> HIDE DEF n
<1>6. Len(wire') = n - 1
    BY <1>1, <1>2, <1>3, <1>5, SMTT(30)
<1>7. \A j \in 1..(k - 1) : wire'[j] = wire[j]
    BY <1>2, <1>5
<1>8. ASSUME NEW j \in k..(n - 1)
      PROVE  wire'[j] = wire[j + 1]
    <2>1. /\ j \in ((k - 1) + 1)..((k - 1) + (n - k))
          /\ j - (k - 1) \in 1..(n - k) /\ k + (j - (k - 1)) = j + 1
        BY <1>1, SMTT(30)
    <2>2. wire'[j] = b[j - (k - 1)]
        BY <1>2, <1>3, <1>5, <2>1
    <2> QED
        BY <1>3, <2>1, <2>2
<1>9. ASSUME NEW j \in 1..Len(wire')
      PROVE  wire'[j][1] \in 1..Len(sent)
    <2>1. j \in 1..(k - 1) \/ j \in k..(n - 1)
        BY <1>1, <1>6, SMTT(30)
    <2>2. wire'[j] = wire[j] \/ wire'[j] = wire[j + 1]
        BY <1>7, <1>8, <2>1
    <2>3. j \in 1..n /\ j + 1 \in 1..n
        BY <1>1, <1>6, SMTT(30)
    <2> QED
        BY <2>2, <2>3 DEF WireOK, n
<1>10. WireOK'
    BY <1>5, <1>9 DEF WireOK
<1> QED
    BY <1>1, <1>6, <1>7, <1>8, <1>10 DEF n

\* One task changes.
LEMMA TaskSet ==
    ASSUME ShapeInv, UNCHANGED sent, NEW i \in 1..Len(sent), NEW t \in Task,
           tasks' = [tasks EXCEPT ![i] = t]
    PROVE  /\ TasksOK' /\ i \in 1..MaxSends /\ tasks'[i] = t
           /\ \A j \in 1..MaxSends : j # i => tasks'[j] = tasks[j]
<1>1. tasks \in [1..MaxSends -> Task] /\ Len(sent) \in Nat /\ Len(sent) <= MaxSends
      /\ MaxSends \in Nat
    BY ListenerAssumption, SMTT(30) DEF ShapeInv, TasksOK, ClientOK
<1>2. i \in 1..MaxSends
    BY <1>1, SMTT(30)
<1>3. tasks' \in [1..MaxSends -> Task] /\ tasks'[i] = t
    BY <1>1, <1>2
<1>4. \A j \in 1..MaxSends : j # i => tasks'[j] = tasks[j]
    BY <1>1, <1>2
<1>5. \A j \in 1..MaxSends : tasks'[j].pc # "none" => j <= Len(sent)
    BY <1>1, <1>2, <1>3, <1>4, SMTT(30) DEF ShapeInv, TasksOK
<1> QED
    BY <1>2, <1>3, <1>4, <1>5 DEF TasksOK

\* The tasks that run.
LEMMA RunningShape ==
    ASSUME ShapeInv
    PROVE  /\ Running \subseteq 1..Len(sent) /\ DOMAIN tasks = 1..MaxSends
           /\ \A i \in 1..Len(sent) : i \in 1..MaxSends /\ tasks[i] \in Task
           /\ NoTask \in Task
<1>1. tasks \in [1..MaxSends -> Task] /\ Len(sent) \in Nat /\ Len(sent) <= MaxSends
      /\ MaxSends \in Nat
    BY ListenerAssumption, SMTT(30) DEF ShapeInv, TasksOK, ClientOK
<1>2. ASSUME NEW i \in Running
      PROVE  i \in 1..Len(sent)
    <2>1. i \in 1..MaxSends /\ tasks[i].pc # "none"
        BY <1>1 DEF Running
    <2>2. i <= Len(sent)
        BY <2>1 DEF ShapeInv, TasksOK
    <2> QED
        BY <1>1, <2>1, <2>2, SMTT(30)
<1>3. NoTask \in Task
    <2>1. <<>> \in Seq(Unit)
        BY SMTT(30)
    <2> QED
        BY <2>1 DEF NoTask, Task
<1> QED
    BY <1>1, <1>2, <1>3, SMTT(30)

\* The runtime goes away with its tasks.
LEMMA ShapeHostGone ==
    ASSUME ShapeInv, HostGone
    PROVE  ShapeInv'
<1>1. UNCHANGED <<kind, reloads, client, sent, wire, done, out>> /\ conn' = Closed
    BY DEF HostGone, client
<1>2. tasks' = [t \in 1..MaxSends |-> NoTask] /\ NoTask \in Task
    BY RunningShape DEF HostGone
<1>3. NoTask.pc = "none"
    BY DEF NoTask
<1>4. TasksOK'
    BY <1>1, <1>2, <1>3 DEF TasksOK
<1> QED
    BY <1>1, <1>4, Kept DEF ShapeInv

\* HTTP/2.
LEMMA ShapeStreams ==
    ASSUME ShapeInv, AcceptStream \/ ReadStream \/ HandledStream \/ EndStreams
    PROVE  ShapeInv'
<1>0. /\ Len(sent) \in Nat /\ sent \in Seq(Request) /\ wire \in Seq(Unit) /\ Len(wire) \in Nat
      /\ <<>> \in Seq(Unit)
    BY SMTT(30) DEF ShapeInv, ClientOK, WireOK
<1>1. CASE AcceptStream
    <2>1. UNCHANGED <<kind, reloads, client, sent, conn>>
        BY <1>1 DEF AcceptStream, Server, client
    <2> DEFINE status(i) == Refusal([sent[i] EXCEPT !.sized = TRUE, !.len = 0])
    <2>2. PICK i \in 1..Len(sent) :
             /\ \E k \in Frames(i) : wire[k][2] = "e" /\ wire' = Without(k)
             /\ \/ /\ tasks' = [tasks EXCEPT ![i].pc = IF sent[i].method = "GET" THEN "handle"
                                                       ELSE "body"]
                   /\ UNCHANGED <<done, out>>
                \/ /\ tasks' = [tasks EXCEPT ![i].pc = "ended"]
                   /\ done' = done \union {i}
                   /\ Reply(i, status(i), <<>>, FALSE)
        BY <1>1 DEF AcceptStream
    <2>3. PICK k \in 1..Len(wire) : wire' = Without(k)
        BY <2>2 DEF Frames
    <2>4. WireOK'
        BY <2>1, <2>3, WireWithout DEF ShapeInv
    <2>5. status(i) \in Nat /\ FALSE \in BOOLEAN
        BY RefusalIsStatus
    <2>6. tasks[i] \in Task /\ tasks \in [1..MaxSends -> Task]
        BY RunningShape DEF ShapeInv, TasksOK
    <2> HIDE DEF status
    <2>7. TasksOK'
        <3>1. PICK p \in {"handle", "body", "ended"} : tasks' = [tasks EXCEPT ![i].pc = p]
            BY <2>2
        <3>2. [tasks[i] EXCEPT !.pc = p] \in Task
            BY <2>6 DEF Task
        <3>3. tasks' = [tasks EXCEPT ![i] = [tasks[i] EXCEPT !.pc = p]]
            BY <2>6, <3>1
        <3> QED
            BY <2>1, <3>2, <3>3, TaskSet
    <2>8. DoneOK' /\ OutOK'
        <3>1. CASE UNCHANGED <<done, out>>
            BY <2>1, <3>1, Kept
        <3>2. CASE done' = done \union {i} /\ Reply(i, status(i), <<>>, FALSE)
            BY <1>0, <2>1, <2>5, <3>2, Kept, ReplyShape DEF ShapeInv
        <3> QED
            BY <2>2, <3>1, <3>2
    <2> QED
        BY <2>1, <2>4, <2>7, <2>8, Kept DEF ShapeInv
<1>2. CASE ReadStream
    <2>1. UNCHANGED <<kind, reloads, client, sent, conn, out>>
        BY <1>2 DEF ReadStream, Server, client
    <2>2. PICK i \in Running : \E k \in Frames(i) :
             /\ wire' = Without(k)
             /\ \/ tasks' = [tasks EXCEPT ![i].pc = "handle"] /\ UNCHANGED done
                \/ tasks' = [tasks EXCEPT ![i].body = Append(@, wire[k])] /\ UNCHANGED done
                \/ /\ tasks' = [tasks EXCEPT ![i] = [NoTask EXCEPT !.pc = "ended"]]
                   /\ done' = done \union {i}
        BY <1>2 DEF ReadStream
    <2>3. PICK k \in 1..Len(wire) :
             /\ wire' = Without(k)
             /\ \/ tasks' = [tasks EXCEPT ![i].pc = "handle"] /\ UNCHANGED done
                \/ tasks' = [tasks EXCEPT ![i].body = Append(@, wire[k])] /\ UNCHANGED done
                \/ /\ tasks' = [tasks EXCEPT ![i] = [NoTask EXCEPT !.pc = "ended"]]
                   /\ done' = done \union {i}
        BY <2>2 DEF Frames
    <2>4. WireOK'
        BY <2>1, <2>3, WireWithout DEF ShapeInv
    <2>5. i \in 1..Len(sent) /\ tasks[i] \in Task /\ NoTask \in Task
          /\ tasks \in [1..MaxSends -> Task]
        BY RunningShape DEF ShapeInv, TasksOK
    <2>6. TasksOK'
        <3>1. CASE tasks' = [tasks EXCEPT ![i].pc = "handle"]
            <4>1. [tasks[i] EXCEPT !.pc = "handle"] \in Task
                BY <2>5 DEF Task
            <4>2. tasks' = [tasks EXCEPT ![i] = [tasks[i] EXCEPT !.pc = "handle"]]
                BY <2>5, <3>1
            <4> QED
                BY <2>1, <2>5, <4>1, <4>2, TaskSet
        <3>2. CASE tasks' = [tasks EXCEPT ![i].body = Append(@, wire[k])]
            <4>0. tasks[i].body \in Seq(Unit) /\ wire[k] \in Unit
                BY <1>0, <2>5, SMTT(30) DEF Task
            <4>1. Append(tasks[i].body, wire[k]) \in Seq(Unit)
                BY <4>0, SMTT(30)
            <4>2. [tasks[i] EXCEPT !.body = Append(tasks[i].body, wire[k])] \in Task
                BY <2>5, <4>1 DEF Task
            <4>3. tasks' = [tasks EXCEPT ![i] =
                               [tasks[i] EXCEPT !.body = Append(tasks[i].body, wire[k])]]
                BY <2>5, <3>2
            <4> QED
                BY <2>1, <2>5, <4>2, <4>3, TaskSet
        <3>3. CASE tasks' = [tasks EXCEPT ![i] = [NoTask EXCEPT !.pc = "ended"]]
            <4>1. [NoTask EXCEPT !.pc = "ended"] \in Task
                BY <2>5 DEF Task
            <4> QED
                BY <2>1, <2>5, <3>3, <4>1, TaskSet
        <3> QED
            BY <2>3, <3>1, <3>2, <3>3
    <2>7. DoneOK'
        BY <2>1, <2>3, <2>5, Kept
    <2> QED
        BY <2>1, <2>4, <2>6, <2>7, Kept DEF ShapeInv
<1>3. CASE HandledStream
    <2>1. UNCHANGED <<kind, reloads, client, sent, conn, wire>>
        BY <1>3 DEF HandledStream, Server, client
    <2>2. PICK i \in Running :
             /\ tasks' = [tasks EXCEPT ![i] = [NoTask EXCEPT !.pc = "ended"]]
             /\ done' = done \union {i}
             /\ UNCHANGED out \/ Reply(i, 400, <<>>, FALSE) \/ Reply(i, 200, tasks[i].body, FALSE)
        BY <1>3 DEF HandledStream, StreamBody
    <2>3. i \in 1..Len(sent) /\ tasks[i] \in Task /\ NoTask \in Task
        BY RunningShape
    <2>4. TasksOK'
        <3>1. [NoTask EXCEPT !.pc = "ended"] \in Task
            BY <2>3 DEF Task
        <3> QED
            BY <2>1, <2>2, <2>3, <3>1, TaskSet
    <2>5. OutOK'
        <3>1. 400 \in Nat /\ 200 \in Nat /\ FALSE \in BOOLEAN /\ tasks[i].body \in Seq(Unit)
            BY <2>3, SMTT(30) DEF Task
        <3>2. CASE Reply(i, 400, <<>>, FALSE)
            BY <1>0, <2>1, <2>3, <3>1, <3>2, ReplyShape DEF ShapeInv
        <3>3. CASE Reply(i, 200, tasks[i].body, FALSE)
            BY <1>0, <2>1, <2>3, <3>1, <3>3, ReplyShape DEF ShapeInv
        <3>4. CASE UNCHANGED out
            BY <2>1, <3>4, Kept
        <3> QED
            BY <2>2, <3>2, <3>3, <3>4
    <2>6. DoneOK'
        BY <2>1, <2>2, <2>3, Kept
    <2> QED
        BY <2>1, <2>4, <2>5, <2>6, Kept DEF ShapeInv
<1>4. CASE EndStreams
    <2> DEFINE cut == {i \in Running : tasks[i].pc = "body"}
    <2>1. /\ UNCHANGED <<kind, reloads, client, sent, wire, out>> /\ conn' = Closed
          /\ done' = done \union cut
          /\ tasks' = [i \in DOMAIN tasks |-> IF i \in cut THEN [NoTask EXCEPT !.pc = "ended"]
                                              ELSE tasks[i]]
        BY <1>4 DEF EndStreams, Server, Close, client
    <2>2. cut \subseteq 1..Len(sent) /\ DOMAIN tasks = 1..MaxSends /\ NoTask \in Task
          /\ tasks \in [1..MaxSends -> Task]
        BY RunningShape DEF ShapeInv, TasksOK
    <2> HIDE DEF cut
    <2>3. [NoTask EXCEPT !.pc = "ended"] \in Task
        BY <2>2 DEF Task
    <2>4. tasks' \in [1..MaxSends -> Task]
        BY <2>1, <2>2, <2>3
    <2>5. ASSUME NEW i \in 1..MaxSends, tasks'[i].pc # "none"
          PROVE  i <= Len(sent)
        <3>1. CASE i \in cut
            BY <1>0, <2>2, <3>1, SMTT(30)
        <3>2. CASE i \notin cut
            BY <2>1, <2>2, <2>5, <3>2 DEF ShapeInv, TasksOK
        <3> QED
            BY <3>1, <3>2
    <2>6. TasksOK' /\ DoneOK'
        BY <2>1, <2>2, <2>4, <2>5 DEF TasksOK, DoneOK, ShapeInv
    <2> QED
        BY <2>1, <2>6, Kept DEF ShapeInv
<1> QED
    BY <1>1, <1>2, <1>3, <1>4

\* UDP.
LEMMA ShapeDatagrams ==
    ASSUME ShapeInv, Wake \/ SocketError \/ Drain \/ HandledDatagram
    PROVE  ShapeInv'
<1>0. /\ Len(sent) \in Nat /\ sent \in Seq(Request) /\ wire \in Seq(Unit) /\ Len(wire) \in Nat
      /\ <<>> \in Seq(Unit) /\ conn \in Connection
    BY SMTT(30) DEF ShapeInv, ClientOK, WireOK, ConnOK
<1>1. ASSUME NEW p \in {"drain", "parked"}, kind = "udp", conn' = [conn EXCEPT !.pc = p],
             UNCHANGED <<kind, sent>>, conn.pc \in {"drain", "parked"}
      PROVE  ConnOK' /\ PlaceInv'
    <2>1. /\ conn' \in Connection /\ conn'.pc = p /\ conn'.pending = conn.pending
        BY <1>0, <1>1 DEF Connection
    <2> QED
        BY <1>1, <2>1 DEF ShapeInv, ConnOK, PlaceInv, Serial
<1>2. CASE Wake \/ SocketError
    <2>1. UNCHANGED <<kind, reloads, client, sent, wire, tasks, done, out>>
        BY <1>2 DEF Wake, SocketError, Server, client
    <2>2. /\ kind = "udp" /\ conn.pc \in {"drain", "parked"}
          /\ \E p \in {"drain", "parked"} : conn' = [conn EXCEPT !.pc = p]
        BY <1>2 DEF Wake, SocketError
    <2>3. ConnOK' /\ PlaceInv'
        BY <1>1, <2>1, <2>2
    <2> QED
        BY <2>1, <2>3, Kept DEF ShapeInv
<1>3. CASE Drain
    <2>1. UNCHANGED <<kind, reloads, client, sent>> /\ kind = "udp" /\ conn.pc = "drain"
        BY <1>3 DEF Drain, Server, client
    <2>2. CASE conn' = [conn EXCEPT !.pc = "parked"] /\ UNCHANGED <<wire, tasks, permits, done, out>>
        <3>1. ConnOK' /\ PlaceInv'
            BY <1>1, <2>1, <2>2
        <3> QED
            BY <2>1, <2>2, <3>1, Kept DEF ShapeInv
    <2> DEFINE id == wire[1][1]
    <2>3. CASE /\ wire # <<>> /\ wire' = Tail(wire) /\ UNCHANGED conn
               /\ \/ done' = done \union {id} /\ UNCHANGED <<tasks, out>>
                  \/ Shed(id)
                  \/ Spawn(id)
        <3>1. Len(wire) >= 1
            BY <1>0, <2>3, SMTT(30)
        <3>2. id \in 1..Len(sent)
            BY <1>0, <3>1, SMTT(30) DEF ShapeInv, WireOK
        <3>3. WireOK'
            <4>1. /\ wire' \in Seq(Unit) /\ Len(wire') = Len(wire) - 1
                  /\ \A k \in 1..Len(wire') : wire'[k] = wire[k + 1]
                BY <1>0, <2>3, <3>1, SMTT(30)
            <4>2. \A k \in 1..Len(wire') : wire'[k][1] \in 1..Len(sent)
                BY <1>0, <4>1, SMTT(30) DEF ShapeInv, WireOK
            <4>3. UNCHANGED sent
                BY <2>1
            <4> QED
                BY <4>1, <4>2, <4>3 DEF WireOK
        <3> HIDE DEF id
        <3>4. CASE done' = done \union {id} /\ UNCHANGED <<tasks, out>>
            BY <2>1, <2>3, <3>2, <3>3, <3>4, Kept DEF ShapeInv
        <3>5. CASE Shed(id)
            <4>1. /\ done' = done \union {id} /\ UNCHANGED tasks
                  /\ UNCHANGED out \/ Reply(id, 5, <<>>, FALSE)
                BY <3>5 DEF Shed
            <4>2. 5 \in Nat /\ FALSE \in BOOLEAN
                OBVIOUS
            <4>3. OutOK'
                BY <1>0, <2>1, <3>2, <4>1, <4>2, Kept, ReplyShape DEF ShapeInv
            <4> QED
                BY <2>1, <2>3, <3>2, <3>3, <4>1, <4>3, Kept DEF ShapeInv
        <3>6. CASE Spawn(id)
            <4>1. UNCHANGED <<done, out>> /\ tasks' = [tasks EXCEPT ![id].pc = "handle"]
                BY <3>6 DEF Spawn
            <4>2. tasks[id] \in Task /\ tasks \in [1..MaxSends -> Task]
                BY <3>2, RunningShape DEF ShapeInv, TasksOK
            <4>3. [tasks[id] EXCEPT !.pc = "handle"] \in Task
                BY <4>2 DEF Task
            <4>4. tasks' = [tasks EXCEPT ![id] = [tasks[id] EXCEPT !.pc = "handle"]]
                BY <4>1, <4>2
            <4>5. TasksOK'
                BY <2>1, <3>2, <4>3, <4>4, TaskSet
            <4> QED
                BY <2>1, <2>3, <3>3, <4>1, <4>5, Kept DEF ShapeInv
        <3> QED
            BY <2>3, <3>4, <3>5, <3>6
    <2> QED
        BY <1>3, <2>2, <2>3 DEF Drain
<1>4. CASE HandledDatagram
    <2>1. UNCHANGED <<kind, reloads, client, sent, wire, conn>>
        BY <1>4 DEF HandledDatagram, Server, client
    <2>2. PICK i \in Running :
             /\ tasks' = [tasks EXCEPT ![i].pc = "ended"]
             /\ done' = done \union {i}
             /\ UNCHANGED out \/ Reply(i, 0, <<>>, FALSE)
        BY <1>4 DEF HandledDatagram
    <2>3. i \in 1..Len(sent) /\ tasks[i] \in Task /\ tasks \in [1..MaxSends -> Task]
        BY RunningShape DEF ShapeInv, TasksOK
    <2>4. TasksOK'
        <3>1. [tasks[i] EXCEPT !.pc = "ended"] \in Task
            BY <2>3 DEF Task
        <3>2. tasks' = [tasks EXCEPT ![i] = [tasks[i] EXCEPT !.pc = "ended"]]
            BY <2>2, <2>3
        <3> QED
            BY <2>1, <2>3, <3>1, <3>2, TaskSet
    <2>5. OutOK'
        <3>1. 0 \in Nat /\ FALSE \in BOOLEAN
            OBVIOUS
        <3> QED
            BY <1>0, <2>1, <2>2, <2>3, <3>1, Kept, ReplyShape DEF ShapeInv
    <2>6. DoneOK'
        BY <2>1, <2>2, <2>3, Kept
    <2> QED
        BY <2>1, <2>4, <2>5, <2>6, Kept DEF ShapeInv
<1> QED
    BY <1>2, <1>3, <1>4

\* The state of the listener keeps its shape, and the connection of each
\* protocol its places.
THEOREM ListenerShape == Spec => []ShapeInv
<1>1. Init => ShapeInv
    <2> SUFFICES ASSUME Init
                 PROVE  ShapeInv
        OBVIOUS
    <2>0. /\ <<>> \in Seq(Unit) /\ <<>> \in Seq(Request) /\ <<>> \in Seq(Response)
          /\ Len(<<>>) = 0
        BY SMTT(30)
    <2>1. /\ Fresh \in Connection /\ Fresh.pending = <<>> /\ Fresh.body = <<>>
          /\ NoTask \in Task /\ NoTask.pc = "none"
        BY <2>0 DEF Fresh, Connection, NoTask, Task
    <2>2. /\ conn \in Connection /\ conn.pending = <<>> /\ conn.body = <<>>
          /\ conn.pc = IF kind = "udp" THEN "parked" ELSE "new"
        BY <2>1 DEF Init, ListenerInit, Connection
    <2>3. ClientOK
        <3>1. MaxSends \in Nat
            BY ListenerAssumption
        <3>2. kind \in Kinds /\ sent = <<>> /\ whole = 0 /\ reloads = 0 /\ eof = FALSE
            BY DEF Init, ListenerInit
        <3>3. sent \in Seq(Request) /\ Len(sent) = 0
            BY <2>0, <3>2
        <3>4. 1..Len(sent) = {} /\ Len(sent) <= MaxSends
            BY <3>1, <3>3, SMTT(30)
        <3>5. /\ whole \in Nat /\ whole <= Len(sent) /\ Len(sent) <= whole + 1
              /\ reloads \in Nat
            BY <3>2, <3>3, SMTT(30)
        <3>6. eof \in BOOLEAN
            BY <3>2
        <3> QED
            BY <3>2, <3>3, <3>4, <3>5, <3>6 DEF ClientOK
    <2>4. WireOK /\ DoneOK /\ OutOK
        BY <2>0, SMTT(30) DEF Init, ListenerInit, WireOK, DoneOK, OutOK
    <2>5. ConnOK
        BY <2>0, <2>2, SMTT(30) DEF ConnOK
    <2>6. TasksOK
        BY <2>1 DEF Init, ListenerInit, TasksOK
    <2>7. PlaceInv
        BY <2>2, SMTT(30) DEF Init, ListenerInit, PlaceInv, Serial
    <2> QED
        BY <2>3, <2>4, <2>5, <2>6, <2>7 DEF ShapeInv
<1>2. ShapeInv /\ [Next]_vars => ShapeInv'
    <2> SUFFICES ASSUME ShapeInv, [Next]_vars
                 PROVE  ShapeInv'
        OBVIOUS
    <2>1. CASE ListenerNext
        BY <2>1, ShapeEnvironment, ShapeFramed, ShapeHttp, ShapeStreams, ShapeDatagrams
           DEF ListenerNext, ServerNext
    <2>2. CASE HostGone
        BY <2>2, ShapeHostGone
    <2>3. CASE UNCHANGED listenerVars
        <3>1. UNCHANGED <<kind, reloads, client, sent, wire, conn, tasks, done, out>>
            BY <2>3 DEF listenerVars, client
        <3> QED
            BY <3>1, Kept DEF ShapeInv
    <2> QED
        BY <2>1, <2>2, <2>3, Steps
<1> QED
    BY <1>1, <1>2, PTL DEF Spec

---------------------------------------------------------------------------
(* Datagrams. *)

\* The protocol of a listener is fixed.
LEMMA KindKept ==
    ASSUME [Next]_vars
    PROVE  UNCHANGED kind
<1>1. CASE ListenerNext
    BY <1>1 DEF ListenerNext, ServerNext, Server, Send, Hangup, Reload, BecomeReady, HandshakeEnds,
       HeadTimeout, Accept, ReadFramed, ReadMessage, HandledFramed, ReadHead, StartRequest,
       ReadBody, HandledHttp, AcceptStream, ReadStream, HandledStream, EndStreams, Wake, SocketError,
       Drain, HandledDatagram
<1>2. CASE HostGone
    BY <1>2 DEF HostGone
<1>3. CASE UNCHANGED listenerVars
    BY <1>3 DEF listenerVars
<1> QED
    BY <1>1, <1>2, <1>3, Steps

\* One response, to the request id, was written.
Wrote(id) ==
    /\ Len(out) \in Nat /\ Len(out') = Len(out) + 1
    /\ \A k \in 1..Len(out) : out'[k] = out[k]
    /\ out'[Len(out) + 1].id = id

\* Reply writes one response, with its parts.
LEMMA ReplyWrote ==
    ASSUME ShapeInv, UNCHANGED sent, NEW id \in 1..Len(sent), NEW status \in Nat,
           NEW body \in Seq(Unit), NEW close \in BOOLEAN, Reply(id, status, body, close)
    PROVE  /\ Wrote(id)
           /\ out'[Len(out) + 1] = [id |-> id, status |-> status, body |-> body, close |-> close]
<1>1. OutOK /\ sent \in Seq(Request)
    BY DEF ShapeInv, ClientOK
<1>2. /\ Len(out) \in Nat /\ Len(out') = Len(out) + 1
      /\ \A k \in 1..Len(out) : out'[k] = out[k]
      /\ out'[Len(out) + 1] = [id |-> id, status |-> status, body |-> body, close |-> close]
    BY <1>1, ReplyShape
<1>3. out'[Len(out) + 1].id = id
    BY <1>2, SMTT(30)
<1> QED
    BY <1>2, <1>3 DEF Wrote

\* Other requests stay unanswered.
LEMMA SilentKept ==
    ASSUME NEW id, Wrote(id), NEW j, j # id, Silent(j)
    PROVE  Silent(j)'
<1> SUFFICES ASSUME NEW k \in 1..Len(out')
             PROVE  out'[k].id # j
    BY DEF Silent
<1>1. CASE k \in 1..Len(out)
    BY <1>1 DEF Wrote, Silent
<1>2. CASE k = Len(out) + 1
    BY <1>2 DEF Wrote
<1> QED
    BY <1>1, <1>2, SMTT(30) DEF Wrote

---------------------------------------------------------------------------
(* Serial connections. *)

\* Two sequences of the same units are the same.
LEMMA SameUnits ==
    ASSUME NEW s \in Seq(Unit), NEW t \in Seq(Unit), Len(s) = Len(t),
           \A j \in 1..Len(s) : s[j] = t[j]
    PROVE  s = t
BY SMTT(30)

\* The body of a request, unit by unit.
LEMMA BodyUnits ==
    ASSUME NEW s \in Seq(Unit), NEW r \in Request, NEW id \in Nat, Len(s) = r.len,
           \A j \in 1..Len(s) : s[j] = <<id, "b">>
    PROVE  s = Body(r, id)
<1> DEFINE b == Body(r, id)
           n == r.len
<1>1. <<id, "b">> \in Unit /\ n \in Nat
    BY DEF Unit, Request
<1>2. b \in Seq(Unit) /\ Len(b) = n /\ \A j \in 1..n : b[j] = <<id, "b">>
    BY <1>1, RepeatUnits DEF Body
<1>3. Len(s) = n
    OBVIOUS
<1> HIDE DEF b, n
<1>4. \A j \in 1..Len(s) : s[j] = b[j]
    BY <1>2, <1>3
<1>5. s = b
    BY <1>2, <1>3, <1>4, SameUnits
<1> QED
    BY <1>5 DEF b

\* What is unread: the over-read, then what is under way.
LEMMA Behind ==
    ASSUME NEW p \in Seq(Unit), NEW w \in Seq(Unit)
    PROVE  /\ p \o w \in Seq(Unit) /\ Len(p \o w) = Len(p) + Len(w)
           /\ Len(p) \in Nat /\ Len(w) \in Nat
           /\ \A j \in 1..Len(p) : (p \o w)[j] = p[j]
           /\ \A j \in 1..Len(w) : (p \o w)[Len(p) + j] = w[j]
<1> DEFINE u == p \o w
           m == Len(p)
           n == Len(w)
<1>1. /\ u \in Seq(Unit) /\ Len(u) = m + n
      /\ \A j \in 1..m : u[j] = p[j]
      /\ \A j \in (m + 1)..(m + n) : u[j] = w[j - m]
    BY Joined
<1>2. m \in Nat /\ n \in Nat
    BY SMTT(30)
<1> HIDE DEF u, m, n
<1>3. ASSUME NEW j \in 1..n
      PROVE  u[m + j] = w[j]
    <2>1. m + j \in (m + 1)..(m + n) /\ (m + j) - m = j
        BY <1>2, SMTT(30)
    <2> QED
        BY <1>1, <2>1
<1> QED
    BY <1>1, <1>2, <1>3 DEF u, m, n

Shifted(start, n) == [i \in DOMAIN start |-> start[i] - n]

\* The stream after a step that takes n units from its front.
LEMMA Advance ==
    ASSUME ShapeInv, ShapeInv', UNCHANGED <<kind, sent, whole>>,
           NEW start \in Starts, Laid(kind, Unread, sent, whole, start),
           NEW n \in Nat, Len(Unread') = Len(Unread) - n,
           \A j \in 1..Len(Unread') : Unread'[j] = Unread[n + j],
           NEW cur \in 1..(Len(sent) + 1),
           NEW t, t = Shifted(start, n), AtRequest(cur, t)'
    PROVE  StreamInv'
<1>1. /\ sent \in Seq(Request) /\ whole \in Nat /\ conn \in Connection /\ wire \in Seq(Unit)
      /\ conn' \in Connection /\ wire' \in Seq(Unit)
    BY DEF ShapeInv, ClientOK, ConnOK, WireOK
<1>2. conn.pending \in Seq(Unit) /\ conn'.pending \in Seq(Unit)
    BY <1>1 DEF Connection
<1>3. Unread \in Seq(Unit) /\ Unread' \in Seq(Unit)
    BY <1>1, <1>2, Behind DEF Unread
<1>4. t \in Starts /\ Laid(kind, Unread', sent, whole, t)
    <2> DEFINE u == Unread
               v == Unread'
               s == sent
               w == whole
               k == kind
               m == Len(s)
    <2>0. /\ u \in Seq(Unit) /\ v \in Seq(Unit) /\ s \in Seq(Request) /\ w \in Nat
          /\ start \in [1..(m + 1) -> Int] /\ Laid(k, u, s, w, start)
          /\ Len(v) = Len(u) - n /\ \A j \in 1..Len(v) : v[j] = u[n + j]
        BY <1>1, <1>3 DEF Starts
    <2> HIDE DEF u, v, s, w, k
    <2>1. m \in Nat /\ Len(u) \in Nat /\ Len(v) \in Nat /\ Len(v) <= Len(u)
        BY <2>0, SMTT(30)
    <2>2. t \in [1..(m + 1) -> Int] /\ \A i \in 1..(m + 1) : t[i] = start[i] - n
        BY <2>0, SMTT(30) DEF Shifted
    <2>3. \A i \in 1..m : i \in 1..(m + 1) /\ i + 1 \in 1..(m + 1) /\ m + 1 \in 1..(m + 1)
        BY <2>1, SMTT(30)
    <2>4. \A i \in 1..m : Size(k, s[i]) \in Nat
        <3>1. \A i \in 1..m : s[i] \in Request
            BY <2>0, SMTT(30)
        <3>2. \A r \in Request : r.head \in Nat /\ r.len \in Nat
            BY DEF Request
        <3>3. \A r \in Request : Size(k, r) \in Nat
            BY <3>2, SMTT(30) DEF Size, Header
        <3> QED
            BY <3>1, <3>3
    <2>5. /\ \A i \in 1..m : start[i + 1] = start[i] + Size(k, s[i])
          /\ \A i \in 1..(m + 1) : start[i] <= start[m + 1]
          /\ Len(u) = start[m + 1] - (m - w)
          /\ \A i \in 1..m : \A j \in 1..Size(k, s[i]) :
                start[i] + j \in 1..Len(u) => u[start[i] + j] = UnitAt(k, s[i], i, j)
        BY <2>0 DEF Laid
    <2> HIDE DEF m
    <2>6. ASSUME NEW i \in 1..m
          PROVE  t[i + 1] = t[i] + Size(k, s[i])
        <3>1. start[i] \in Int /\ start[i + 1] \in Int /\ Size(k, s[i]) \in Nat
            BY <2>0, <2>3, <2>4
        <3>2. t[i + 1] = start[i + 1] - n /\ t[i] = start[i] - n
            BY <2>2, <2>3
        <3>3. start[i + 1] = start[i] + Size(k, s[i])
            BY <2>5
        <3> QED
            BY <3>1, <3>2, <3>3, SMTT(30)
    <2>7. Len(v) = t[m + 1] - (m - w)
        <3>1. m + 1 \in 1..(m + 1) /\ start[m + 1] \in Int
            BY <2>0, <2>1, SMTT(30)
        <3>2. t[m + 1] = start[m + 1] - n
            BY <2>2, <3>1
        <3> QED
            BY <2>0, <2>1, <2>5, <3>1, <3>2, SMTT(30)
    <2>8. ASSUME NEW i \in 1..m, NEW j \in 1..Size(k, s[i]), t[i] + j \in 1..Len(v)
          PROVE  v[t[i] + j] = UnitAt(k, s[i], i, j)
        <3>1. start[i] \in Int /\ t[i] = start[i] - n
            BY <2>0, <2>2, <2>3
        <3>2. n + (t[i] + j) = start[i] + j /\ start[i] + j \in 1..Len(u)
            <4>1. j \in Int /\ j >= 1 /\ t[i] \in Int /\ Len(v) = Len(u) - n /\ n \in Int
                BY <2>0, <2>4, <3>1, SMTT(30)
            <4>2. t[i] + j >= 1 /\ t[i] + j <= Len(v)
                BY <2>1, <2>8, <4>1, SMTT(30)
            <4> QED
                <5> DEFINE a == start[i]
                           b == t[i]
                           p == Len(u)
                <5>1. a \in Int /\ b \in Int /\ b = a - n /\ p \in Int /\ n >= 0
                      /\ b + j >= 1 /\ b + j <= p - n
                    BY <2>1, <3>1, <4>1, <4>2, SMTT(30)
                <5> HIDE DEF a, b, p
                <5>2. n + (b + j) = a + j /\ a + j \in 1..p
                    BY <4>1, <5>1, SMTT(30)
                <5> QED
                    BY <5>2 DEF a, b, p
        <3> QED
            BY <2>0, <2>5, <2>8, <3>2
    <2>9. ASSUME NEW i \in 1..(m + 1)
          PROVE  t[i] <= t[m + 1]
        <3>1. m + 1 \in 1..(m + 1) /\ start[i] \in Int /\ start[m + 1] \in Int
            BY <2>0, <2>1, SMTT(30)
        <3>2. t[i] = start[i] - n /\ t[m + 1] = start[m + 1] - n /\ start[i] <= start[m + 1]
            BY <2>2, <2>5, <3>1
        <3> QED
            BY <3>1, <3>2, SMTT(30)
    <2>10. Laid(k, v, s, w, t)
        BY <2>6, <2>7, <2>8, <2>9 DEF Laid, m
    <2> QED
        BY <2>2, <2>10 DEF Starts, u, v, s, w, k, m
<1>5. t \in Starts' /\ cur \in 1..(Len(sent') + 1)
    BY <1>4 DEF Starts
<1>6. Laid(kind, Unread, sent, whole, t)'
    BY <1>4 DEF Laid
<1> QED
    BY <1>5, <1>6 DEF StreamInv

\* The sizes of a request are numbers.
LEMMA SizeShape ==
    ASSUME NEW r \in Request, NEW k
    PROVE  /\ r.len \in Nat /\ r.head \in Nat
           /\ Header(k, r) \in Nat /\ Header(k, r) >= 1
           /\ Size(k, r) = Header(k, r) + r.len /\ Size(k, r) \in Nat
<1>1. r.len \in Nat /\ r.head \in Nat
    BY DEF Request
<1>2. Header(k, r) \in Nat /\ Header(k, r) >= 1
    BY <1>1, SMTT(30) DEF Header
<1> QED
    BY <1>1, <1>2, SMTT(30) DEF Size

\* What a request is read from: where it starts, and how far the stream goes.
LEMMA StreamAt ==
    ASSUME ShapeInv, NEW start \in Starts, Laid(kind, Unread, sent, whole, start)
    PROVE  /\ Len(sent) \in Nat /\ whole \in Nat /\ whole <= Len(sent) /\ Len(sent) <= whole + 1
           /\ conn.pending \in Seq(Unit) /\ wire \in Seq(Unit) /\ Unread \in Seq(Unit)
           /\ Len(conn.pending) \in Nat /\ Len(wire) \in Nat
           /\ Len(Unread) = Len(conn.pending) + Len(wire)
           /\ \A j \in 1..Len(conn.pending) : Unread[j] = conn.pending[j]
           /\ \A j \in 1..Len(wire) : Unread[Len(conn.pending) + j] = wire[j]
           /\ \A i \in 1..(Len(sent) + 1) : start[i] \in Int
           /\ \A i \in 1..(Len(sent) + 1) : start[i] <= start[Len(sent) + 1]
           /\ Len(Unread) = start[Len(sent) + 1] - (Len(sent) - whole)
           /\ \A i \in 1..Len(sent) :
                 /\ sent[i] \in Request
                 /\ start[i + 1] = start[i] + Size(kind, sent[i])
                 /\ \A j \in 1..Size(kind, sent[i]) :
                       start[i] + j \in 1..Len(Unread) =>
                          Unread[start[i] + j] = UnitAt(kind, sent[i], i, j)
<1>1. /\ sent \in Seq(Request) /\ whole \in Nat /\ conn \in Connection /\ wire \in Seq(Unit)
      /\ whole <= Len(sent) /\ Len(sent) <= whole + 1
    BY DEF ShapeInv, ClientOK, ConnOK, WireOK
<1>2. conn.pending \in Seq(Unit)
    BY <1>1 DEF Connection
<1>3. /\ Unread \in Seq(Unit) /\ Len(conn.pending) \in Nat /\ Len(wire) \in Nat
      /\ Len(Unread) = Len(conn.pending) + Len(wire)
      /\ \A j \in 1..Len(conn.pending) : Unread[j] = conn.pending[j]
      /\ \A j \in 1..Len(wire) : Unread[Len(conn.pending) + j] = wire[j]
    BY <1>1, <1>2, Behind DEF Unread
<1>4. Len(sent) \in Nat /\ (\A i \in 1..Len(sent) : sent[i] \in Request)
    BY <1>1, SMTT(30)
<1>5. \A i \in 1..(Len(sent) + 1) : start[i] \in Int
    BY <1>4 DEF Starts
<1> QED
    BY <1>1, <1>2, <1>3, <1>4, <1>5 DEF Laid

\* The client adds a request at the end of the stream.
LEMMA StreamSend ==
    ASSUME ShapeInv, StreamInv, kind \in Serial, Send
    PROVE  StreamInv'
<1>1. UNCHANGED <<kind, conn, out>> /\ conn.pc \in {"head", "body", "handle"}
    BY SendFacts DEF ShapeInv, PlaceInv
<1>2. PICK r \in Request, n \in Nat, f \in Seq(Unit), k \in Nat : Sent(r, n, f, k)
    BY SendFacts
<1>3. PICK cur \in 1..(Len(sent) + 1) : \E start \in Starts :
         Laid(kind, Unread, sent, whole, start) /\ AtRequest(cur, start)
    BY <1>1 DEF StreamInv
<1>4. PICK start \in Starts : Laid(kind, Unread, sent, whole, start) /\ AtRequest(cur, start)
    BY <1>3
<1> DEFINE m == Len(sent)
           z == Size(kind, r)
           u == Unread
           p == Len(conn.pending)
           q == Len(wire)
           v == Unread'
<1>5. /\ m \in Nat /\ u \in Seq(Unit) /\ p \in Nat /\ q \in Nat /\ Len(u) = p + q
      /\ \A j \in 1..p : u[j] = conn.pending[j]
      /\ \A j \in 1..q : u[p + j] = wire[j]
      /\ \A i \in 1..(m + 1) : start[i] \in Int
      /\ \A i \in 1..(m + 1) : start[i] <= start[m + 1]
      /\ conn.pending \in Seq(Unit)
      /\ Len(u) = start[m + 1] - (m - whole)
      /\ \A i \in 1..m :
            /\ sent[i] \in Request
            /\ start[i + 1] = start[i] + Size(kind, sent[i])
            /\ \A j \in 1..Size(kind, sent[i]) :
                  start[i] + j \in 1..Len(u) => u[start[i] + j] = UnitAt(kind, sent[i], i, j)
    BY <1>4, StreamAt
<1>6. /\ n = m + 1 /\ whole = m /\ f = Frame(r, n)
      /\ k >= 1 /\ k <= Len(f) /\ k >= Len(f) - 1 /\ Len(f) \in Nat
      /\ sent' \in Seq(Request) /\ Len(sent') = m + 1 /\ sent'[m + 1] = r
      /\ \A i \in 1..m : sent'[i] = sent[i]
      /\ whole' = IF k = Len(f) THEN m + 1 ELSE m
      /\ wire' \in Seq(Unit) /\ Len(wire') = q + k
      /\ \A j \in 1..q : wire'[j] = wire[j]
      /\ \A j \in (q + 1)..(q + k) : wire'[j] = f[j - q]
    <2>1. n = m + 1 /\ f \in Seq(Unit)
        BY <1>2 DEF Sent
    <2>2. Len(f) \in Nat
        BY <2>1, SMTT(30)
    <2> QED
        BY <1>2, <2>1, <2>2 DEF Sent
<1>7. z \in Nat /\ Len(f) = z /\ \A j \in 1..z : f[j] = UnitAt(kind, r, m + 1, j)
    BY <1>6, SerialFrame, SizeShape, SMTT(30)
<1>8. /\ v \in Seq(Unit) /\ Len(v) = p + (q + k)
      /\ \A j \in 1..p : v[j] = conn.pending[j]
      /\ \A j \in 1..(q + k) : v[p + j] = wire'[j]
    <2>1. v = conn.pending \o wire' /\ conn.pending \in Seq(Unit) /\ wire' \in Seq(Unit)
        BY <1>1, <1>5, <1>6 DEF Unread
    <2>2. /\ v \in Seq(Unit) /\ Len(v) = Len(conn.pending) + Len(wire')
          /\ \A j \in 1..Len(conn.pending) : v[j] = conn.pending[j]
          /\ \A j \in 1..Len(wire') : v[Len(conn.pending) + j] = wire'[j]
        BY <2>1, Behind, SMTT(30)
    <2>3. Len(wire') = q + k /\ Len(conn.pending) = p
        BY <1>6
    <2> HIDE DEF v, p, q
    <2> QED
        BY <2>2, <2>3
<1>20. PICK t : t = [i \in 1..(m + 2) |-> IF i <= m + 1 THEN start[i] ELSE start[m + 1] + z]
    OBVIOUS
<1>9. /\ t \in [1..(m + 2) -> Int] /\ t[m + 2] = start[m + 1] + z
      /\ \A i \in 1..(m + 1) : t[i] = start[i]
    <2>1. m + 1 \in 1..(m + 1) /\ start[m + 1] \in Int
        BY <1>5, SMTT(30)
    <2>2. \A i \in 1..(m + 2) : i \in 1..(m + 1) \/ i = m + 2
        BY <1>5, SMTT(30)
    <2>3. \A i \in 1..(m + 1) : i \in 1..(m + 2) /\ i <= m + 1
        BY <1>5, SMTT(30)
    <2>4. m + 2 \in 1..(m + 2) /\ ~(m + 2 <= m + 1) /\ start[m + 1] + z \in Int
        BY <1>5, <1>7, <2>1, SMTT(30)
    <2>5. \A i \in 1..(m + 2) : (IF i <= m + 1 THEN start[i] ELSE start[m + 1] + z) \in Int
        BY <1>5, <2>2, <2>4
    <2> QED
        BY <1>20, <2>3, <2>4, <2>5
<1> HIDE DEF m, z, u, p, q, v
<1>10. start[m + 1] = p + q /\ m + 1 \in 1..(m + 1)
    <2>1. m + 1 \in 1..(m + 1) /\ m - whole = 0
        BY <1>5, <1>6, SMTT(30)
    <2>2. start[m + 1] \in Int /\ p + q = start[m + 1] - 0
        BY <1>5, <2>1
    <2> QED
        BY <1>5, <2>1, <2>2, SMTT(30)
<1>11. ASSUME NEW j \in 1..(p + q)
       PROVE  v[j] = u[j]
    <2>1. CASE j \in 1..p
        BY <1>5, <1>8, <2>1
    <2>2. CASE j > p
        <3>1. j - p \in 1..q /\ p + (j - p) = j /\ j - p \in 1..(q + k)
            BY <1>5, <1>6, <2>2, SMTT(30)
        <3>2. v[j] = wire'[j - p] /\ u[j] = wire[j - p]
            BY <1>5, <1>8, <3>1
        <3> QED
            BY <1>6, <3>1, <3>2
    <2> QED
        BY <1>5, <2>1, <2>2, SMTT(30)
<1>12. ASSUME NEW j \in 1..k
       PROVE  v[p + q + j] = f[j]
    <2>1. q + j \in 1..(q + k) /\ q + j \in (q + 1)..(q + k) /\ (q + j) - q = j /\ p + (q + j) = p + q + j
        BY <1>5, SMTT(30)
    <2> QED
        BY <1>6, <1>8, <2>1, SMTT(30)
<1>13. ASSUME NEW i \in 1..(m + 1)
       PROVE  /\ t[i + 1] = t[i] + Size(kind, sent'[i])
              /\ \A j \in 1..Size(kind, sent'[i]) :
                    t[i] + j \in 1..Len(v) => v[t[i] + j] = UnitAt(kind, sent'[i], i, j)
    <2>1. CASE i \in 1..m
        <3>1. i + 1 \in 1..(m + 1) /\ sent'[i] = sent[i] /\ t[i] = start[i] /\ t[i + 1] = start[i + 1]
            BY <1>5, <1>6, <1>9, <2>1, SMTT(30)
        <3>2. ASSUME NEW j \in 1..Size(kind, sent[i]), start[i] + j \in 1..Len(v)
              PROVE  v[start[i] + j] = UnitAt(kind, sent[i], i, j)
            <4> DEFINE y == Size(kind, sent[i])
                       a == start[i]
                       b == start[i + 1]
            <4>1. y \in Nat /\ a \in Int /\ b \in Int /\ b = a + y /\ b <= p + q
                BY <1>5, <1>10, <2>1, <3>1, SizeShape
            <4>2. j \in 1..y /\ a + j \in 1..Len(v) /\ Len(v) \in Nat
                BY <1>8, <3>2, SMTT(30)
            <4> HIDE DEF y, a, b
            <4>3. a + j \in 1..(p + q)
                BY <1>5, <4>1, <4>2, SMTT(30)
            <4>4. u[a + j] = UnitAt(kind, sent[i], i, j)
                BY <1>5, <2>1, <4>2, <4>3 DEF a, y
            <4> QED
                BY <1>11, <4>3, <4>4 DEF a
        <3> QED
            BY <1>5, <2>1, <3>1, <3>2
    <2>2. CASE i = m + 1
        <3>1. sent'[i] = r /\ t[i] = p + q /\ t[i + 1] = (p + q) + z
            <4>1. i + 1 = m + 2
                BY <1>5, <2>2, SMTT(30)
            <4> QED
                BY <1>6, <1>9, <1>10, <2>2, <4>1
        <3>2. ASSUME NEW j \in 1..z, (p + q) + j \in 1..Len(v)
              PROVE  v[(p + q) + j] = UnitAt(kind, r, i, j)
            <4>1. j \in 1..k
                <5>1. j \in Int /\ j >= 1 /\ Len(v) = p + (q + k) /\ (p + q) + j <= Len(v)
                    BY <1>5, <1>7, <1>8, <3>2, SMTT(30)
                <5> QED
                    BY <1>5, <5>1, SMTT(30)
            <4> QED
                BY <1>7, <1>12, <2>2, <4>1
        <3>3. Size(kind, sent'[i]) = z
            BY <3>1 DEF z
        <3> QED
            BY <3>1, <3>2, <3>3
    <2> QED
        BY <1>5, <2>1, <2>2, SMTT(30)
<1>14. Len(v) = t[(m + 1) + 1] - ((m + 1) - whole')
    <2>1. (m + 1) + 1 = m + 2 /\ t[m + 2] = (p + q) + z
        BY <1>5, <1>9, <1>10, SMTT(30)
    <2>2. Len(v) = p + (q + k) /\ Len(f) = z
        BY <1>7, <1>8
    <2>3. CASE k = Len(f)
        BY <1>5, <1>6, <1>7, <2>1, <2>2, <2>3, SMTT(30)
    <2>4. CASE k # Len(f)
        <3>1. k = z - 1 /\ whole' = m
            BY <1>6, <1>7, <2>4, SMTT(30)
        <3> QED
            BY <1>5, <1>7, <2>1, <2>2, <3>1, SMTT(30)
    <2> QED
        BY <2>3, <2>4
<1>15. ASSUME NEW i \in 1..((m + 1) + 1)
       PROVE  t[i] <= t[(m + 1) + 1]
    <2>1. (m + 1) + 1 = m + 2 /\ t[m + 2] = (p + q) + z
        BY <1>5, <1>9, <1>10, SMTT(30)
    <2>2. CASE i \in 1..(m + 1)
        <3>1. t[i] = start[i] /\ start[i] \in Int /\ start[i] <= p + q
            BY <1>5, <1>9, <1>10, <2>2
        <3> QED
            BY <1>5, <1>7, <2>1, <3>1, SMTT(30)
    <2>3. CASE i = m + 2
        BY <1>5, <1>7, <2>1, <2>3, SMTT(30)
    <2> QED
        BY <1>5, <2>1, <2>2, <2>3, SMTT(30)
<1>16. Laid(kind, Unread, sent, whole, t)'
    BY <1>1, <1>6, <1>13, <1>14, <1>15 DEF Laid, v
<1>17. t \in Starts' /\ cur \in 1..(Len(sent') + 1)
    <2>1. Len(sent') + 1 = m + 2 /\ cur \in 1..(m + 1)
        BY <1>5, <1>6, SMTT(30) DEF m
    <2> QED
        BY <1>5, <1>9, <2>1, SMTT(30) DEF Starts
<1>18. AtRequest(cur, t)'
    <2>1. cur \in 1..(m + 1) /\ t[cur] = start[cur]
        BY <1>9 DEF m
    <2>2. conn.pc \in {"body", "handle"} =>
             /\ cur = conn.id /\ cur \in 1..m /\ sent'[cur] = sent[cur]
             /\ t[cur + 1] = start[cur + 1]
        <3> SUFFICES ASSUME conn.pc \in {"body", "handle"}
                     PROVE  /\ cur = conn.id /\ cur \in 1..m /\ sent'[cur] = sent[cur]
                            /\ t[cur + 1] = start[cur + 1]
            OBVIOUS
        <3>1. cur = conn.id /\ cur \in 1..m
            BY <1>4 DEF AtRequest, ShapeInv, PlaceInv, m
        <3>2. cur + 1 \in 1..(m + 1)
            BY <1>5, <3>1, SMTT(30)
        <3> QED
            BY <1>6, <1>9, <3>1, <3>2
    <2>3. Body(sent[cur], cur) = Body(sent'[cur], cur) \/ sent'[cur] # sent[cur]
        OBVIOUS
    <2> QED
        BY <1>1, <1>4, <2>1, <2>2, <2>3 DEF AtRequest
<1> QED
    BY <1>16, <1>17, <1>18 DEF StreamInv

\* Behind the last request nothing is unread.
LEMMA NotPastEnd ==
    ASSUME ShapeInv, NEW start \in Starts, Laid(kind, Unread, sent, whole, start),
           NEW cur \in 1..(Len(sent) + 1), start[cur] = 0, Len(Unread) >= 1
    PROVE  cur \in 1..Len(sent)
<1>1. /\ Len(sent) \in Nat /\ whole \in Nat /\ whole <= Len(sent)
      /\ Len(Unread) = start[Len(sent) + 1] - (Len(sent) - whole)
    BY StreamAt
<1>2. cur # Len(sent) + 1
    BY <1>1, SMTT(30)
<1> QED
    BY <1>1, <1>2, SMTT(30)

\* Where the requests start after n units were read.
LEMMA ShiftedBy ==
    ASSUME NEW start \in Starts, NEW n \in Nat, NEW i \in 1..(Len(sent) + 1)
    PROVE  Shifted(start, n)[i] = start[i] - n
BY DEF Shifted, Starts

\* TCP and DoT: read_exact stays in step with the requests.
LEMMA StreamReadFramed ==
    ASSUME ShapeInv, ShapeInv', StreamInv, ReadFramed
    PROVE  StreamInv'
<1>1. /\ kind \in {"tcp", "dot"} /\ conn.pc = "head" /\ conn \in Connection
      /\ conn.pending = <<>> /\ conn.body = <<>> /\ Len(conn.pending) = 0 /\ Len(conn.body) = 0
      /\ UNCHANGED <<kind, sent, whole, out>> /\ conn' \in Connection
    BY DEF ReadFramed, ShapeInv, ConnOK, PlaceInv, Server, client
<1>2. CASE conn' = Closed
    BY <1>1, <1>2, ClosedShape DEF StreamInv
<1> DEFINE id == wire[1][1]
<1>3. CASE /\ Len(wire) >= 2 /\ sent[id].len > 0
           /\ conn' = [conn EXCEPT !.pc = "body", !.id = id]
           /\ wire' = SubSeq(wire, 3, Len(wire))
    <2>1. PICK cur \in 1..(Len(sent) + 1) : \E start \in Starts :
             Laid(kind, Unread, sent, whole, start) /\ AtRequest(cur, start)
        BY <1>1 DEF StreamInv, Serial
    <2>2. PICK start \in Starts : Laid(kind, Unread, sent, whole, start) /\ AtRequest(cur, start)
        BY <2>1
    <2>3. start[cur] = 0 /\ \A k \in 1..Len(out) : out[k].id < cur
        BY <1>1, <2>2 DEF AtRequest
    <2>4. /\ Len(wire) \in Nat /\ Len(Unread) = Len(wire) /\ WireOK
          /\ \A j \in 1..Len(wire) : Unread[j] = wire[j]
        <3>1. /\ Len(wire) \in Nat /\ Len(Unread) = Len(conn.pending) + Len(wire)
              /\ \A j \in 1..Len(wire) : Unread[Len(conn.pending) + j] = wire[j]
            BY <2>2, StreamAt
        <3>2. \A j \in 1..Len(wire) : Len(conn.pending) + j = j
            BY <1>1, <3>1, SMTT(30)
        <3> QED
            BY <1>1, <3>1, <3>2, SMTT(30) DEF ShapeInv
    <2>5. cur \in 1..Len(sent) /\ cur \in Nat
        <3>1. Len(Unread) >= 1
            BY <1>3, <2>4, SMTT(30)
        <3> QED
            BY <2>2, <2>3, <3>1, NotPastEnd, SMTT(30)
    <2>6. sent[cur] \in Request /\ Header(kind, sent[cur]) = 2 /\ sent[cur].len \in Nat
        <3>1. sent[cur] \in Request
            BY <2>2, <2>5, StreamAt
        <3> QED
            BY <1>1, <3>1, SizeShape DEF Header
    <2>7. id = cur
        <3>1. 1 \in 1..Size(kind, sent[cur]) /\ start[cur] + 1 = 1 /\ 1 \in 1..Len(Unread)
              /\ 1 \in 1..Len(wire)
            BY <1>3, <2>3, <2>4, <2>6, SMTT(30) DEF Size
        <3>2. Unread[start[cur] + 1] = UnitAt(kind, sent[cur], cur, 1)
            BY <2>2, <2>5, <3>1, StreamAt
        <3>3. UnitAt(kind, sent[cur], cur, 1) = <<cur, "l">>
            BY <1>1, <2>6, SMTT(30) DEF UnitAt
        <3>4. wire[1] = <<cur, "l">>
            BY <2>4, <3>1, <3>2, <3>3
        <3> QED
            BY <3>4, SMTT(30)
    <2>8. /\ conn'.pc = "body" /\ conn'.id = cur /\ conn'.body = <<>> /\ conn'.pending = <<>>
        BY <1>1, <1>3, <2>7 DEF Connection
    <2> HIDE DEF id
    <2>9. /\ Len(wire') = Len(wire) - 2 /\ wire' \in Seq(Unit)
          /\ \A j \in 1..(Len(wire) - 2) : wire'[j] = wire[2 + j]
        <3>1. 2 \in Nat /\ 2 <= Len(wire) /\ wire' = SubSeq(wire, 2 + 1, Len(wire))
            BY <1>3, <2>4, SMTT(30)
        <3> QED
            BY <1>1, <2>4, <3>1, WireRest DEF ShapeInv, WireOK
    <2>10. Len(Unread') = Len(Unread) - 2 /\ \A j \in 1..Len(Unread') : Unread'[j] = Unread[2 + j]
        <3>1. Unread' = wire'
            BY <2>8, <2>9, SMTT(30) DEF Unread
        <3>2. \A j \in 1..(Len(wire) - 2) : 2 + j \in 1..Len(wire)
            BY <2>4, SMTT(30)
        <3> QED
            BY <2>4, <2>9, <3>1, <3>2
    <2>11. PICK t : t = Shifted(start, 2)
        OBVIOUS
    <2>12. t[cur] = 0 - 2
        BY <2>3, <2>11, ShiftedBy
    <2>13. AtRequest(cur, t)'
        <3>1. Len(conn'.body) = 0 /\ Header(kind, sent[cur]) + Len(conn'.body) = 2
            BY <2>6, <2>8, SMTT(30)
        <3>2. 0 < sent[cur].len
            BY <1>3, <2>6, <2>7
        <3>3. 1..Len(conn'.body) = {}
            BY <3>1, SMTT(30)
        <3> QED
            BY <1>1, <2>3, <2>8, <2>12, <3>1, <3>2, <3>3 DEF AtRequest
    <2> QED
        BY <1>1, <2>2, <2>10, <2>11, <2>13, Advance
<1> QED
    BY <1>2, <1>3 DEF ReadFramed, Close

\* TCP and DoT: the message behind a length prefix is the request's own.
LEMMA StreamReadMessage ==
    ASSUME ShapeInv, ShapeInv', StreamInv, ReadMessage
    PROVE  StreamInv'
<1>1. /\ kind \in {"tcp", "dot"} /\ conn.pc = "body" /\ conn \in Connection
      /\ conn.pending = <<>> /\ Len(conn.pending) = 0 /\ conn.id \in 1..Len(sent)
      /\ UNCHANGED <<kind, sent, whole, out>> /\ conn' \in Connection
    BY DEF ReadMessage, ShapeInv, ConnOK, PlaceInv, Server, client
<1>2. CASE conn' = Closed
    BY <1>1, <1>2, ClosedShape DEF StreamInv
<1> DEFINE len == sent[conn.id].len
<1>3. CASE /\ Len(wire) >= len /\ wire' = Consume(len)
           /\ conn' = [conn EXCEPT !.pc = "handle", !.body = SubSeq(wire, 1, len)]
    <2>1. PICK cur \in 1..(Len(sent) + 1) : \E start \in Starts :
             Laid(kind, Unread, sent, whole, start) /\ AtRequest(cur, start)
        BY <1>1 DEF StreamInv, Serial
    <2>2. PICK start \in Starts : Laid(kind, Unread, sent, whole, start) /\ AtRequest(cur, start)
        BY <2>1
    <2>3. /\ cur = conn.id /\ start[cur] = 0 - (Header(kind, sent[cur]) + Len(conn.body))
          /\ conn.body = <<>> /\ Len(conn.body) = 0
          /\ \A k \in 1..Len(out) : out[k].id < cur
        BY <1>1, <2>2 DEF AtRequest
    <2>4. /\ Len(wire) \in Nat /\ Len(Unread) = Len(wire) /\ WireOK
          /\ \A j \in 1..Len(wire) : Unread[j] = wire[j]
        <3>1. /\ Len(wire) \in Nat /\ Len(Unread) = Len(conn.pending) + Len(wire)
              /\ \A j \in 1..Len(wire) : Unread[Len(conn.pending) + j] = wire[j]
            BY <2>2, StreamAt
        <3>2. \A j \in 1..Len(wire) : Len(conn.pending) + j = j
            BY <1>1, <3>1, SMTT(30)
        <3> QED
            BY <1>1, <3>1, <3>2, SMTT(30) DEF ShapeInv
    <2>5. cur \in 1..Len(sent) /\ cur \in Nat
        BY <1>1, <2>3, SMTT(30)
    <2>6. /\ sent[cur] \in Request /\ Header(kind, sent[cur]) = 2 /\ len \in Nat
          /\ Size(kind, sent[cur]) = 2 + len /\ len = sent[cur].len
        <3>1. sent[cur] \in Request
            BY <2>2, <2>5, StreamAt
        <3> QED
            BY <1>1, <2>3, <3>1, SizeShape DEF Header
    <2>7. start[cur] = 0 - 2
        BY <2>3, <2>6, SMTT(30)
    <2>8. /\ conn'.pc = "handle" /\ conn'.id = cur /\ conn'.pending = <<>>
          /\ conn'.body = SubSeq(wire, 1, len)
        BY <1>1, <1>3, <2>3 DEF Connection
    <2> HIDE DEF len
    <2>9. /\ Len(wire') = Len(wire) - len /\ wire' \in Seq(Unit)
          /\ \A j \in 1..(Len(wire) - len) : wire'[j] = wire[len + j]
        BY <1>1, <1>3, <2>4, <2>6, WireRest DEF ShapeInv, WireOK, Consume
    <2>10. Len(Unread') = Len(Unread) - len /\ \A j \in 1..Len(Unread') : Unread'[j] = Unread[len + j]
        <3>1. Unread' = wire'
            BY <2>8, <2>9, SMTT(30) DEF Unread
        <3>2. \A j \in 1..(Len(wire) - len) : len + j \in 1..Len(wire)
            BY <2>4, <2>6, SMTT(30)
        <3> QED
            BY <2>4, <2>9, <3>1, <3>2
    <2>11. PICK t : t = Shifted(start, len)
        OBVIOUS
    <2>12. t[cur + 1] = 0
        <3>1. cur + 1 \in 1..(Len(sent) + 1) /\ Len(sent) \in Nat
            BY <2>5, SMTT(30) DEF ShapeInv, ClientOK
        <3>2. start[cur + 1] = start[cur] + Size(kind, sent[cur])
            BY <2>2, <2>5, StreamAt
        <3>3. start[cur + 1] = len
            BY <2>6, <2>7, <3>2, SMTT(30)
        <3>4. t[cur + 1] = start[cur + 1] - len
            BY <2>6, <2>11, <3>1, ShiftedBy
        <3> QED
            BY <2>6, <3>3, <3>4, SMTT(30)
    <2>13. conn'.body = Body(sent[cur], cur)
        <3>1. /\ conn'.body \in Seq(Unit) /\ Len(conn'.body) = len
              /\ \A j \in 1..len : conn'.body[j] = wire[j]
            BY <1>3, <2>4, <2>6, <2>8, WireFirst, SMTT(30)
        <3>2. ASSUME NEW j \in 1..len
              PROVE  wire[j] = <<cur, "b">>
            <4>1. j \in 1..Len(wire) /\ 2 + j \in 1..(2 + len) /\ start[cur] + (2 + j) = j /\ 2 + j > 2
                BY <1>3, <2>4, <2>6, <2>7, SMTT(30)
            <4>2. Unread[start[cur] + (2 + j)] = UnitAt(kind, sent[cur], cur, 2 + j)
                BY <2>2, <2>4, <2>5, <2>6, <4>1, StreamAt
            <4>3. UnitAt(kind, sent[cur], cur, 2 + j) = <<cur, "b">>
                BY <2>6, <4>1 DEF UnitAt
            <4> QED
                BY <2>4, <4>1, <4>2, <4>3
        <3>3. \A j \in 1..Len(conn'.body) : conn'.body[j] = <<cur, "b">>
            BY <3>1, <3>2
        <3> QED
            BY <2>5, <2>6, <3>1, <3>3, BodyUnits, SMTT(30)
    <2>14. AtRequest(cur, t)'
        BY <1>1, <2>3, <2>8, <2>12, <2>13 DEF AtRequest
    <2> QED
        BY <1>1, <2>2, <2>6, <2>10, <2>11, <2>14, Advance
<1> QED
    BY <1>2, <1>3 DEF ReadMessage, Close

\* A request is done with, and the task turns to the next.
LEMMA StreamNextRequest ==
    ASSUME ShapeInv, ShapeInv', StreamInv, kind \in Serial, conn.pc = "handle",
           UNCHANGED <<kind, sent, whole, wire>>, conn'.pc = "head",
           conn'.pending = conn.pending, UNCHANGED out \/ Wrote(conn.id)
    PROVE  StreamInv'
<1>1. PICK cur \in 1..(Len(sent) + 1) : \E start \in Starts :
         Laid(kind, Unread, sent, whole, start) /\ AtRequest(cur, start)
    BY DEF StreamInv
<1>2. PICK start \in Starts : Laid(kind, Unread, sent, whole, start) /\ AtRequest(cur, start)
    BY <1>1
<1>3. /\ cur = conn.id /\ start[cur + 1] = 0 /\ cur \in 1..Len(sent)
      /\ \A k \in 1..Len(out) : out[k].id < cur
    BY <1>2 DEF AtRequest, ShapeInv, PlaceInv
<1>4. /\ Len(sent) \in Nat /\ cur \in Nat /\ cur + 1 \in 1..(Len(sent) + 1)
      /\ \A k \in 1..Len(out) : out[k].id \in Nat
    BY <1>3, SMTT(30) DEF ShapeInv, ClientOK, OutOK
<1>5. PICK after : after = cur + 1
    OBVIOUS
<1>6. PICK t : t = Shifted(start, 0)
    OBVIOUS
<1>7. t[after] = 0 /\ after \in 1..(Len(sent) + 1)
    BY <1>3, <1>4, <1>5, <1>6, ShiftedBy, SMTT(30)
<1>8. \A k \in 1..Len(out') : out'[k].id < after
    <2>1. \A k \in 1..Len(out) : out[k].id < after
        BY <1>3, <1>4, <1>5, SMTT(30)
    <2>2. CASE Wrote(conn.id)
        <3> SUFFICES ASSUME NEW k \in 1..Len(out')
                     PROVE  out'[k].id < after
            OBVIOUS
        <3>1. k \in 1..Len(out) \/ k = Len(out) + 1
            BY <2>2, SMTT(30) DEF Wrote
        <3>2. cur < after
            BY <1>4, <1>5, SMTT(30)
        <3> QED
            BY <1>3, <2>1, <2>2, <3>1, <3>2 DEF Wrote
    <2> QED
        BY <2>1, <2>2
<1>9. AtRequest(after, t)'
    BY <1>7, <1>8 DEF AtRequest
<1>10. Len(Unread') = Len(Unread) - 0 /\ \A j \in 1..Len(Unread') : Unread'[j] = Unread[0 + j]
    <2>1. Unread' = Unread /\ Len(Unread) \in Nat
        BY <1>2, StreamAt, SMTT(30) DEF Unread
    <2>2. \A j \in 1..Len(Unread) : 0 + j = j
        BY SMTT(30)
    <2> QED
        BY <2>1, <2>2, SMTT(30)
<1> QED
    BY <1>2, <1>6, <1>7, <1>9, <1>10, Advance

\* The answer of the handler ends a request.
LEMMA StreamHandled ==
    ASSUME ShapeInv, ShapeInv', StreamInv, HandledFramed \/ HandledHttp
    PROVE  StreamInv'
<1>1. /\ kind \in Serial /\ conn.pc = "handle" /\ conn \in Connection /\ conn.id \in 1..Len(sent)
      /\ UNCHANGED <<kind, sent, whole, wire>> /\ conn.body \in Seq(Unit) /\ conn.close \in BOOLEAN
    BY DEF HandledFramed, HandledHttp, ShapeInv, ConnOK, PlaceInv, Server, client, Serial, Connection
<1>2. CASE conn' = Closed
    BY <1>1, <1>2, ClosedShape DEF StreamInv
<1>3. CASE /\ HandledFramed
           /\ conn' = [conn EXCEPT !.pc = "head", !.body = <<>>]
    <2>1. conn'.pc = "head" /\ conn'.pending = conn.pending
        BY <1>1, <1>3 DEF Connection
    <2>2. UNCHANGED out \/ Reply(conn.id, 0, conn.body, FALSE)
        BY <1>3 DEF HandledFramed
    <2>3. 0 \in Nat /\ FALSE \in BOOLEAN
        OBVIOUS
    <2>4. UNCHANGED out \/ Wrote(conn.id)
        BY <1>1, <2>2, <2>3, ReplyWrote
    <2> QED
        BY <1>1, <2>1, <2>4, StreamNextRequest
<1>4. CASE /\ conn' = [conn EXCEPT !.pc = "head", !.count = @ + 1, !.body = <<>>]
           /\ Reply(conn.id, 200, conn.body, conn.close)
    <2>1. conn'.pc = "head" /\ conn'.pending = conn.pending
        BY <1>1, <1>4 DEF Connection
    <2>3. 200 \in Nat
        BY SMTT(30)
    <2>4. Wrote(conn.id)
        BY <1>1, <1>4, <2>3, ReplyWrote
    <2> QED
        BY <1>1, <2>1, <2>4, StreamNextRequest
<1>5. HandledFramed => conn' = Closed \/ conn' = [conn EXCEPT !.pc = "head", !.body = <<>>]
    BY DEF HandledFramed, Close
<1>6. HandledHttp =>
         \/ conn' = Closed
         \/ /\ conn' = [conn EXCEPT !.pc = "head", !.count = @ + 1, !.body = <<>>]
            /\ Reply(conn.id, 200, conn.body, conn.close)
    BY DEF HandledHttp, Close
<1> QED
    BY <1>2, <1>3, <1>4, <1>5, <1>6

\* A step that reads nothing and answers nothing.
LEMMA StreamKept ==
    ASSUME StreamInv, UNCHANGED <<kind, sent, whole, wire, conn, out>>
    PROVE  StreamInv'
<1>1. Unread' = Unread /\ Starts' = Starts
    BY DEF Unread, Starts
<1>2. \A cur, start : AtRequest(cur, start) => AtRequest(cur, start)'
    BY DEF AtRequest
<1> QED
    BY <1>1, <1>2 DEF StreamInv

\* A connection begins with nothing sent and nothing answered.
LEMMA StreamAccept ==
    ASSUME ShapeInv, Accept
    PROVE  StreamInv'
<1>1. /\ conn.pc = "new" /\ sent = <<>> /\ conn.pending = <<>> /\ conn \in Connection
      /\ UNCHANGED <<kind, sent, whole, wire, out>> /\ Len(sent) = 0
      /\ whole \in Nat /\ whole <= Len(sent) /\ wire \in Seq(Unit) /\ out \in Seq(Response)
    BY DEF Accept, ShapeInv, PlaceInv, Server, client, ClientOK, ConnOK, WireOK, OutOK
<1>2. CASE conn' = Closed
    BY <1>1, <1>2, ClosedShape DEF StreamInv
<1>3. CASE /\ kind \in Serial
           /\ conn' = [conn EXCEPT !.pc = IF kind = "h2" THEN "streams" ELSE "head", !.count = 1]
    <2>1. conn'.pc = "head" /\ conn'.pending = <<>>
        BY <1>1, <1>3 DEF Connection, Serial
    <2>2. Len(wire) = 0
        <3>1. Len(wire) \in Nat
            BY <1>1, SMTT(30)
        <3>2. \A k \in 1..Len(wire) : wire[k][1] \in 1..0
            BY <1>1 DEF ShapeInv, WireOK
        <3>3. 1 \notin 1..Len(wire)
            BY <3>2, SMTT(30)
        <3> QED
            BY <3>1, <3>3, SMTT(30)
    <2>3. Len(out) = 0
        <3>1. Len(out) \in Nat
            BY <1>1, SMTT(30)
        <3>2. \A k \in 1..Len(out) : out[k].id \in 1..0
            BY <1>1 DEF ShapeInv, OutOK
        <3>3. 1 \notin 1..Len(out)
            BY <3>2, SMTT(30)
        <3> QED
            BY <3>1, <3>3, SMTT(30)
    <2>4. PICK t : t = [i \in 1..1 |-> 0]
        OBVIOUS
    <2>5. t \in [1..(Len(sent) + 1) -> Int] /\ t[1] = 0 /\ t[Len(sent) + 1] = 0
        <3>1. Len(sent) + 1 = 1
            BY <1>1, SMTT(30)
        <3> QED
            BY <2>4, <3>1, SMTT(30)
    <2>6. Len(Unread') = 0
        <3>1. Unread' = wire
            BY <1>1, <2>1, SMTT(30) DEF Unread
        <3> QED
            BY <2>2, <3>1
    <2>7. Laid(kind, Unread, sent, whole, t)'
        <3>1. whole = 0 /\ Len(sent) = 0 /\ 0 = 0 - (0 - 0)
            BY <1>1, SMTT(30)
        <3>2. \A i \in 1..(Len(sent) + 1) : t[i] <= t[Len(sent) + 1]
            BY <1>1, <2>5, SMTT(30)
        <3> QED
            BY <1>1, <2>5, <2>6, <3>1, <3>2, SMTT(30) DEF Laid
    <2>8. AtRequest(1, t)'
        <3>1. 1..Len(out') = {}
            BY <1>1, <2>3, SMTT(30)
        <3> QED
            BY <2>1, <2>5, <3>1 DEF AtRequest
    <2>9. t \in Starts' /\ 1 \in 1..(Len(sent') + 1)
        BY <1>1, <2>5, SMTT(30) DEF Starts
    <2> QED
        BY <2>7, <2>8, <2>9 DEF StreamInv
<1>4. CASE kind \notin Serial
    BY <1>1, <1>4 DEF StreamInv
<1> QED
    BY <1>2, <1>3, <1>4 DEF Accept

\* HTTP/1.1: a read moves units from the wire behind what is pending.
LEMMA StreamReadHead ==
    ASSUME ShapeInv, ShapeInv', StreamInv, ReadHead
    PROVE  StreamInv'
<1>1. /\ kind = "doh" /\ conn.pc = "head" /\ conn \in Connection
      /\ UNCHANGED <<kind, sent, whole, out>> /\ WireOK /\ CHUNK \in Nat
    BY ListenerAssumption DEF ReadHead, ShapeInv, ConnOK, Server, client
<1>2. CASE conn' = Closed
    BY <1>1, <1>2, ClosedShape DEF StreamInv
<1>3. CASE \E n \in 1..CHUNK :
              /\ n <= Len(wire)
              /\ conn' = [conn EXCEPT !.pending = @ \o SubSeq(wire, 1, n)]
              /\ wire' = SubSeq(wire, n + 1, Len(wire))
    <2>1. PICK cur \in 1..(Len(sent) + 1) : \E start \in Starts :
             Laid(kind, Unread, sent, whole, start) /\ AtRequest(cur, start)
        BY <1>1 DEF StreamInv, Serial
    <2>2. PICK start \in Starts : Laid(kind, Unread, sent, whole, start) /\ AtRequest(cur, start)
        BY <2>1
    <2>3. PICK n \in 1..CHUNK :
              /\ n <= Len(wire)
              /\ conn' = [conn EXCEPT !.pending = @ \o SubSeq(wire, 1, n)]
              /\ wire' = SubSeq(wire, n + 1, Len(wire))
        BY <1>3
    <2> DEFINE p == conn.pending
               g == SubSeq(wire, 1, n)
               a == Len(p)
               q == Len(wire)
    <2>4. /\ p \in Seq(Unit) /\ a \in Nat /\ q \in Nat /\ n \in Nat /\ n <= q
          /\ Len(Unread) = a + q
          /\ \A j \in 1..a : Unread[j] = p[j]
          /\ \A j \in 1..q : Unread[a + j] = wire[j]
        BY <1>1, <2>2, <2>3, StreamAt, SMTT(30)
    <2>5. g \in Seq(Unit) /\ Len(g) = n /\ \A j \in 1..n : g[j] = wire[j]
        BY <1>1, <2>4, WireFirst
    <2>6. /\ wire' \in Seq(Unit) /\ Len(wire') = q - n
          /\ \A j \in 1..(q - n) : wire'[j] = wire[n + j]
        BY <1>1, <2>3, <2>4, WireRest DEF WireOK
    <2>7. conn'.pc = "head" /\ conn'.pending = p \o g
        BY <1>1, <2>3 DEF Connection
    <2>8. /\ p \o g \in Seq(Unit) /\ Len(p \o g) = a + n
          /\ \A j \in 1..a : (p \o g)[j] = p[j]
          /\ \A j \in 1..n : (p \o g)[a + j] = g[j]
        <3>1. /\ p \o g \in Seq(Unit) /\ Len(p \o g) = Len(p) + Len(g)
              /\ \A j \in 1..Len(p) : (p \o g)[j] = p[j]
              /\ \A j \in 1..Len(g) : (p \o g)[Len(p) + j] = g[j]
            BY <2>4, <2>5, Behind
        <3> HIDE DEF p, g
        <3> QED
            BY <2>5, <3>1
    <2> DEFINE d == conn'.pending
               v == Unread'
    <2>9. /\ d \in Seq(Unit) /\ Len(d) = a + n
          /\ \A j \in 1..a : d[j] = p[j]
          /\ \A j \in 1..n : d[a + j] = g[j]
        BY <2>7, <2>8
    <2>10. /\ Len(v) = (a + n) + (q - n)
           /\ \A j \in 1..(a + n) : v[j] = d[j]
           /\ \A j \in 1..(q - n) : v[(a + n) + j] = wire'[j]
        <3>1. /\ Len(v) = Len(d) + Len(wire')
              /\ \A j \in 1..Len(d) : v[j] = d[j]
              /\ \A j \in 1..Len(wire') : v[Len(d) + j] = wire'[j]
            BY <2>6, <2>9, Behind DEF Unread
        <3> HIDE DEF d, v, a, q
        <3> QED
            BY <2>6, <2>9, <3>1
    <2> HIDE DEF p, g, a, q, d, v
    <2>11. Len(v) = Len(Unread) - 0
        BY <2>4, <2>10, SMTT(30)
    <2>12. ASSUME NEW j \in 1..Len(v)
           PROVE  v[j] = Unread[0 + j]
        <3>0. 0 + j = j /\ j \in Nat /\ j >= 1 /\ j <= a + q
            BY <2>4, <2>10, SMTT(30)
        <3>1. CASE j <= a
            <4>1. j \in 1..a /\ j \in 1..(a + n)
                BY <2>4, <3>0, <3>1, SMTT(30)
            <4> QED
                BY <2>4, <2>9, <2>10, <3>0, <4>1
        <3>2. CASE j > a /\ j <= a + n
            <4>1. /\ j \in 1..(a + n) /\ j - a \in 1..n /\ j - a \in 1..q /\ a + (j - a) = j
                BY <2>4, <3>0, <3>2, SMTT(30)
            <4>2. v[j] = g[j - a]
                BY <2>9, <2>10, <4>1
            <4>3. Unread[j] = wire[j - a]
                BY <2>4, <4>1
            <4> QED
                BY <2>5, <3>0, <4>1, <4>2, <4>3
        <3>3. CASE j > a + n
            <4>1. /\ j - (a + n) \in 1..(q - n) /\ (a + n) + (j - (a + n)) = j
                  /\ n + (j - (a + n)) = j - a /\ j - a \in 1..q /\ a + (j - a) = j
                BY <2>4, <3>0, <3>3, SMTT(30)
            <4>2. v[j] = wire'[j - (a + n)]
                BY <2>10, <4>1
            <4>3. wire'[j - (a + n)] = wire[j - a]
                BY <2>6, <4>1
            <4>4. Unread[j] = wire[j - a]
                BY <2>4, <4>1
            <4> QED
                BY <3>0, <4>2, <4>3, <4>4
        <3> QED
            BY <2>4, <3>0, <3>1, <3>2, <3>3, SMTT(30)
    <2>13. PICK t : t = Shifted(start, 0)
        OBVIOUS
    <2>14. AtRequest(cur, t)'
        <3>1. start[cur] = 0 /\ \A k \in 1..Len(out) : out[k].id < cur
            BY <1>1, <2>2 DEF AtRequest
        <3>2. t[cur] = 0
            BY <2>13, <3>1, ShiftedBy, SMTT(30)
        <3> QED
            BY <1>1, <2>7, <3>1, <3>2 DEF AtRequest
    <2>15. Len(Unread') = Len(Unread) - 0 /\ \A j \in 1..Len(Unread') : Unread'[j] = Unread[0 + j]
        BY <2>11, <2>12 DEF v
    <2> QED
        BY <1>1, <2>2, <2>13, <2>14, <2>15, Advance
<1> QED
    BY <1>2, <1>3 DEF ReadHead, Close

\* The head that ends first is the whole head of the next request.
LEMMA HeadFound ==
    ASSUME ShapeInv, kind = "doh", HeadEnds # {},
           NEW start \in Starts, Laid(kind, Unread, sent, whole, start),
           NEW cur \in 1..(Len(sent) + 1), start[cur] = 0
    PROVE  /\ cur \in 1..Len(sent) /\ HeadEnd = Header(kind, sent[cur])
           /\ HeadEnd \in 1..Len(conn.pending)
           /\ conn.pending[HeadEnd][1] = cur
           /\ SubSeq(conn.pending, 1, HeadEnd) = HttpHead(sent[cur], cur)
<1> DEFINE p == conn.pending
           e == HeadEnd
           r == sent[cur]
           h == Header(kind, r)
           a == Len(p)
<1>1. /\ e \in 1..a /\ p[e][2] = "e"
      /\ \A j \in 1..a : p[j][2] = "e" => e <= j
    BY HeadEndIsFirst DEF ShapeInv, ConnOK
<1>2. /\ p \in Seq(Unit) /\ a \in Nat /\ Len(wire) \in Nat /\ Len(Unread) = a + Len(wire)
      /\ \A j \in 1..a : Unread[j] = p[j]
    BY StreamAt
<1>3. cur \in 1..Len(sent) /\ cur \in Nat
    <2>1. Len(Unread) >= 1
        BY <1>1, <1>2, SMTT(30)
    <2> QED
        BY <2>1, NotPastEnd, SMTT(30)
<1>4. /\ r \in Request /\ h = r.head + 1 /\ r.head \in Nat /\ r.len \in Nat
      /\ Size(kind, r) = h + r.len
    <2>1. r \in Request
        BY <1>3, StreamAt
    <2> QED
        BY <2>1, SizeShape DEF Header
<1>5. ASSUME NEW j \in 1..h, j <= a
      PROVE  p[j] = UnitAt(kind, r, cur, j)
    <2>1. j \in 1..Size(kind, r) /\ start[cur] + j = j /\ j \in 1..Len(Unread) /\ j \in 1..a
        BY <1>2, <1>4, <1>5, SMTT(30)
    <2>2. Unread[start[cur] + j] = UnitAt(kind, r, cur, j)
        BY <1>3, <2>1, StreamAt
    <2> QED
        BY <1>2, <2>1, <2>2
<1> HIDE DEF p, e, h, a, r
<1>6. UnitAt(kind, r, cur, h) = <<cur, "e">>
    BY <1>4, SMTT(30) DEF UnitAt, h
<1>7. \A j \in 1..h : j # h => UnitAt(kind, r, cur, j) = <<cur, "h">>
    BY <1>4, SMTT(30) DEF UnitAt, h
<1>8. e = h
    <2>1. ~(e < h)
        <3> SUFFICES ASSUME e < h
                     PROVE  FALSE
            OBVIOUS
        <3>1. e \in 1..h /\ e <= a /\ e # h
            BY <1>1, <1>2, <1>4, SMTT(30)
        <3>2. p[e] = <<cur, "h">>
            BY <1>5, <1>7, <3>1
        <3>3. p[e][2] = "h"
            BY <3>2, SMTT(30)
        <3> QED
            BY <1>1, <3>3
    <2>2. e <= h
        <3>1. h \in 1..h /\ h <= a /\ h \in 1..a
            BY <1>1, <1>2, <1>4, <2>1, SMTT(30)
        <3>2. p[h] = <<cur, "e">>
            BY <1>5, <1>6, <3>1
        <3>3. p[h][2] = "e"
            BY <3>2, SMTT(30)
        <3> QED
            BY <1>1, <3>1, <3>3
    <2> QED
        BY <1>1, <1>2, <1>4, <2>1, <2>2, SMTT(30)
<1>9. p[e] = <<cur, "e">> /\ p[e][1] = cur
    <2>1. h \in 1..h /\ h <= a
        BY <1>1, <1>2, <1>4, <1>8, SMTT(30)
    <2> QED
        BY <1>5, <1>6, <1>8, <2>1, SMTT(30)
<1> DEFINE g == SubSeq(p, 1, h)
           x == HttpHead(r, cur)
<1>10. g \in Seq(Unit) /\ Len(g) = h /\ \A j \in 1..h : g[j] = p[j]
    <2>1. 1 \in Nat \ {0} /\ h \in Nat /\ h <= Len(p) /\ 1 <= h
        BY <1>1, <1>2, <1>4, <1>8, SMTT(30) DEF a
    <2>2. /\ g \in Seq(Unit) /\ Len(g) = IF 1 <= h THEN h - 1 + 1 ELSE 0
          /\ \A j \in 1..(h - 1 + 1) : g[j] = p[1 + j - 1]
        BY <1>2, <2>1, Slice
    <2>3. \A j \in 1..h : j \in 1..(h - 1 + 1) /\ 1 + j - 1 = j
        BY <2>1, SMTT(30)
    <2>4. Len(g) = h
        BY <2>1, <2>2, SMTT(30)
    <2> HIDE DEF g
    <2> QED
        BY <2>2, <2>3, <2>4
<1>11. x \in Seq(Unit) /\ Len(x) = h /\ \A j \in 1..h : x[j] = UnitAt(kind, r, cur, j)
    <2> DEFINE s == Repeat(<<cur, "h">>, r.head)
               l == <<<<cur, "e">>>>
               m == r.head
    <2>1. <<cur, "h">> \in Unit /\ <<cur, "e">> \in Unit
        BY <1>3 DEF Unit
    <2>2. s \in Seq(Unit) /\ Len(s) = m /\ \A j \in 1..m : s[j] = <<cur, "h">>
        BY <1>4, <2>1, RepeatUnits
    <2>3. l \in Seq(Unit) /\ Len(l) = 1 /\ l[1] = <<cur, "e">>
        BY <2>1, SMTT(30)
    <2>4. x = s \o l
        BY DEF HttpHead
    <2>5. m \in Nat /\ h = m + 1
        BY <1>4
    <2> HIDE DEF s, l, m, x
    <2>6. /\ x \in Seq(Unit) /\ Len(x) = Len(s) + Len(l)
          /\ \A j \in 1..Len(s) : x[j] = s[j]
          /\ \A j \in 1..Len(l) : x[Len(s) + j] = l[j]
        BY <2>2, <2>3, <2>4, Behind, SMTT(30)
    <2>7. ASSUME NEW j \in 1..h
          PROVE  x[j] = UnitAt(kind, r, cur, j)
        <3>1. CASE j = h
            <4>1. Len(s) + 1 = j /\ 1 \in 1..Len(l)
                BY <2>2, <2>3, <2>5, <3>1, SMTT(30)
            <4> QED
                BY <1>6, <2>3, <2>6, <3>1, <4>1
        <3>2. CASE j # h
            <4>1. j \in 1..m
                BY <2>5, <3>2, SMTT(30)
            <4> QED
                BY <1>7, <2>2, <2>6, <3>2, <4>1
        <3> QED
            BY <3>1, <3>2
    <2>8. Len(x) = h
        BY <2>2, <2>3, <2>5, <2>6
    <2> QED
        BY <2>6, <2>7, <2>8
<1> HIDE DEF g, x
<1>12. g = x
    <2>1. \A j \in 1..Len(g) : g[j] = x[j]
        <3> SUFFICES ASSUME NEW j \in 1..h
                     PROVE  g[j] = x[j]
            BY <1>10
        <3>1. j <= a
            BY <1>1, <1>2, <1>4, <1>8, SMTT(30)
        <3> QED
            BY <1>5, <1>10, <1>11, <3>1
    <2> QED
        BY <1>10, <1>11, <2>1, SameUnits
<1> QED
    BY <1>1, <1>3, <1>8, <1>9, <1>12 DEF p, e, h, a, r, g, x

\* StartRequest on the head of request cur: it goes on with all of its body, or refuses it.
Started(cur) ==
    LET r == sent[cur]
        seed == Leftover(conn.pending, HeadEnd)
        s == Split(seed, r.len)
    IN  \/ /\ Refusal(r) = 0
           /\ conn'.pc = IF Len(seed) >= r.len THEN "handle" ELSE "body"
           /\ conn'.id = cur /\ conn'.close = LastRequest(r) /\ conn'.count = conn.count
           /\ conn'.pending = s.pending /\ conn'.body = s.body
           /\ UNCHANGED <<done, out>>
        \/ /\ Refusal(r) > 0
           /\ conn' = Closed
           /\ done' = done \union {cur}
           /\ IF Refusal(r) > 1 THEN Reply(cur, Refusal(r), <<>>, TRUE) ELSE UNCHANGED out

\* HTTP/1.1: the request that is started is the next one, whole.
LEMMA StartFound ==
    ASSUME ShapeInv, StartRequest, NEW cur \in 1..Len(sent),
           conn.pending[HeadEnd][1] = cur, HeadEnd \in 1..Len(conn.pending),
           SubSeq(conn.pending, 1, HeadEnd) = HttpHead(sent[cur], cur)
    PROVE  Started(cur)
<1> DEFINE r == sent[cur]
           seed == Leftover(conn.pending, HeadEnd)
           len == IF r.method = "POST" THEN r.len ELSE 0
           s == Split(seed, len)
           new == [conn EXCEPT !.id = cur, !.close = LastRequest(r),
                               !.pending = s.pending, !.body = s.body]
<1>1. \/ /\ Refusal(r) = 0
         /\ conn' = [new EXCEPT !.pc = IF Len(seed) >= len THEN "handle" ELSE "body"]
         /\ UNCHANGED <<done, out>>
      \/ /\ Refusal(r) > 0
         /\ conn' = Closed
         /\ done' = done \union {cur}
         /\ IF Refusal(r) > 1 THEN Reply(cur, Refusal(r), <<>>, TRUE) ELSE UNCHANGED out
    <2> DEFINE F(id) ==
               LET x == sent[id]
                   y == Leftover(conn.pending, HeadEnd)
                   z == IF SubSeq(conn.pending, 1, HeadEnd) = HttpHead(x, id) THEN Refusal(x) ELSE 1
                   l == IF x.method = "POST" THEN x.len ELSE 0
                   w == Split(y, l)
                   c == [conn EXCEPT !.id = id, !.close = LastRequest(x),
                                     !.pending = w.pending, !.body = w.body]
               IN  \/ /\ z = 0
                      /\ conn' = [c EXCEPT !.pc = IF Len(y) >= l THEN "handle" ELSE "body"]
                      /\ UNCHANGED <<done, out>>
                   \/ /\ z > 0
                      /\ Close
                      /\ done' = done \union {id}
                      /\ IF z > 1 THEN Reply(id, z, <<>>, TRUE) ELSE UNCHANGED out
    <2>1. F(conn.pending[HeadEnd][1])
        BY DEF StartRequest, HeadEnd
    <2> HIDE DEF F
    <2>2. F(cur)
        BY <2>1
    <2> QED
        BY <2>2 DEF F, Close
<1>2. conn \in Connection
    BY DEF ShapeInv, ConnOK
<1>3. Refusal(r) = 0 => len = r.len
    <2> SUFFICES ASSUME Refusal(r) = 0
                 PROVE  len = r.len
        OBVIOUS
    <2>1. r.method = "GET" \/ r.method = "POST"
        BY SMTT(30) DEF Refusal
    <2>2. r.method = "GET" => r.len = 0
        BY DEF ShapeInv, ClientOK
    <2> QED
        BY <2>1, <2>2
<1>4. CASE Refusal(r) = 0 /\ conn' = [new EXCEPT !.pc = IF Len(seed) >= len THEN "handle" ELSE "body"]
    <2>1. /\ conn'.pc = IF Len(seed) >= len THEN "handle" ELSE "body"
          /\ conn'.id = cur /\ conn'.close = LastRequest(r) /\ conn'.count = conn.count
          /\ conn'.pending = s.pending /\ conn'.body = s.body
        <3> HIDE DEF r, seed, len, s
        <3> QED
            BY <1>2, <1>4 DEF Connection
    <2>2. len = r.len
        BY <1>3, <1>4
    <2>3. UNCHANGED <<done, out>>
        <3>1. ~(Refusal(r) > 0)
            BY <1>4, SMTT(30)
        <3> QED
            BY <1>1, <3>1
    <2>4. s = Split(seed, r.len)
        BY <2>2
    <2> HIDE DEF len, s, seed
    <2>5. /\ Refusal(r) = 0
          /\ conn'.pc = IF Len(seed) >= r.len THEN "handle" ELSE "body"
          /\ conn'.id = cur /\ conn'.close = LastRequest(r) /\ conn'.count = conn.count
          /\ conn'.pending = Split(seed, r.len).pending /\ conn'.body = Split(seed, r.len).body
          /\ UNCHANGED <<done, out>>
        BY <1>4, <2>1, <2>2, <2>3, <2>4
    <2> QED
        BY <2>5 DEF Started, seed
<1>5. CASE /\ Refusal(r) > 0
           /\ conn' = Closed
           /\ done' = done \union {cur}
           /\ IF Refusal(r) > 1 THEN Reply(cur, Refusal(r), <<>>, TRUE) ELSE UNCHANGED out
    BY <1>5 DEF Started
<1> QED
    BY <1>1, <1>4, <1>5

\* HTTP/1.1: over-read units of the body are taken for it, and those behind it kept.
LEMMA StreamStart ==
    ASSUME ShapeInv, ShapeInv', StreamInv, StartRequest
    PROVE  /\ StreamInv'
           /\ \E cur \in 1..Len(sent) : Started(cur) /\ \A k \in 1..Len(out) : out[k].id < cur
<1>1. /\ kind = "doh" /\ conn.pc = "head" /\ conn \in Connection /\ HeadEnds # {}
      /\ UNCHANGED <<kind, sent, whole, wire>>
    BY DEF StartRequest, ShapeInv, ConnOK, Server, client
<1>2. PICK cur \in 1..(Len(sent) + 1) : \E start \in Starts :
         Laid(kind, Unread, sent, whole, start) /\ AtRequest(cur, start)
    BY <1>1 DEF StreamInv, Serial
<1>3. PICK start \in Starts : Laid(kind, Unread, sent, whole, start) /\ AtRequest(cur, start)
    BY <1>2
<1>4. start[cur] = 0 /\ \A k \in 1..Len(out) : out[k].id < cur
    BY <1>1, <1>3 DEF AtRequest
<1>5. /\ cur \in 1..Len(sent) /\ HeadEnd = Header(kind, sent[cur])
      /\ HeadEnd \in 1..Len(conn.pending)
      /\ conn.pending[HeadEnd][1] = cur
      /\ SubSeq(conn.pending, 1, HeadEnd) = HttpHead(sent[cur], cur)
    BY <1>1, <1>3, <1>4, HeadFound
<1>6. Started(cur)
    BY <1>5, StartFound
<1>7. StreamInv'
    <2>1. CASE conn' = Closed
        BY <1>1, <2>1, ClosedShape DEF StreamInv
    <2> DEFINE p == conn.pending
               e == HeadEnd
               r == sent[cur]
               b == r.len
               seed == Leftover(p, e)
               s == Split(seed, b)
               a == Len(p)
               q == Len(wire)
    <2>2. CASE /\ conn'.pc = IF Len(seed) >= b THEN "handle" ELSE "body"
               /\ conn'.id = cur
               /\ conn'.pending = s.pending /\ conn'.body = s.body
               /\ UNCHANGED out
        <3>1. /\ p \in Seq(Unit) /\ a \in Nat /\ q \in Nat /\ wire \in Seq(Unit)
              /\ Len(Unread) = a + q
              /\ \A j \in 1..a : Unread[j] = p[j]
              /\ \A j \in 1..q : Unread[a + j] = wire[j]
            BY <1>3, StreamAt
        <3>2. /\ r \in Request /\ b \in Nat /\ Header(kind, r) = e /\ e \in 1..a /\ e \in Nat
              /\ Size(kind, r) = e + b /\ cur \in Nat
            <4>1. r \in Request
                BY <1>3, <1>5, StreamAt
            <4> QED
                BY <1>5, <3>1, <4>1, SizeShape, SMTT(30)
        <3>3. seed \in Seq(Unit) /\ Len(seed) = a - e /\ \A j \in 1..(a - e) : seed[j] = p[e + j]
            BY <1>5, <3>1, LeftoverShape
        <3>4. ASSUME NEW j \in 1..b, j <= a - e
              PROVE  seed[j] = <<cur, "b">>
            <4>1. /\ e + j \in 1..Size(kind, r) /\ start[cur] + (e + j) = e + j /\ e + j \in 1..Len(Unread)
                  /\ e + j \in 1..a /\ j \in 1..(a - e) /\ e + j > e
                BY <1>4, <3>1, <3>2, <3>4, SMTT(30)
            <4>2. Unread[start[cur] + (e + j)] = UnitAt(kind, r, cur, e + j)
                BY <1>3, <1>5, <4>1, StreamAt
            <4>3. UnitAt(kind, r, cur, e + j) = <<cur, "b">>
                BY <3>2, <4>1 DEF UnitAt
            <4> QED
                BY <3>1, <3>3, <4>1, <4>2, <4>3
        <3>5. cur \in 1..(Len(sent) + 1) /\ cur + 1 \in 1..(Len(sent) + 1)
              /\ start[cur + 1] = e + b
            <4>1. Len(sent) \in Nat /\ start[cur + 1] = start[cur] + Size(kind, r)
                BY <1>3, <1>5, StreamAt
            <4>2. cur + 1 \in 1..(Len(sent) + 1)
                BY <1>5, <3>2, <4>1, SMTT(30)
            <4>3. start[cur + 1] = 0 + (e + b)
                BY <1>4, <3>2, <4>1
            <4> QED
                BY <3>2, <4>2, <4>3, SMTT(30)
        <3> HIDE DEF r, b, a, q, e
        <3>6. CASE Len(seed) >= b
            <4>1. /\ s.body \in Seq(Unit) /\ Len(s.body) = b /\ s.pending \in Seq(Unit)
                  /\ \A j \in 1..b : s.body[j] = seed[j]
                  /\ Len(s.pending) = Len(seed) - b
                  /\ \A j \in 1..(Len(seed) - b) : s.pending[j] = seed[b + j]
                BY <3>2, <3>3, <3>6, SplitShape
            <4> HIDE DEF s, seed
            <4>2. b <= a - e
                BY <3>3, <3>6
            <4>3. \A j \in 1..Len(s.body) : s.body[j] = <<cur, "b">>
                <5>1. \A j \in 1..b : j <= a - e
                    BY <3>1, <3>2, <4>2, SMTT(30)
                <5> QED
                    BY <3>4, <4>1, <5>1
            <4>4. s.body = Body(r, cur)
                BY <3>2, <4>1, <4>3, BodyUnits DEF b
            <4>5. PICK n \in Nat : n = e + b
                BY <3>2, SMTT(30)
            <4>6. PICK t : t = Shifted(start, n)
                OBVIOUS
            <4>7. t[cur + 1] = 0
                BY <3>2, <3>5, <4>5, <4>6, ShiftedBy, SMTT(30)
            <4>8. AtRequest(cur, t)'
                <5>1. conn'.pc = "handle" /\ conn'.id = cur /\ conn'.body = Body(sent[cur], cur)
                    BY <2>2, <3>6, <4>4 DEF r
                <5> QED
                    BY <1>1, <1>4, <2>2, <4>7, <5>1 DEF AtRequest
            <4> DEFINE d == conn'.pending
                       v == Unread'
            <4>9. d \in Seq(Unit) /\ Len(d) = a - n /\ \A j \in 1..(a - n) : d[j] = p[n + j]
                <5>1. Len(seed) - b = a - n
                    BY <3>1, <3>2, <3>3, <4>5, SMTT(30)
                <5>2. ASSUME NEW j \in 1..(a - n)
                      PROVE  d[j] = p[n + j]
                    <6>1. b + j \in 1..(a - e) /\ e + (b + j) = n + j
                        BY <3>1, <3>2, <4>5, SMTT(30)
                    <6>2. d[j] = seed[b + j]
                        BY <2>2, <4>1, <5>1
                    <6> QED
                        BY <3>3, <6>1, <6>2
                <5> QED
                    BY <2>2, <4>1, <5>1, <5>2
            <4>10. /\ Len(v) = (a - n) + q
                   /\ \A j \in 1..(a - n) : v[j] = d[j]
                   /\ \A j \in 1..q : v[(a - n) + j] = wire[j]
                <5>1. v = d \o wire
                    BY <1>1 DEF Unread
                <5> HIDE DEF d, v
                <5>2. /\ Len(v) = Len(d) + Len(wire)
                      /\ \A j \in 1..Len(d) : v[j] = d[j]
                      /\ \A j \in 1..Len(wire) : v[Len(d) + j] = wire[j]
                    BY <3>1, <4>9, <5>1, Behind
                <5> QED
                    BY <4>9, <5>2 DEF q
            <4> HIDE DEF d, v, p
            <4>11. Len(v) = Len(Unread) - n
                BY <3>1, <4>5, <4>10, SMTT(30)
            <4>12. ASSUME NEW j \in 1..Len(v)
                   PROVE  v[j] = Unread[n + j]
                <5>1. CASE j <= a - n
                    <6>1. j \in 1..(a - n) /\ n + j \in 1..a
                        BY <3>1, <4>10, <4>5, <5>1, SMTT(30)
                    <6> QED
                        BY <3>1, <4>9, <4>10, <6>1
                <5>2. CASE j > a - n
                    <6>1. /\ j - (a - n) \in 1..q /\ (a - n) + (j - (a - n)) = j
                          /\ a + (j - (a - n)) = n + j
                        <7>1. j \in Int /\ j <= (a - n) + q /\ a \in Int /\ n \in Int /\ q \in Int
                            BY <3>1, <4>10, SMTT(30)
                        <7> QED
                            BY <5>2, <7>1, SMTT(30)
                    <6> QED
                        BY <3>1, <4>10, <6>1
                <5> QED
                    BY <3>1, <4>5, <4>10, <5>1, <5>2, SMTT(30)
            <4>13. Len(Unread') = Len(Unread) - n /\ \A j \in 1..Len(Unread') : Unread'[j] = Unread[n + j]
                BY <4>11, <4>12 DEF v
            <4> QED
                BY <1>1, <1>3, <4>6, <4>8, <4>13, Advance
        <3>7. CASE Len(seed) < b
            <4>1. s.body = seed /\ s.pending = <<>>
                BY <3>2, <3>3, <3>7, SplitShape
            <4> HIDE DEF s, seed
            <4>2. conn'.pc = "body" /\ conn'.id = cur /\ conn'.body = seed /\ conn'.pending = <<>>
                BY <2>2, <3>2, <3>3, <3>7, <4>1, SMTT(30)
            <4>3. Unread' = wire
                BY <1>1, <3>1, <4>2, SMTT(30) DEF Unread
            <4>4. PICK n \in Nat : n = a
                BY <3>1
            <4>5. PICK t : t = Shifted(start, n)
                OBVIOUS
            <4>6. t[cur] = 0 - (e + Len(seed))
                <5>1. t[cur] = 0 - n
                    BY <1>4, <3>5, <4>5, ShiftedBy
                <5> QED
                    BY <3>1, <3>2, <3>3, <4>4, <5>1, SMTT(30)
            <4>7. AtRequest(cur, t)'
                <5>1. \A j \in 1..Len(seed) : seed[j] = <<cur, "b">>
                    <6>1. \A j \in 1..Len(seed) : j \in 1..b /\ j <= a - e
                        BY <3>1, <3>2, <3>3, <3>7, SMTT(30)
                    <6> QED
                        BY <3>4, <6>1
                <5>2. Header(kind, sent[cur]) = e /\ Len(seed) < sent[cur].len
                    BY <3>2, <3>7 DEF r, b
                <5> QED
                    BY <1>1, <1>4, <2>2, <4>2, <4>6, <5>1, <5>2 DEF AtRequest
            <4>8. Len(Unread') = Len(Unread) - n /\ \A j \in 1..Len(Unread') : Unread'[j] = Unread[n + j]
                <5>1. Len(Unread') = q
                    BY <4>3 DEF q
                <5> QED
                    BY <3>1, <4>3, <4>4, <5>1, SMTT(30)
            <4> QED
                BY <1>1, <1>3, <4>5, <4>7, <4>8, Advance
        <3> QED
            BY <3>2, <3>3, <3>6, <3>7, SMTT(30)
    <2> QED
        BY <1>6, <2>1, <2>2 DEF Started
<1> QED
    BY <1>4, <1>5, <1>6, <1>7

\* HTTP/1.1: the rest of a body is read from the wire, and nothing behind it.
LEMMA StreamReadBody ==
    ASSUME ShapeInv, ShapeInv', StreamInv, ReadBody
    PROVE  StreamInv'
<1>1. /\ kind = "doh" /\ conn.pc = "body" /\ conn \in Connection
      /\ conn.pending = <<>> /\ Len(conn.pending) = 0 /\ conn.id \in 1..Len(sent)
      /\ UNCHANGED <<kind, sent, whole, out>> /\ conn' \in Connection
    BY DEF ReadBody, ShapeInv, ConnOK, PlaceInv, Server, client
<1>2. CASE conn' = Closed
    BY <1>1, <1>2, ClosedShape DEF StreamInv
<1> DEFINE missing == sent[conn.id].len - Len(conn.body)
<1>3. CASE \E n \in 1..missing :
              /\ n <= Len(wire)
              /\ conn' = [conn EXCEPT !.body = @ \o SubSeq(wire, 1, n),
                                      !.pc = IF n = missing THEN "handle" ELSE "body"]
              /\ wire' = SubSeq(wire, n + 1, Len(wire))
    <2>1. PICK cur \in 1..(Len(sent) + 1) : \E start \in Starts :
             Laid(kind, Unread, sent, whole, start) /\ AtRequest(cur, start)
        BY <1>1 DEF StreamInv, Serial
    <2>2. PICK start \in Starts : Laid(kind, Unread, sent, whole, start) /\ AtRequest(cur, start)
        BY <2>1
    <2> DEFINE r == sent[cur]
               h == Header(kind, r)
               m == Len(conn.body)
               len == r.len
               q == Len(wire)
    <2>3. /\ cur = conn.id /\ start[cur] = 0 - (h + m) /\ m < len
          /\ \A j \in 1..m : conn.body[j] = <<cur, "b">>
          /\ \A k \in 1..Len(out) : out[k].id < cur
        BY <1>1, <2>2 DEF AtRequest
    <2>4. /\ q \in Nat /\ Len(Unread) = q /\ WireOK /\ wire \in Seq(Unit)
          /\ \A j \in 1..q : Unread[j] = wire[j]
        <3>1. /\ Len(wire) \in Nat /\ Len(Unread) = Len(conn.pending) + Len(wire)
              /\ \A j \in 1..Len(wire) : Unread[Len(conn.pending) + j] = wire[j]
            BY <2>2, StreamAt
        <3>2. \A j \in 1..Len(wire) : Len(conn.pending) + j = j
            BY <1>1, <3>1, SMTT(30)
        <3> QED
            BY <1>1, <3>1, <3>2, SMTT(30) DEF ShapeInv, WireOK
    <2>5. cur \in 1..Len(sent) /\ cur \in Nat
        BY <1>1, <2>3, SMTT(30)
    <2>6. /\ r \in Request /\ h \in Nat /\ len \in Nat /\ Size(kind, r) = h + len
          /\ conn.body \in Seq(Unit) /\ m \in Nat
        <3>1. r \in Request
            BY <2>2, <2>5, StreamAt
        <3>2. conn.body \in Seq(Unit) /\ m \in Nat
            BY <1>1, SMTT(30) DEF Connection
        <3> QED
            BY <3>1, <3>2, SizeShape
    <2>7. PICK n \in 1..missing :
              /\ n <= Len(wire)
              /\ conn' = [conn EXCEPT !.body = @ \o SubSeq(wire, 1, n),
                                      !.pc = IF n = missing THEN "handle" ELSE "body"]
              /\ wire' = SubSeq(wire, n + 1, Len(wire))
        BY <1>3
    <2>8. missing = len - m /\ n \in Nat /\ n >= 1 /\ n <= len - m /\ n <= q
        BY <2>3, <2>6, <2>7, SMTT(30)
    <2> DEFINE g == SubSeq(wire, 1, n)
               d == conn'.body
    <2>9. /\ d = conn.body \o g /\ conn'.pc = IF n = missing THEN "handle" ELSE "body"
          /\ conn'.id = cur /\ conn'.pending = <<>>
        BY <1>1, <2>3, <2>7 DEF Connection
    <2>10. g \in Seq(Unit) /\ Len(g) = n /\ \A j \in 1..n : g[j] = wire[j]
        BY <2>4, <2>8, WireFirst
    <2>11. /\ wire' \in Seq(Unit) /\ Len(wire') = q - n
           /\ \A j \in 1..(q - n) : wire'[j] = wire[n + j]
        BY <1>1, <2>4, <2>7, <2>8, WireRest DEF WireOK
    <2>12. ASSUME NEW j \in 1..n
           PROVE  wire[j] = <<cur, "b">>
        <3>1. /\ (h + m) + j \in 1..Size(kind, r) /\ start[cur] + ((h + m) + j) = j
              /\ j \in 1..q /\ (h + m) + j > h
            <4> HIDE DEF h, m, len, q, r
            <4> QED
                BY <2>3, <2>4, <2>6, <2>8, SMTT(30)
        <3>2. Unread[start[cur] + ((h + m) + j)] = UnitAt(kind, r, cur, (h + m) + j)
            BY <2>2, <2>4, <2>5, <3>1, StreamAt
        <3>3. UnitAt(kind, r, cur, (h + m) + j) = <<cur, "b">>
            BY <3>1 DEF UnitAt
        <3> QED
            BY <2>4, <3>1, <3>2, <3>3
    <2> HIDE DEF g, d, h, len, q, r, missing
    <2>13. d \in Seq(Unit) /\ Len(d) = m + n /\ \A j \in 1..(m + n) : d[j] = <<cur, "b">>
        <3>1. /\ d \in Seq(Unit) /\ Len(d) = Len(conn.body) + Len(g)
              /\ \A j \in 1..Len(conn.body) : d[j] = conn.body[j]
              /\ \A j \in 1..Len(g) : d[Len(conn.body) + j] = g[j]
            BY <2>6, <2>9, <2>10, Behind
        <3>2. ASSUME NEW j \in 1..(m + n)
              PROVE  d[j] = <<cur, "b">>
            <4>1. CASE j \in 1..m
                BY <2>3, <3>1, <4>1
            <4>2. CASE j > m
                <5>1. j - m \in 1..n /\ m + (j - m) = j
                    BY <2>6, <2>8, <4>2, SMTT(30)
                <5>2. d[j] = g[j - m]
                    BY <2>10, <3>1, <5>1
                <5> QED
                    BY <2>10, <2>12, <5>1, <5>2
            <4> QED
                BY <2>6, <4>1, <4>2, SMTT(30)
        <3> QED
            BY <2>10, <3>1, <3>2
    <2> HIDE DEF m
    <2>14. Len(Unread') = Len(Unread) - n /\ \A j \in 1..Len(Unread') : Unread'[j] = Unread[n + j]
        <3>1. Unread' = wire'
            BY <2>9, <2>11, SMTT(30) DEF Unread
        <3>2. \A j \in 1..(q - n) : n + j \in 1..q
            BY <2>4, <2>8, SMTT(30)
        <3> QED
            BY <2>4, <2>11, <3>1, <3>2
    <2>15. PICK t : t = Shifted(start, n)
        OBVIOUS
    <2>16. AtRequest(cur, t)'
        <3>1. t[cur] = start[cur] - n
            BY <2>8, <2>15, ShiftedBy
        <3>2. CASE n = missing
            <4>1. conn'.pc = "handle" /\ m + n = len
                BY <2>6, <2>8, <2>9, <3>2, SMTT(30)
            <4>2. Len(d) = sent[cur].len /\ \A j \in 1..Len(d) : d[j] = <<cur, "b">>
                BY <2>13, <4>1 DEF len, r
            <4>3. d = Body(sent[cur], cur)
                BY <2>5, <2>6, <2>13, <4>2, BodyUnits DEF r
            <4>4. t[cur + 1] = 0
                <5>1. Len(sent) \in Nat /\ start[cur + 1] = start[cur] + Size(kind, r)
                    BY <2>2, <2>5, StreamAt DEF r
                <5>2. cur + 1 \in 1..(Len(sent) + 1)
                    BY <2>5, <5>1, SMTT(30)
                <5>3. t[cur + 1] = start[cur + 1] - n
                    BY <2>8, <2>15, <5>2, ShiftedBy
                <5>4. start[cur + 1] = (0 - (h + m)) + (h + len)
                    BY <2>3, <2>6, <5>1 DEF h, m, r, len
                <5> QED
                    BY <2>6, <2>8, <4>1, <5>3, <5>4, SMTT(30)
            <4> QED
                BY <1>1, <2>3, <2>9, <4>1, <4>3, <4>4 DEF AtRequest, d
        <3>3. CASE n # missing
            <4>1. conn'.pc = "body" /\ m + n < len
                BY <2>6, <2>8, <2>9, <3>3, SMTT(30)
            <4>2. t[cur] = 0 - (h + (m + n))
                <5>1. start[cur] = 0 - (h + m)
                    BY <2>3 DEF h, m, r
                <5> QED
                    BY <2>6, <2>8, <3>1, <5>1, SMTT(30)
            <4>3. /\ t[cur] = 0 - (Header(kind, sent[cur]) + Len(conn'.body))
                  /\ Len(conn'.body) < sent[cur].len
                  /\ \A j \in 1..Len(conn'.body) : conn'.body[j] = <<cur, "b">>
                BY <2>13, <4>1, <4>2 DEF d, h, len, r
            <4> QED
                BY <1>1, <2>3, <2>9, <4>1, <4>3 DEF AtRequest
        <3> QED
            BY <3>2, <3>3
    <2> QED
        BY <1>1, <2>2, <2>8, <2>14, <2>15, <2>16, Advance
<1> QED
    BY <1>2, <1>3 DEF ReadBody, Close

\* Every step of a serial connection.
LEMMA StreamStep ==
    ASSUME ShapeInv, ShapeInv', StreamInv, [Next]_vars
    PROVE  StreamInv'
<1>0. CASE kind \notin Serial
    BY <1>0, KindKept DEF StreamInv
<1>1. CASE kind \in Serial /\ ListenerNext
    <2>0. kind \notin {"h2", "udp"}
        BY <1>1 DEF Serial
    <2>1. CASE Send
        BY <1>1, <2>1, StreamSend
    <2>2. CASE Hangup \/ Reload \/ BecomeReady
        <3>1. UNCHANGED <<kind, sent, whole, wire, conn, out>>
            BY <2>2 DEF Hangup, Reload, BecomeReady, client
        <3> QED
            BY <3>1, StreamKept
    <2>3. CASE HandshakeEnds \/ HeadTimeout
        <3>1. conn' = Closed /\ conn \in Connection
            BY <2>3 DEF HandshakeEnds, HeadTimeout, Close, ShapeInv, ConnOK
        <3> QED
            BY <3>1, ClosedShape DEF StreamInv
    <2> QED
        BY <1>1, <2>0, <2>1, <2>2, <2>3, StreamAccept, StreamReadFramed, StreamReadMessage,
           StreamHandled, StreamReadHead, StreamStart, StreamReadBody
           DEF ListenerNext, ServerNext, AcceptStream, ReadStream, HandledStream, EndStreams,
               Wake, SocketError, Drain, HandledDatagram
<1>2. CASE HostGone
    <2>1. conn' = Closed /\ conn \in Connection
        BY <1>2 DEF HostGone, ShapeInv, ConnOK
    <2> QED
        BY <2>1, ClosedShape DEF StreamInv
<1>3. CASE UNCHANGED listenerVars
    <2>1. UNCHANGED <<kind, sent, whole, wire, conn, out>>
        BY <1>3 DEF listenerVars, client
    <2> QED
        BY <2>1, StreamKept
<1> QED
    BY <1>0, <1>1, <1>2, <1>3, Steps

\* What a serial connection has read is always in step with what was sent.
THEOREM ConnectionsInStep == Spec => [](ShapeInv /\ StreamInv)
<1>1. Init => StreamInv
    <2> SUFFICES ASSUME Init
                 PROVE  conn.pc \notin {"head", "body", "handle"}
        BY DEF StreamInv
    <2>1. conn.pc = IF kind = "udp" THEN "parked" ELSE "new"
        BY DEF Init, ListenerInit, Fresh
    <2> QED
        BY <2>1
<1>2. ShapeInv /\ ShapeInv' /\ StreamInv /\ [Next]_vars => StreamInv'
    BY StreamStep
<1> QED
    BY <1>1, <1>2, ListenerShape, PTL DEF Spec
===========================================================================
