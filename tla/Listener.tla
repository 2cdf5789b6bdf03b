---- MODULE Listener ----
(***************************************************************************)
(* The listeners (io/udp.rs, tcp.rs, dot.rs, doh.rs): one client of one    *)
(* listener and the requests it sends.  kind is the protocol that serves   *)
(* them; "doh" is HTTP/1.1 and "h2" HTTP/2 over the DoH listener.          *)
(*                                                                         *)
(* A request is a record of what the code looks at, and travels as units   *)
(* <<id, part>>: parts "h" and "e" of an HTTP head (the end is the blank   *)
(* line), two parts "l" of a DNS length prefix, parts "b" of a body.  A    *)
(* read returns any non-empty prefix of what has arrived.                  *)
(***************************************************************************)
EXTENDS Naturals, FiniteSets, Sequences

CONSTANTS Kinds, Requests(_, _),        \* protocols; the n-th request of a client of one
          Tokens, Gates,                \* DoH paths; values of gate a reload may set
          MaxSends, MaxReloads,         \* bounds on client and operator
          MAX_REQS_PER_CONN, MAX_HEADER, MAX_BODY,
          CHUNK,                        \* most units one read of a head returns
          MAX_STREAMS, MAX_INFLIGHT     \* HTTP/2 streams; UDP tasks

VARIABLES kind,
          gate,        \* what reload swaps: allowed (the ACL lets the client in), token
          ready,       \* the handler's readiness
          reloads,
          sent,        \* the requests sent
          whole,       \* how many of them were sent to the last unit
          wire,        \* units, datagrams or streams under way to the server
          eof,         \* the client is gone
          conn,        \* the connection and its task
          tasks,       \* tasks spawned per datagram or per stream: id -> state
          permits,     \* free permits of the UDP semaphore
          done,        \* requests the server has finished with
          out          \* the responses written

(* A GET has no body: what follows its head is the next request.  dns is   *)
(* what handle_bytes makes of the message: an answer, one too long for the *)
(* transport, or None, because the query does not parse or the rate        *)
(* limiter (RRL) holds the peer back.                                      *)
Request == [method : STRING, head : Nat, valid : BOOLEAN, path : Tokens, good : BOOLEAN,
            sized : BOOLEAN, len : Nat, close : BOOLEAN,
            dns : {"ok", "huge", "malformed", "limited"}]
NoAnswer(r) == r.dns \in {"malformed", "limited"}

ASSUME ListenerAssumption ==
    /\ Kinds \subseteq {"udp", "tcp", "dot", "doh", "h2"}
    /\ \A k \in Kinds, n \in 1..MaxSends :
          /\ Requests(k, n) \subseteq Request
          /\ \A r \in Requests(k, n) : r.method = "GET" => r.len = 0
    /\ MaxSends \in Nat /\ MAX_REQS_PER_CONN \in Nat \ {0}
    /\ MAX_HEADER \in Nat /\ MAX_BODY \in Nat /\ CHUNK \in Nat
    /\ MAX_STREAMS \in Nat /\ MAX_INFLIGHT \in Nat

client == <<sent, whole, eof>>
listenerVars == <<kind, gate, ready, reloads, client, wire, conn, tasks, permits, done, out>>

Serial == {"tcp", "dot", "doh"}
NoTask == [pc |-> "none", body |-> <<>>]
Fresh == [pc |-> "new", pending |-> <<>>, count |-> 0, id |-> 0, body |-> <<>>,
          close |-> FALSE]

ListenerInit ==
    /\ kind \in Kinds
    /\ gate \in Gates
    /\ ready \in BOOLEAN
    /\ reloads = 0
    /\ sent = <<>> /\ whole = 0 /\ eof = FALSE
    /\ wire = <<>>
    /\ conn = [Fresh EXCEPT !.pc = IF kind = "udp" THEN "parked" ELSE "new"]
    /\ tasks = [i \in 1..MaxSends |-> NoTask]
    /\ permits = MAX_INFLIGHT
    /\ done = {}
    /\ out = <<>>

Repeat(x, n) == [i \in 1..n |-> x]
Body(r, id) == Repeat(<<id, "b">>, r.len)
HttpHead(r, id) == Repeat(<<id, "h">>, r.head) \o <<<<id, "e">>>>
Frame(r, id) ==
    CASE kind \in {"tcp", "dot"} -> Repeat(<<id, "l">>, 2) \o Body(r, id)
      [] kind = "doh" -> HttpHead(r, id) \o Body(r, id)
      [] kind = "h2" -> <<<<id, "e">>>> \o Body(r, id) \o <<<<id, "f">>>>
      [] kind = "udp" -> <<<<id, "d">>>>

---------------------------------------------------------------------------
(* The environment. *)

Alive == whole = Len(sent) /\ ~eof /\ conn.pc # "closed"

(* The client sends the next request, or the first units of it and no more.*)
Send ==
    /\ Alive
    /\ Len(sent) < MaxSends
    /\ conn.pc # "new"
    /\ \E r \in Requests(kind, Len(sent) + 1) :
          LET f == Frame(r, Len(sent) + 1)
          IN  \E k \in {Len(f) - 1, Len(f)} \ {0} :
                 /\ sent' = Append(sent, r)
                 /\ whole' = IF k = Len(f) THEN whole + 1 ELSE whole
                 /\ wire' = wire \o SubSeq(f, 1, k)
    /\ UNCHANGED <<kind, gate, ready, reloads, eof, conn, tasks, permits, done, out>>

(* The client closes; what is under way still arrives.                     *)
Hangup ==
    /\ kind # "udp"
    /\ ~eof
    /\ conn.pc \notin {"new", "closed"}
    /\ eof' = TRUE
    /\ UNCHANGED <<kind, gate, ready, reloads, sent, whole, wire, conn, tasks, permits, done, out>>

(* A reload publishes a new allow-list and context.                        *)
Reload ==
    /\ reloads < MaxReloads
    /\ reloads' = reloads + 1
    /\ gate' \in Gates \ {gate}
    /\ conn.pc # "closed"
    /\ UNCHANGED <<kind, ready, client, wire, conn, tasks, permits, done, out>>

BecomeReady ==
    /\ ~ready
    /\ ready' = TRUE
    /\ UNCHANGED <<kind, gate, reloads, client, wire, conn, tasks, permits, done, out>>

---------------------------------------------------------------------------
(* Connections: accept_loop, serve_connection, serve_tls. *)

Server(u) == UNCHANGED <<kind, gate, ready, reloads, client>> /\ u

Reply(id, status, body, close) ==
    out' = Append(out, [id |-> id, status |-> status, body |-> body, close |-> close])

Closed == [conn EXCEPT !.pc = "closed", !.pending = <<>>, !.body = <<>>]
Close == conn' = Closed

(* accept_loop: the stream is dropped unless the ACL admits the peer and   *)
(* the handler is ready.  With TLS the handshake may fail, and for the     *)
(* acme-tls/1 protocol it is all there is.                                 *)
Accept ==
    /\ conn.pc = "new"
    /\ conn' = IF gate.allowed /\ ready
                 THEN [conn EXCEPT !.pc = IF kind = "h2" THEN "streams" ELSE "head",
                                   !.count = 1]
                 ELSE Closed
    /\ Server(UNCHANGED <<wire, tasks, permits, done, out>>)

HandshakeEnds ==
    /\ conn.pc = "new"
    /\ kind \in {"dot", "doh", "h2"}
    /\ gate.allowed /\ ready
    /\ Close
    /\ Server(UNCHANGED <<wire, tasks, permits, done, out>>)

(* read_exact of the length prefix, then of the message; end of stream in  *)
(* either closes.  The ACL is looked at again for every query.             *)
ReadFramed ==
    /\ kind \in {"tcp", "dot"}
    /\ conn.pc = "head"
    /\ LET id == wire[1][1]
           len == sent[id].len
           rest == SubSeq(wire, 3, Len(wire))
       IN  \/ /\ Len(wire) < 2
              /\ eof
              /\ Close
              /\ UNCHANGED <<wire, done>>
           \/ /\ Len(wire) >= 2
              /\ len = 0
              /\ Close
              /\ wire' = rest
              /\ done' = done \union {id}
           \/ /\ Len(wire) >= 2
              /\ len > 0
              /\ conn' = [conn EXCEPT !.pc = "body", !.id = id]
              /\ wire' = rest
              /\ UNCHANGED done
    /\ Server(UNCHANGED <<tasks, permits, out>>)

Consume(len) == SubSeq(wire, len + 1, Len(wire))

ReadMessage ==
    /\ kind \in {"tcp", "dot"}
    /\ conn.pc = "body"
    /\ LET len == sent[conn.id].len
       IN  \/ /\ Len(wire) < len
              /\ eof
              /\ Close
              /\ UNCHANGED <<wire, done>>
           \/ /\ Len(wire) >= len
              /\ wire' = Consume(len)
              /\ IF gate.allowed
                   THEN /\ conn' = [conn EXCEPT !.pc = "handle", !.body = SubSeq(wire, 1, len)]
                        /\ UNCHANGED done
                   ELSE /\ Close
                        /\ done' = done \union {conn.id}
    /\ Server(UNCHANGED <<tasks, permits, out>>)

(* handle_bytes has returned: None is passed over in silence, a response   *)
(* beyond 65535 octets or a failed write closes.                           *)
HandledFramed ==
    /\ kind \in {"tcp", "dot"}
    /\ conn.pc = "handle"
    /\ LET r == sent[conn.id]
           next == [conn EXCEPT !.pc = "head", !.body = <<>>]
       IN  \/ r.dns = "ok" /\ conn' = next /\ Reply(conn.id, 0, conn.body, FALSE)
           \/ NoAnswer(r) /\ conn' = next /\ UNCHANGED out
           \/ (eof \/ r.dns = "huge") /\ Close /\ UNCHANGED out
    /\ done' = done \union {conn.id}
    /\ Server(UNCHANGED <<wire, tasks, permits>>)

---------------------------------------------------------------------------
(* HTTP/1.1: serve_one, handle_request. *)

HeadEnds == {i \in 1..Len(conn.pending) : conn.pending[i][2] = "e"}

(* read_until_double_crlf: what is pending is searched first; then the     *)
(* cap, and another read.  End of stream and the timer both close.         *)
ReadHead ==
    /\ kind = "doh"
    /\ conn.pc = "head"
    /\ HeadEnds = {}
    /\ \/ /\ Len(conn.pending) < MAX_HEADER
          /\ \E n \in 1..CHUNK :
                /\ n <= Len(wire)
                /\ conn' = [conn EXCEPT !.pending = @ \o SubSeq(wire, 1, n)]
                /\ wire' = SubSeq(wire, n + 1, Len(wire))
       \/ /\ \/ Len(conn.pending) >= MAX_HEADER
             \/ wire = <<>> /\ eof
          /\ Close
          /\ UNCHANGED wire
    /\ Server(UNCHANGED <<tasks, permits, done, out>>)

(* REQUEST_READ_TIMEOUT for the first head, KEEP_ALIVE_IDLE_TIMEOUT after. *)
HeadTimeout ==
    /\ kind = "doh"
    /\ conn.pc = "head"
    /\ HeadEnds = {}
    /\ Close
    /\ Server(UNCHANGED <<wire, tasks, permits, done, out>>)

doh_path_authorized(path) == path = gate.token

(* The status with which handle_request refuses a request before reading   *)
(* its body, in the order of its checks; 0 when it goes on, and 1 when it  *)
(* closes without a word (parse_request_head, validate_framing, and a POST *)
(* without a usable Content-Length).                                       *)
Refusal(r) ==
    CASE ~r.valid -> 1
      [] r.valid /\ ~gate.allowed -> 403
      [] r.valid /\ gate.allowed /\ ~doh_path_authorized(r.path) -> 404
      [] OTHER ->
           CASE r.method = "GET" -> IF r.good THEN 0 ELSE 400
             [] r.method = "POST" ->
                  IF ~r.good THEN 415 ELSE IF ~r.sized THEN 1
                  ELSE IF r.len > MAX_BODY THEN 413 ELSE 0
             [] OTHER -> 405

(* Mutant: the over-read of a POST is dropped with its body. *)
Split_Drop(seed, len) ==
    [body |-> IF Len(seed) >= len THEN SubSeq(seed, 1, len) ELSE seed, pending |-> <<>>]

(* What was read past the head.                                            *)
Leftover(pending, end) == SubSeq(pending, end + 1, Len(pending))

(* The body is the first Content-Length octets of what followed the head;  *)
(* the rest is the start of the next request.                              *)
Split(seed, len) ==
    IF Len(seed) >= len
      THEN [body |-> SubSeq(seed, 1, len), pending |-> SubSeq(seed, len + 1, Len(seed))]
      ELSE [body |-> seed, pending |-> <<>>]

LastRequest(r) == r.close \/ conn.count >= MAX_REQS_PER_CONN

(* A complete head: parsed, checked, and refused or gone on with.          *)
StartRequest ==
    /\ kind = "doh"
    /\ conn.pc = "head"
    /\ HeadEnds # {}
    /\ LET end == CHOOSE i \in HeadEnds : \A j \in HeadEnds : i <= j
           id == conn.pending[end][1]
           r == sent[id]
           seed == Leftover(conn.pending, end)
           refusal == IF SubSeq(conn.pending, 1, end) = HttpHead(r, id) THEN Refusal(r) ELSE 1
           len == IF r.method = "POST" THEN r.len ELSE 0
           s == Split(seed, len)
           next == [conn EXCEPT !.id = id, !.close = LastRequest(r),
                                !.pending = s.pending, !.body = s.body]
       IN  \/ /\ refusal = 0
              /\ conn' = [next EXCEPT !.pc = IF Len(seed) >= len THEN "handle" ELSE "body"]
              /\ UNCHANGED <<done, out>>
           \/ /\ refusal > 0
              /\ Close
              /\ done' = done \union {id}
              /\ IF refusal > 1 THEN Reply(id, refusal, <<>>, TRUE)
                 ELSE UNCHANGED out
    /\ Server(UNCHANGED <<wire, tasks, permits>>)

(* The rest of a POST body, never more than is missing.                    *)
ReadBody ==
    /\ kind = "doh"
    /\ conn.pc = "body"
    /\ LET missing == sent[conn.id].len - Len(conn.body)
       IN  \/ \E n \in 1..missing :
                 /\ n <= Len(wire)
                 /\ conn' = [conn EXCEPT !.body = @ \o SubSeq(wire, 1, n),
                                         !.pc = IF n = missing THEN "handle" ELSE "body"]
                 /\ wire' = SubSeq(wire, n + 1, Len(wire))
           \/ wire = <<>> /\ eof /\ Close /\ UNCHANGED wire
    /\ Server(UNCHANGED <<tasks, permits, done, out>>)

(* The handler's answer, or 400 when it has none; an error, a write to a   *)
(* client that has gone, and the last request close.                       *)
HandledHttp ==
    /\ kind = "doh"
    /\ conn.pc = "handle"
    /\ LET r == sent[conn.id]
           next == IF conn.close \/ conn.count = MAX_REQS_PER_CONN THEN Closed
                   ELSE [conn EXCEPT !.pc = "head", !.count = @ + 1, !.body = <<>>]
       IN  \/ /\ ~NoAnswer(r)
              /\ conn' = next
              /\ Reply(conn.id, 200, conn.body, conn.close)
           \/ NoAnswer(r) /\ Close /\ Reply(conn.id, 400, <<>>, TRUE)
           \/ eof /\ Close /\ UNCHANGED out
    /\ done' = done \union {conn.id}
    /\ Server(UNCHANGED <<wire, tasks, permits>>)

---------------------------------------------------------------------------
(* HTTP/2: serve_h2, handle_h2_request, read_h2_body.  Frames of different *)
(* streams pass each other (external: the h2 crate).                       *)

Running == {i \in DOMAIN tasks : tasks[i].pc \in {"body", "handle"}}
Frames(i) == {k \in 1..Len(wire) : wire[k][1] = i}
Without(k) == SubSeq(wire, 1, k - 1) \o SubSeq(wire, k + 1, Len(wire))

(* conn.accept yields a stream, and a task of its own checks it; the codec *)
(* keeps the streams within max_concurrent_streams.                        *)
AcceptStream ==
    /\ kind = "h2"
    /\ conn.pc = "streams"
    /\ Cardinality(Running) < MAX_STREAMS
    /\ \E i \in 1..Len(sent) :
         LET r == sent[i]
             status == Refusal([r EXCEPT !.sized = TRUE, !.len = 0])
         IN  /\ \E k \in Frames(i) : wire[k][2] = "e" /\ wire' = Without(k)
             /\ IF status = 0
                  THEN /\ tasks' = [tasks EXCEPT ![i].pc =
                                       IF r.method = "GET" THEN "handle" ELSE "body"]
                       /\ UNCHANGED <<done, out>>
                  ELSE /\ tasks' = [tasks EXCEPT ![i].pc = "ended"]
                       /\ done' = done \union {i}
                       /\ Reply(i, status, <<>>, FALSE)
    /\ Server(UNCHANGED <<conn, permits>>)

(* A chunk of a body, or its end; over the cap the stream is reset.        *)
ReadStream ==
    /\ kind = "h2"
    /\ conn.pc = "streams"
    /\ \E i \in Running :
         /\ tasks[i].pc = "body"
         /\ \E k \in Frames(i) :
              /\ \A j \in Frames(i) : k <= j
              /\ wire' = Without(k)
              /\ \/ /\ wire[k][2] = "f"
                    /\ tasks' = [tasks EXCEPT ![i].pc = "handle"]
                    /\ UNCHANGED done
                 \/ /\ wire[k][2] = "b"
                    /\ Len(tasks[i].body) < MAX_BODY
                    /\ tasks' = [tasks EXCEPT ![i].body = Append(@, wire[k])]
                    /\ UNCHANGED done
                 \/ /\ wire[k][2] = "b"
                    /\ Len(tasks[i].body) >= MAX_BODY
                    /\ tasks' = [tasks EXCEPT ![i] = [NoTask EXCEPT !.pc = "ended"]]
                    /\ done' = done \union {i}
    /\ Server(UNCHANGED <<conn, permits, out>>)

(* Mutant: every stream is answered with the body of the last one read. *)
StreamBody_Last(i) == tasks[CHOOSE j \in Running : \A k \in Running : k <= j].body

StreamBody(i) == tasks[i].body

HandledStream ==
    /\ kind = "h2"
    /\ \E i \in Running :
         /\ tasks[i].pc = "handle"
         /\ tasks' = [tasks EXCEPT ![i] = [NoTask EXCEPT !.pc = "ended"]]
         /\ done' = done \union {i}
         /\ IF conn.pc = "closed" THEN UNCHANGED out
            ELSE IF NoAnswer(sent[i]) THEN Reply(i, 400, <<>>, FALSE)
            ELSE Reply(i, 200, StreamBody(i), FALSE)
    /\ Server(UNCHANGED <<wire, conn, permits>>)

(* The client has gone: accept returns None or an error and the connection *)
(* is dropped; a body that is still being read fails with it.              *)
EndStreams ==
    /\ kind = "h2"
    /\ conn.pc = "streams"
    /\ eof
    /\ Close
    /\ LET cut == {i \in Running : tasks[i].pc = "body"}
       IN  /\ tasks' = [i \in DOMAIN tasks |->
                          IF i \in cut THEN [NoTask EXCEPT !.pc = "ended"] ELSE tasks[i]]
           /\ done' = done \union cut
    /\ Server(UNCHANGED <<wire, permits, out>>)

---------------------------------------------------------------------------
(* UDP: serve_loop. *)

(* wait_readable returns when a datagram is there (external: the readiness *)
(* of tokio and of the reactor).                                           *)
Wake ==
    /\ kind = "udp"
    /\ conn.pc = "parked"
    /\ wire # <<>>
    /\ conn' = [conn EXCEPT !.pc = "drain"]
    /\ Server(UNCHANGED <<wire, tasks, permits, done, out>>)

(* An error of try_recv_from sends the loop to wait_readable, and one of   *)
(* wait_readable back to the queue, each after a pause.                    *)
SocketError ==
    /\ kind = "udp"
    /\ conn.pc \in {"parked", "drain"}
    /\ conn' = [conn EXCEPT !.pc = IF @ = "drain" THEN "parked" ELSE "drain"]
    /\ Server(UNCHANGED <<wire, tasks, permits, done, out>>)

(* Mutant: a datagram that is shed keeps a permit. *)
Shed_Leak(id) ==
    /\ permits = 0 \/ sent[id].dns = "malformed"
    /\ permits' = IF permits = 0 THEN 0 ELSE permits - 1
    /\ done' = done \union {id}
    /\ IF sent[id].dns = "malformed" THEN UNCHANGED out ELSE Reply(id, 5, <<>>, FALSE)
    /\ UNCHANGED tasks

(* No permit: REFUSED at once, unless the query does not parse.            *)
Shed(id) ==
    /\ permits = 0
    /\ done' = done \union {id}
    /\ IF sent[id].dns = "malformed" THEN UNCHANGED out ELSE Reply(id, 5, <<>>, FALSE)
    /\ UNCHANGED <<tasks, permits>>

Spawn(id) ==
    /\ permits > 0
    /\ permits' = permits - 1
    /\ tasks' = [tasks EXCEPT ![id].pc = "handle"]
    /\ UNCHANGED <<done, out>>

(* try_recv_from until the queue is empty: ACL, permit, task.              *)
Drain ==
    /\ kind = "udp"
    /\ conn.pc = "drain"
    /\ \/ /\ wire = <<>>
          /\ conn' = [conn EXCEPT !.pc = "parked"]
          /\ UNCHANGED <<wire, tasks, permits, done, out>>
       \/ /\ wire # <<>>
          /\ wire' = Tail(wire)
          /\ \/ /\ ~gate.allowed
                /\ done' = done \union {wire[1][1]}
                /\ UNCHANGED <<tasks, permits, out>>
             \/ gate.allowed /\ (Shed(wire[1][1]) \/ Spawn(wire[1][1]))
          /\ UNCHANGED conn
    /\ Server(TRUE)

(* The task of a datagram ends and drops its permit; a response too long   *)
(* for a datagram is not sent.                                             *)
HandledDatagram ==
    /\ kind = "udp"
    /\ \E i \in Running :
         /\ tasks' = [tasks EXCEPT ![i].pc = "ended"]
         /\ done' = done \union {i}
         /\ IF sent[i].dns = "ok" THEN Reply(i, 0, <<>>, FALSE) ELSE UNCHANGED out
    /\ permits' = permits + 1
    /\ Server(UNCHANGED <<wire, conn>>)

---------------------------------------------------------------------------
ServerNext ==
    \/ Accept \/ ReadFramed \/ ReadMessage \/ HandledFramed
    \/ ReadHead \/ StartRequest \/ ReadBody \/ HandledHttp
    \/ AcceptStream \/ ReadStream \/ HandledStream \/ EndStreams
    \/ Wake \/ Drain \/ HandledDatagram

ListenerNext ==
    \/ Send \/ Hangup \/ Reload \/ BecomeReady
    \/ HandshakeEnds \/ HeadTimeout \/ SocketError
    \/ ServerNext
===========================================================================
