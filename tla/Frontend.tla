---- MODULE Frontend ----
(***************************************************************************)
(* A listener on the I/O pool: the pool starts, the listener is bound on   *)
(* the worker it is dealt, and serves until its thread ends; the runtime   *)
(* of the thread drops the tasks of the listener with it.                  *)
(***************************************************************************)
EXTENDS Listener, VclPool

CONSTANT Me         \* the listener followed, a member of Listeners

vars == <<listenerVars, poolVars>>

Init == ListenerInit /\ PoolInit

(* The tasks of a listener live on the runtime of its worker.              *)
HostExits(i) ==
    /\ ThreadExit(i)
    /\ IF Me \in DOMAIN hosts /\ hosts[Me] = i
         THEN /\ conn' = Closed
              /\ tasks' = [t \in DOMAIN tasks |-> NoTask]
              /\ permits' = MAX_INFLIGHT
              /\ UNCHANGED <<kind, gate, ready, reloads, client, wire, done, out>>
         ELSE UNCHANGED listenerVars

Hosted == Me \in DOMAIN hosts /\ thread[hosts[Me]] \in {"up", "stopping"}

Pool ==
    \/ /\ \/ \E i \in Ids : \/ SpawnThread(i) \/ SpawnFails(i)
                            \/ ReportReady(i) \/ ReportError(i)
          \/ BindListener
          \/ Shutdown
       /\ UNCHANGED listenerVars
    \/ \E i \in Ids : HostExits(i)

Serve == Hosted /\ ServerNext /\ UNCHANGED poolVars

Next ==
    \/ Pool
    \/ Hosted /\ ListenerNext /\ UNCHANGED poolVars

Spec == Init /\ [][Next]_vars

(* Threads run, the tasks of a live runtime are polled, and handle_bytes   *)
(* returns (EveryQueryAnswered of Resolver).  A socket does not fail       *)
(* whenever it has something to read.                                      *)
FairSpec ==
    /\ Spec
    /\ WF_vars(Serve)
    /\ WF_vars(Hosted /\ HandledDatagram /\ UNCHANGED poolVars)
    /\ SF_vars(Hosted /\ Drain /\ UNCHANGED poolVars)
    /\ WF_vars(\E i \in Ids : HostExits(i))

---------------------------------------------------------------------------
Replies(i) == {k \in DOMAIN out : out[k].id = i}

(* Framing never slips: however the bytes of pipelined requests are split  *)
(* over reads, what the handler is given for a request is that request's   *)
(* own message, whole, and a request is answered at most once, on a serial *)
(* connection in the order of the requests (pending and body_seed in       *)
(* serve_one and handle_request, read_exact in tcp.rs and dot.rs, h2).     *)
FramingHolds ==
    /\ \A k \in DOMAIN out :
          (kind # "udp" /\ out[k].status \in {0, 200}) =>
              out[k].body = Body(sent[out[k].id], out[k].id)
    /\ \A k, l \in DOMAIN out :
          k < l => IF kind \in Serial THEN out[k].id < out[l].id ELSE out[k].id # out[l].id

(* The client is not left guessing.  A request the server has finished     *)
(* with was answered, unless the client has gone, over HTTP the framing is *)
(* refused, and elsewhere the query is empty, does not parse, has an       *)
(* answer that does not fit, is held back by the rate limiter, or comes    *)
(* from a peer outside the allow-list.  Nothing follows a response with    *)
(* `connection: close`, and the one that uses up MAX_REQS_PER_CONN carries *)
(* it.                                                                     *)
NoSilentDrop ==
    /\ \A i \in done :
          LET r == sent[i]
          IN  Replies(i) = {} =>
                 \/ eof
                 \/ kind = "doh" /\ ~(r.valid /\ r.sized)
                 \/ kind = "h2" /\ r.len > MAX_BODY
                 \/ kind \in {"tcp", "dot"} /\ r.len = 0
                 \/ kind \in {"tcp", "dot", "udp"} /\
                       (r.dns # "ok" \/ ~gate.allowed \/ reloads > 0)
    /\ kind = "doh" =>
          /\ \A k \in 1..(Len(out) - 1) : ~out[k].close
          /\ Len(out) >= MAX_REQS_PER_CONN => out[Len(out)].close /\ conn.pc = "closed"

(* The permits of the UDP listener are neither lost nor made: free ones    *)
(* and running tasks add up to the cap, through shed queries, malformed    *)
(* ones and reloads (serve_loop).                                          *)
PermitsBalanced == kind = "udp" => permits + Cardinality(Running) = MAX_INFLIGHT

(* Nothing is left behind: every request that was sent whole is dealt with *)
(* or its connection closed, whatever the order of reads, over-reads and   *)
(* arrivals; and after a failed startup as after a shutdown every I/O      *)
(* thread that was started comes to an end.                                *)
NothingLeftBehind ==
    /\ \A i \in 1..MaxSends : (Hosted /\ i <= whole) ~> (i \in done \/ conn.pc = "closed")
    /\ phase \in {"failed", "stopped"} ~> \A i \in Ids : thread[i] \in {"none", "exited"}
===========================================================================
