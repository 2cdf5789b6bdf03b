------------------------------- MODULE UdpMux -------------------------------
(***************************************************************************)
(* The upstream UDP multiplexer of src/recursor/forwarder.rs: one          *)
(* UpstreamUdpChannel (a socket, its (peer, txid) pending map and its      *)
(* recv_demux_loop) shared by concurrent UpstreamClient::query futures.    *)
(*                                                                         *)
(* A query future, the demux task and the network interleave at the        *)
(* pending map's lock.  A future can be dropped wherever it awaits         *)
(* (query_ns_set returns with its slower competitor still in flight), and  *)
(* its Cleanup guard then takes the lock in a step of its own.             *)
(*                                                                         *)
(* A datagram is the (peer, txid) it carries and the question it answers:  *)
(* that of the future which asked for it, in which attempt.  The random    *)
(* letter case of 0x20 is left out because zeroxtwenty::verify compares    *)
(* names case-insensitively.  A TXID is drawn from a small set, so that    *)
(* the collisions of the 16-bit space happen.                              *)
(***************************************************************************)
EXTENDS Naturals, Sequences, FiniteSets

CONSTANTS
    Query,      \* query futures
    Asks,       \* Asks[q]: the name and the record type the future asks for
    Servers,    \* Servers[q]: the upstream addresses it was given, in order
    Txid,       \* the TXIDs Prepared::build draws from
    NoQuery,    \* a free slot of the pending map
    Empty,      \* a oneshot nothing was sent on
    Closed      \* a oneshot whose sender was dropped unsent

Peer == UNION {{Servers[q][i] : i \in 1 .. Len(Servers[q])} : q \in Query}
Key == Peer \X Txid
Datagram == [key : Key, asker : Query, attempt : Nat]

ASSUME UdpMuxAssumption ==
    /\ \A q \in Query : Len(Servers[q]) \in Nat \ {0}
    /\ NoQuery \notin Query
    /\ {Empty, Closed} \cap Datagram = {}
    /\ Empty # Closed

VARIABLES
    at,         \* where each future is
    server,     \* the index of the upstream being tried
    key,        \* the (peer, txid) of the current attempt
    pending,    \* the channel's pending map: Key -> the future waiting
    rx,         \* the future's end of its oneshot
    net,        \* datagrams on their way back to the channel's socket
    answer      \* the response the future returned

muxVars == <<at, server, key, pending, rx, net, answer>>

\* Cleanup is armed from the insert to the receipt of a response.
Armed == {"send", "wait", "exit", "dropped"}
Ended == {"done", "failed", "cancelled"}

MuxInit ==
    /\ at = [q \in Query |-> "build"]
    /\ server = [q \in Query |-> 1]
    /\ key \in {[q \in Query |-> <<Servers[q][1], t>>] : t \in Txid}
    /\ pending = [k \in Key |-> NoQuery]
    /\ rx = [q \in Query |-> Empty]
    /\ net = {}
    /\ answer = [q \in Query |-> Empty]
-----------------------------------------------------------------------------
(* UpstreamClient::query: the next server of the list, or the last error. *)
TryNext(q) ==
    IF server[q] < Len(Servers[q])
      THEN /\ at' = [at EXCEPT ![q] = "build"]
           /\ server' = [server EXCEPT ![q] = @ + 1]
      ELSE /\ at' = [at EXCEPT ![q] = "failed"]
           /\ UNCHANGED server

\* Mutant: the insert replaces the entry of another future.
Register_Replaces(q, t) ==
    LET k == <<Servers[q][server[q]], t>> IN
    /\ at[q] = "build"
    /\ key' = [key EXCEPT ![q] = k]
    /\ pending' = [pending EXCEPT ![k] = q]
    /\ rx' = [rx EXCEPT ![q] = Empty]
    /\ at' = [at EXCEPT ![q] = "send"]
    /\ UNCHANGED <<server, net, answer>>

(* Prepared::build draws the TXID; the insert fails on an occupied slot. *)
Register(q, t) ==
    LET k == <<Servers[q][server[q]], t>> IN
    /\ at[q] = "build"
    /\ pending[k] = NoQuery
    /\ key' = [key EXCEPT ![q] = k]
    /\ pending' = [pending EXCEPT ![k] = q]
    /\ rx' = [rx EXCEPT ![q] = Empty]
    /\ at' = [at EXCEPT ![q] = "send"]
    /\ UNCHANGED <<server, net, answer>>

Collision(q, t) ==
    /\ at[q] = "build"
    /\ pending[<<Servers[q][server[q]], t>>] # NoQuery
    /\ TryNext(q)
    /\ UNCHANGED <<key, pending, rx, net, answer>>

(* The answer to the attempt under way. *)
AnswerTo(q) == [key |-> key[q], asker |-> q, attempt |-> server[q]]

(* The server's reply is in flight from the moment the query is. *)
Send(q) ==
    /\ at[q] = "send"
    /\ net' = net \cup {AnswerTo(q)}
    /\ at' = [at EXCEPT ![q] = "wait"]
    /\ UNCHANGED <<server, key, pending, rx, answer>>

SendFails(q) ==
    /\ at[q] = "send"
    /\ at' = [at EXCEPT ![q] = "exit"]
    /\ UNCHANGED <<server, key, pending, rx, net, answer>>
-----------------------------------------------------------------------------
(* recv_demux_loop: take the waiter of (peer, txid), send it the datagram. *)
(* The send is lost when the receiving future is gone.                     *)
Demux(d) ==
    LET q == pending[d.key] IN
    /\ d \in net
    /\ net' \in {net, net \ {d}}       \* a datagram may be duplicated
    /\ pending' = [pending EXCEPT ![d.key] = NoQuery]
    /\ rx' = IF q # NoQuery THEN [rx EXCEPT ![q] = d] ELSE rx
    /\ UNCHANGED <<at, server, key, answer>>

Lose(d) ==
    /\ d \in net
    /\ net' = net \ {d}
    /\ UNCHANGED <<at, server, key, pending, rx, answer>>
-----------------------------------------------------------------------------
(* query_one_udp on the received bytes: the TXID, then 0x20 verify, which  *)
(* compares the names and not the types.                                   *)
Verified(q, d) == d.key = key[q] /\ Asks[d.asker].name = Asks[q].name

(* The guard is disarmed: the demux already removed the entry. *)
Accept(q) ==
    /\ at[q] = "wait"
    /\ rx[q] \in Datagram
    /\ Verified(q, rx[q])
    /\ answer' = [answer EXCEPT ![q] = rx[q]]
    /\ at' = [at EXCEPT ![q] = "done"]
    /\ UNCHANGED <<server, key, pending, rx, net>>

(* It does not verify, or the verified bytes do not parse. *)
Reject(q) ==
    /\ at[q] = "wait"
    /\ rx[q] \in Datagram
    /\ TryNext(q)
    /\ UNCHANGED <<key, pending, rx, net, answer>>

(* TC=1: the same server over a TCP connection of its own, fresh TXID. *)
Truncated(q) ==
    /\ at[q] = "wait"
    /\ rx[q] \in Datagram
    /\ Verified(q, rx[q])
    /\ at' = [at EXCEPT ![q] = "tcp"]
    /\ UNCHANGED <<server, key, pending, rx, net, answer>>

TcpAnswers(q) ==
    /\ at[q] = "tcp"
    /\ answer' = [answer EXCEPT ![q] = AnswerTo(q)]
    /\ at' = [at EXCEPT ![q] = "done"]
    /\ UNCHANGED <<server, key, pending, rx, net>>

TcpFails(q) ==
    /\ at[q] = "tcp"
    /\ TryNext(q)
    /\ UNCHANGED <<key, pending, rx, net, answer>>

\* Mutant: the wait has no timer.
TimedOut_Never(q) == FALSE

(* tokio's timeout polls the oneshot first: it elapses on an empty one. *)
TimedOut(q) ==
    /\ at[q] = "wait"
    /\ rx[q] = Empty
    /\ at' = [at EXCEPT ![q] = "exit"]
    /\ UNCHANGED <<server, key, pending, rx, net, answer>>

ChannelClosed(q) ==
    /\ at[q] = "wait"
    /\ rx[q] = Closed
    /\ at' = [at EXCEPT ![q] = "exit"]
    /\ UNCHANGED <<server, key, pending, rx, net, answer>>

(* The future is dropped where it awaits. *)
CancelQuery(q) ==
    /\ at[q] \in {"send", "wait", "tcp"}
    /\ at' = [at EXCEPT ![q] = IF @ = "tcp" THEN "cancelled" ELSE "dropped"]
    /\ UNCHANGED <<server, key, pending, rx, net, answer>>

\* Mutant: the entry outlives its future.
Release_Nothing(q) == UNCHANGED <<pending, rx>>

(* Cleanup::drop removes the entry of its key, whoever inserted it, and    *)
(* with it the sender of that future's oneshot.                            *)
Release(q) ==
    LET r == pending[key[q]] IN
    /\ pending' = [pending EXCEPT ![key[q]] = NoQuery]
    /\ rx' = IF r # NoQuery THEN [rx EXCEPT ![r] = Closed] ELSE rx

Cleanup(q) ==
    \/ /\ at[q] = "exit"
       /\ Release(q)
       /\ TryNext(q)
       /\ UNCHANGED <<key, net, answer>>
    \/ /\ at[q] = "dropped"
       /\ Release(q)
       /\ at' = [at EXCEPT ![q] = "cancelled"]
       /\ UNCHANGED <<server, key, net, answer>>
-----------------------------------------------------------------------------
Step(q) ==
    \/ \E t \in Txid : Register(q, t) \/ Collision(q, t)
    \/ Send(q) \/ SendFails(q)
    \/ Accept(q) \/ Reject(q)
    \/ Truncated(q) \/ TcpAnswers(q) \/ TcpFails(q)
    \/ TimedOut(q) \/ ChannelClosed(q)
    \/ Cleanup(q)

MuxNext ==
    \/ \E q \in Query : Step(q) \/ CancelQuery(q)
    \/ \E d \in net : Demux(d) \/ Lose(d)

MuxSpec == MuxInit /\ [][MuxNext]_muxVars

(* The runtime polls every woken future; nothing makes the network reply   *)
(* or a caller cancel.                                                     *)
FairMuxSpec == MuxSpec /\ \A q \in Query : WF_muxVars(Step(q))
-----------------------------------------------------------------------------
\* Every variable ranges over the values the multiplexer gives it.
MuxTypeOK ==
    /\ at \in [Query -> {"build", "tcp"} \cup Armed \cup Ended]
    /\ server \in [Query -> Nat]
    /\ \A q \in Query : server[q] \in 1 .. Len(Servers[q])
    /\ key \in [Query -> Key]
    /\ pending \in [Key -> Query \cup {NoQuery}]
    /\ rx \in [Query -> Datagram \cup {Empty, Closed}]
    /\ net \subseteq Datagram
    /\ answer \in [Query -> Datagram \cup {Empty}]

\* An entry of the pending map belongs to a future that is still going to
\* remove it: no timeout, send error or drop leaves a (peer, txid) slot
\* occupied for good (the Cleanup guard of UpstreamUdpChannel::query).
SlotNotWedged ==
    \A k \in Key : pending[k] # NoQuery =>
        /\ key[pending[k]] = k
        /\ at[pending[k]] \in Armed

\* The attempt that asked for the datagram still waits for it.
Awaited(d) ==
    LET r == d.asker IN at[r] = "wait" /\ server[r] = d.attempt /\ rx[r] = Empty

\* What a future returns came from the server it is asking and is about the name
\* it asked for, and no one else is waiting for it: a late or duplicated answer
\* may reach the future that drew its TXID next (and be for another record type
\* of that name, which zeroxtwenty::verify does not compare), but no future is
\* handed the answer another one waits for (the occupied-slot check of the
\* insert, the demux and the Cleanup guard, query_one_udp's verification).
StrayAnswersAreStale ==
    \A q \in Query : at[q] = "done" =>
        /\ answer[q].key[1] = Servers[q][server[q]]
        /\ Asks[answer[q].asker].name = Asks[q].name
        /\ ~Awaited(answer[q])

\* Every query future ends: no lost datagram, collision or refused answer
\* keeps UpstreamClient::query from returning.
EveryQueryEnds == \A q \in Query : <>(at[q] \in Ended)
=============================================================================
