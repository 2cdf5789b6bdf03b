--------------------------- MODULE UpstreamProofs ---------------------------
(***************************************************************************)
(* The two ways to an upstream.                                            *)
(*                                                                         *)
(* The UDP multiplexer, for any number of query futures, servers, names    *)
(* and TXIDs: no slot of the pending map is wedged, and a query returns an *)
(* answer about its own name that no other query waits for.                *)
(*                                                                         *)
(* The DNS-over-TLS pool, for any number of exchanges, forwarders and      *)
(* streams, and any limits of the pool: a TLS stream is in one place at a  *)
(* time and never pooled while a response is owed on it, a query only ever *)
(* uses a stream built for its forwarder's circuit, and an exchange fails  *)
(* only on a stream that never answered.                                   *)
(***************************************************************************)
EXTENDS UdpMux, DotPool, WellFoundedInduction, TLAPS

\* The leaves are first-order steps; the ones that need arithmetic, sequences or
\* records cite SMT.
USE ZenonT(30)

(***************************************************************************)
(* UdpMux.                                                                 *)
(***************************************************************************)
(* A oneshot that was sent on, or closed, has no sender in the map. *)
SenderIsGone ==
    \A q \in Query : rx[q] # Empty => pending[key[q]] # q

(* The key of an attempt under way is that of the server being tried. *)
KeyIsCurrent ==
    \A q \in Query : at[q] \in {"send", "wait", "tcp"} =>
        key[q][1] = Servers[q][server[q]]

(* The first two conjuncts of StrayAnswersAreStale. *)
AnswersOwnName ==
    \A q \in Query : at[q] = "done" =>
        /\ answer[q].key[1] = Servers[q][server[q]]
        /\ Asks[answer[q].asker].name = Asks[q].name

MuxInv ==
    /\ MuxTypeOK
    /\ SlotNotWedged
    /\ SenderIsGone
    /\ KeyIsCurrent
    /\ AnswersOwnName

\* Trying the next server leaves the other futures alone and sends this one back
\* to "build", or ends it (the loop of UpstreamClient::query).
LEMMA TryNextMovesOn ==
    ASSUME MuxTypeOK, NEW q \in Query, TryNext(q)
    PROVE  /\ at' \in [Query -> {"build", "tcp"} \cup Armed \cup Ended]
           /\ at'[q] \in {"build", "failed"}
           /\ server' \in [Query -> Nat]
           /\ server'[q] \in 1 .. Len(Servers[q])
           /\ \A p \in Query \ {q} : at'[p] = at[p] /\ server'[p] = server[p]
           /\ server'[q] = server[q] + 1 \/ (at'[q] = "failed" /\ server'[q] = server[q])
<1>1. server[q] \in 1 .. Len(Servers[q]) /\ Len(Servers[q]) \in Nat
    BY UdpMuxAssumption DEF MuxTypeOK
<1>2. CASE server[q] < Len(Servers[q])
    <2>1. /\ at' = [at EXCEPT ![q] = "build"]
          /\ server' = [server EXCEPT ![q] = server[q] + 1]
        BY <1>2 DEF TryNext
    <2> QED
        BY <1>1, <1>2, <2>1, SMTT(30) DEF MuxTypeOK
<1>3. CASE ~(server[q] < Len(Servers[q]))
    <2>1. at' = [at EXCEPT ![q] = "failed"] /\ server' = server
        BY <1>3 DEF TryNext
    <2> QED
        BY <1>1, <2>1 DEF MuxTypeOK, Ended
<1> QED
    BY <1>2, <1>3

\* The multiplexer keeps its types, and the bookkeeping that ties the pending
\* map, the oneshots and the attempts under way together.
LEMMA MuxStep == MuxInv /\ [MuxNext]_muxVars => MuxInv'
<1> SUFFICES ASSUME MuxInv, [MuxNext]_muxVars
             PROVE  MuxInv'
    OBVIOUS
<1> USE UdpMuxAssumption DEF MuxInv
<1>1. ASSUME NEW q \in Query, NEW t \in Txid, Register(q, t) PROVE MuxInv'
    <2>1. <<Servers[q][server[q]], t>> \in Key
        BY SMTT(30) DEF Key, Peer, MuxTypeOK
    <2>2. MuxTypeOK'
        BY <1>1, <2>1 DEF Register, MuxTypeOK, Armed
    <2>3. SlotNotWedged'
        BY <1>1, <2>1, SMTT(30) DEF Register, MuxTypeOK, SlotNotWedged, Armed
    <2>4. SenderIsGone'
        BY <1>1, <2>1 DEF Register, MuxTypeOK, SlotNotWedged, SenderIsGone
    <2>5. KeyIsCurrent'
        BY <1>1 DEF Register, MuxTypeOK, KeyIsCurrent
    <2>6. AnswersOwnName'
        BY <1>1 DEF Register, MuxTypeOK, AnswersOwnName
    <2> QED
        BY <2>2, <2>3, <2>4, <2>5, <2>6
<1>2. ASSUME NEW q \in Query, NEW t \in Txid, Collision(q, t) PROVE MuxInv'
    <2>1. TryNext(q) /\ UNCHANGED <<key, pending, rx, net, answer>>
        BY <1>2 DEF Collision
    <2>2. /\ at'[q] \in {"build", "failed"}
          /\ \A p \in Query \ {q} : at'[p] = at[p] /\ server'[p] = server[p]
        BY <2>1, TryNextMovesOn
    <2>3. MuxTypeOK'
        BY <2>1, TryNextMovesOn DEF MuxTypeOK
    <2>4. pending[key[q]] # q
        BY <1>2 DEF Collision, MuxTypeOK, SlotNotWedged, SenderIsGone, Armed
    <2>5. SlotNotWedged' /\ SenderIsGone'
        <3>1. \A k \in Key : pending[k] # NoQuery => pending[k] \in Query \ {q}
            BY <2>4 DEF MuxTypeOK, SlotNotWedged
        <3>2. SlotNotWedged'
            BY <2>1, <2>2, <3>1 DEF SlotNotWedged
        <3> QED
            BY <2>1, <3>2 DEF SenderIsGone
    <2>6. KeyIsCurrent' /\ AnswersOwnName'
        BY <2>1, <2>2, SMTT(30) DEF KeyIsCurrent, AnswersOwnName
    <2> QED
        BY <2>3, <2>5, <2>6
<1>3. ASSUME NEW q \in Query, Send(q) PROVE MuxInv'
    <2>1. AnswerTo(q) \in Datagram
        BY DEF MuxTypeOK, Datagram, AnswerTo
    <2>2. MuxTypeOK'
        BY <1>3, <2>1 DEF Send, MuxTypeOK, Armed
    <2>3. SlotNotWedged' /\ SenderIsGone'
        BY <1>3, SMTT(30) DEF Send, MuxTypeOK, SlotNotWedged, SenderIsGone, Armed
    <2>4. KeyIsCurrent' /\ AnswersOwnName'
        BY <1>3 DEF Send, MuxTypeOK, KeyIsCurrent, AnswersOwnName
    <2> QED
        BY <2>2, <2>3, <2>4
<1>4. ASSUME NEW q \in Query, SendFails(q) \/ TimedOut(q) \/ ChannelClosed(q)
      PROVE  MuxInv'
    <2>1. MuxTypeOK'
        BY <1>4 DEF SendFails, TimedOut, ChannelClosed, MuxTypeOK, Armed
    <2>2. SlotNotWedged' /\ SenderIsGone'
        <3>1. /\ UNCHANGED <<pending, key, rx>>
              /\ \A p \in Query : at'[p] = IF p = q THEN "exit" ELSE at[p]
            BY <1>4 DEF SendFails, TimedOut, ChannelClosed, MuxTypeOK
        <3>2. \A k \in Key : pending[k] # NoQuery => pending[k] \in Query
            BY DEF MuxTypeOK
        <3>3. SlotNotWedged'
            BY <3>1, <3>2 DEF SlotNotWedged, Armed
        <3> QED
            BY <3>1, <3>3 DEF SenderIsGone
    <2>3. KeyIsCurrent' /\ AnswersOwnName'
        BY <1>4 DEF SendFails, TimedOut, ChannelClosed, MuxTypeOK, KeyIsCurrent, AnswersOwnName
    <2> QED
        BY <2>1, <2>2, <2>3
<1>5. ASSUME NEW d \in net, Demux(d) PROVE MuxInv'
    <2>1. d \in Datagram /\ d.key \in Key
        BY DEF MuxTypeOK, Datagram
    <2>2. MuxTypeOK'
        BY <1>5, <2>1 DEF Demux, MuxTypeOK
    <2>3. SlotNotWedged'
        BY <1>5, <2>1 DEF Demux, MuxTypeOK, SlotNotWedged
    <2>4. SenderIsGone'
        BY <1>5, <2>1 DEF Demux, MuxTypeOK, SlotNotWedged, SenderIsGone
    <2>5. KeyIsCurrent' /\ AnswersOwnName'
        BY <1>5 DEF Demux, KeyIsCurrent, AnswersOwnName
    <2> QED
        BY <2>2, <2>3, <2>4, <2>5
<1>6. ASSUME NEW d \in net, Lose(d) PROVE MuxInv'
    BY <1>6 DEF Lose, MuxTypeOK, SlotNotWedged, SenderIsGone, KeyIsCurrent, AnswersOwnName
<1>7. ASSUME NEW q \in Query, Accept(q) PROVE MuxInv'
    <2>1. MuxTypeOK'
        BY <1>7 DEF Accept, MuxTypeOK, Ended
    <2>2. SlotNotWedged' /\ SenderIsGone'
        BY <1>7, SMTT(30) DEF Accept, MuxTypeOK, SlotNotWedged, SenderIsGone
    <2>3. KeyIsCurrent'
        BY <1>7 DEF Accept, MuxTypeOK, KeyIsCurrent
    <2>4. Asks[rx[q].asker].name = Asks[q].name /\ rx[q].key[1] = Servers[q][server[q]]
        BY <1>7 DEF Accept, Verified, KeyIsCurrent
    <2>5. AnswersOwnName'
        BY <1>7, <2>4 DEF Accept, MuxTypeOK, AnswersOwnName
    <2> QED
        BY <2>1, <2>2, <2>3, <2>5
<1>8. ASSUME NEW q \in Query, Reject(q) \/ TcpFails(q) PROVE MuxInv'
    <2>1. TryNext(q) /\ UNCHANGED <<key, pending, rx, net, answer>>
        BY <1>8 DEF Reject, TcpFails
    <2>2. /\ at'[q] \in {"build", "failed"}
          /\ \A p \in Query \ {q} : at'[p] = at[p] /\ server'[p] = server[p]
        BY <2>1, TryNextMovesOn
    <2>3. MuxTypeOK'
        BY <2>1, TryNextMovesOn DEF MuxTypeOK
    <2>4. pending[key[q]] # q
        BY <1>8, SMTT(30) DEF Reject, TcpFails, MuxTypeOK, SlotNotWedged, SenderIsGone, Armed
    <2>5. SlotNotWedged' /\ SenderIsGone'
        <3>1. \A k \in Key : pending[k] # NoQuery => pending[k] \in Query \ {q}
            BY <2>4 DEF MuxTypeOK, SlotNotWedged
        <3>2. SlotNotWedged'
            BY <2>1, <2>2, <3>1 DEF SlotNotWedged
        <3> QED
            BY <2>1, <3>2 DEF SenderIsGone
    <2>6. KeyIsCurrent' /\ AnswersOwnName'
        BY <2>1, <2>2, SMTT(30) DEF KeyIsCurrent, AnswersOwnName
    <2> QED
        BY <2>3, <2>5, <2>6
<1>9. ASSUME NEW q \in Query, Truncated(q) PROVE MuxInv'
    <2>1. MuxTypeOK'
        BY <1>9 DEF Truncated, MuxTypeOK
    <2>2. SlotNotWedged' /\ SenderIsGone'
        BY <1>9, SMTT(30) DEF Truncated, MuxTypeOK, SlotNotWedged, SenderIsGone
    <2>3. KeyIsCurrent' /\ AnswersOwnName'
        BY <1>9, SMTT(30) DEF Truncated, MuxTypeOK, KeyIsCurrent, AnswersOwnName
    <2> QED
        BY <2>1, <2>2, <2>3
<1>10. ASSUME NEW q \in Query, TcpAnswers(q) PROVE MuxInv'
    <2>1. AnswerTo(q) \in Datagram
        BY DEF MuxTypeOK, Datagram, AnswerTo
    <2>2. MuxTypeOK'
        BY <1>10, <2>1 DEF TcpAnswers, MuxTypeOK, Ended
    <2>3. SlotNotWedged' /\ SenderIsGone'
        BY <1>10, SMTT(30) DEF TcpAnswers, MuxTypeOK, SlotNotWedged, SenderIsGone, Armed
    <2>4. KeyIsCurrent' /\ AnswersOwnName'
        BY <1>10, SMTT(30) DEF TcpAnswers, AnswerTo, MuxTypeOK, KeyIsCurrent, AnswersOwnName
    <2> QED
        BY <2>2, <2>3, <2>4
<1>11. ASSUME NEW q \in Query, CancelQuery(q) PROVE MuxInv'
    <2>1. MuxTypeOK'
        BY <1>11 DEF CancelQuery, MuxTypeOK, Armed, Ended
    <2>2. SlotNotWedged' /\ SenderIsGone'
        BY <1>11, SMTT(30) DEF CancelQuery, MuxTypeOK, SlotNotWedged, SenderIsGone, Armed
    <2>3. KeyIsCurrent' /\ AnswersOwnName'
        BY <1>11 DEF CancelQuery, MuxTypeOK, KeyIsCurrent, AnswersOwnName
    <2> QED
        BY <2>1, <2>2, <2>3
<1>12. ASSUME NEW q \in Query, Cleanup(q) PROVE MuxInv'
    <2> DEFINE k == key[q]
               r == pending[key[q]]
    <2>1. k \in Key /\ r \in Query \cup {NoQuery}
        BY DEF MuxTypeOK
    <2>2. Release(q) /\ UNCHANGED <<key, net, answer>>
        BY <1>12 DEF Cleanup
    <2>3. pending' = [pending EXCEPT ![k] = NoQuery]
        BY <2>2 DEF Release
    <2>4. rx' = IF r # NoQuery THEN [rx EXCEPT ![r] = Closed] ELSE rx
        BY <2>2 DEF Release
    <2>5. at[q] \in {"exit", "dropped"}
        BY <1>12 DEF Cleanup
    <2>6. /\ at' \in [Query -> {"build", "tcp"} \cup Armed \cup Ended]
          /\ at'[q] \in {"build", "failed", "cancelled"}
          /\ \A p \in Query \ {q} : at'[p] = at[p] /\ server'[p] = server[p]
        <3>1. CASE at[q] = "exit"
            BY <1>12, <3>1, TryNextMovesOn DEF Cleanup
        <3>2. CASE at[q] = "dropped"
            BY <1>12, <3>2 DEF Cleanup, MuxTypeOK, Ended
        <3> QED
            BY <2>5, <3>1, <3>2
    <2>7. /\ server' \in [Query -> Nat]
          /\ \A p \in Query : server'[p] \in 1 .. Len(Servers[p])
        <3>1. CASE at[q] = "exit"
            BY <1>12, <3>1, TryNextMovesOn DEF Cleanup, MuxTypeOK
        <3>2. CASE at[q] = "dropped"
            BY <1>12, <3>2 DEF Cleanup, MuxTypeOK
        <3> QED
            BY <2>5, <3>1, <3>2
    <2>8. MuxTypeOK'
        BY <2>1, <2>2, <2>3, <2>4, <2>6, <2>7 DEF MuxTypeOK
    <2>9. SlotNotWedged'
        <3> SUFFICES ASSUME NEW j \in Key, pending'[j] # NoQuery
                     PROVE  key[pending'[j]] = j /\ at'[pending'[j]] \in Armed
            BY <2>2 DEF SlotNotWedged
        <3>1. j # k /\ pending'[j] = pending[j] /\ pending[j] \in Query
            BY <2>1, <2>3 DEF MuxTypeOK
        <3>2. key[pending[j]] = j /\ at[pending[j]] \in Armed
            BY <3>1 DEF SlotNotWedged
        <3>3. pending[j] # q
            BY <3>1, <3>2
        <3> QED
            BY <2>6, <3>1, <3>2, <3>3
    <2>10. SenderIsGone'
        <3> SUFFICES ASSUME NEW p \in Query, rx'[p] # Empty
                     PROVE  pending'[key[p]] # p
            BY <2>2 DEF SenderIsGone
        <3>1. key[p] \in Key
            BY DEF MuxTypeOK
        <3>2. CASE rx[p] # Empty
            BY <2>1, <2>3, <3>1, <3>2 DEF MuxTypeOK, SenderIsGone
        <3>3. CASE p = r
            BY <2>1, <2>3, <3>1, <3>3 DEF MuxTypeOK, SlotNotWedged
        <3> QED
            BY <2>1, <2>4, <3>2, <3>3 DEF MuxTypeOK
    <2>11. KeyIsCurrent'
        BY <2>2, <2>6 DEF KeyIsCurrent
    <2>12. AnswersOwnName'
        BY <2>2, <2>6 DEF AnswersOwnName
    <2> QED
        BY <2>8, <2>9, <2>10, <2>11, <2>12
<1>13. CASE UNCHANGED muxVars
    BY <1>13 DEF muxVars, MuxTypeOK, SlotNotWedged, SenderIsGone, KeyIsCurrent, AnswersOwnName
<1> QED
    BY <1>1, <1>2, <1>3, <1>4, <1>5, <1>6, <1>7, <1>8, <1>9, <1>10, <1>11, <1>12, <1>13
    DEF MuxNext, Step

\* The pending map, the oneshots and the attempts of the futures stay consistent.
THEOREM MuxInvariant == MuxSpec => []MuxInv
<1>1. MuxInit => MuxInv
    <2> SUFFICES ASSUME MuxInit PROVE MuxInv
        OBVIOUS
    <2> USE UdpMuxAssumption DEF MuxInit
    <2>1. \A q \in Query, t \in Txid : <<Servers[q][1], t>> \in Key
        <3>1. \A q \in Query : 1 \in 1 .. Len(Servers[q])
            BY SMTT(30)
        <3>2. ASSUME NEW q \in Query PROVE Servers[q][1] \in Peer
            <4>1. Servers[q][1] \in {Servers[q][i] : i \in 1 .. Len(Servers[q])}
                BY <3>1
            <4>2. {Servers[q][i] : i \in 1 .. Len(Servers[q])}
                    \in {{Servers[p][i] : i \in 1 .. Len(Servers[p])} : p \in Query}
                OBVIOUS
            <4> QED
                BY <4>1, <4>2 DEF Peer
        <3> QED
            BY <3>2 DEF Key
    <2>2. MuxTypeOK
        BY <2>1, SMTT(30) DEF MuxTypeOK, Armed, Ended
    <2> QED
        BY <2>2 DEF MuxInv, SlotNotWedged, SenderIsGone, KeyIsCurrent, AnswersOwnName
<1> QED
    BY <1>1, MuxStep, PTL DEF MuxSpec

\* No timeout, send error, late datagram or dropped future leaves a (peer, txid)
\* slot of the pending map occupied by a query that will not free it (the
\* Cleanup guard of UpstreamUdpChannel::query).
THEOREM SlotsAreFreed == MuxSpec => []SlotNotWedged
<1>1. MuxInv => SlotNotWedged
    BY DEF MuxInv
<1> QED
    BY <1>1, MuxInvariant, PTL

\* A datagram is traceable to the attempt that asked for it, which is a past one
\* or has been sent under the datagram's key.
Traceable(d) ==
    LET r == d.asker
    IN  /\ d.attempt <= server[r]
        /\ server[r] = d.attempt => at[r] \notin {"build", "send"} /\ key[r] = d.key

Registered ==
    \A q \in Query : at[q] \in {"send", "wait"} /\ rx[q] = Empty => pending[key[q]] = q

\* An attempt that waits on an empty oneshot has its slot, and a datagram that
\* was handed over is one its own attempt no longer waits for.
StrayInv ==
    /\ Registered
    /\ \A d \in net : Traceable(d)
    /\ \A q \in Query : rx[q] \in Datagram => Traceable(rx[q]) /\ ~Awaited(rx[q])
    /\ \A q \in Query : at[q] = "done" =>
          answer[q] \in Datagram /\ Traceable(answer[q]) /\ ~Awaited(answer[q])

\* An attempt, once sent, does not wait again: every step leaves it where it was,
\* moves it on, or goes to a later attempt.
Onward(r) ==
    /\ server[r] <= server'[r]
    /\ server'[r] = server[r] /\ at[r] \notin {"build", "send"} =>
          /\ at'[r] \notin {"build", "send"}
          /\ key'[r] = key[r]
          /\ at'[r] = "wait" => at[r] = "wait"
          /\ rx'[r] = Empty => rx[r] = Empty

\* Every step moves every future onward (UpstreamClient::query).
LEMMA AttemptsMoveOn ==
    ASSUME MuxInv, [MuxNext]_muxVars, NEW r \in Query
    PROVE  Onward(r)
<1> USE DEF MuxInv
<1>0. server[r] \in Nat /\ Empty # Closed /\ Empty \notin Datagram
    BY UdpMuxAssumption DEF MuxTypeOK
<1>1. ASSUME NEW q \in Query, TryNext(q), UNCHANGED key, rx'[r] = Empty => rx[r] = Empty
      PROVE  Onward(r)
    <2>1. CASE q = r
        BY <1>0, <1>1, <2>1, TryNextMovesOn, SMTT(30) DEF Onward
    <2>2. CASE q # r
        BY <1>0, <1>1, <2>2, TryNextMovesOn, SMTT(30) DEF Onward
    <2> QED
        BY <2>1, <2>2
<1>2. ASSUME NEW q \in Query, NEW t \in Txid, Register(q, t) \/ Collision(q, t)
      PROVE  Onward(r)
    <2>1. CASE Register(q, t)
        BY <1>0, <2>1, SMTT(30) DEF Register, MuxTypeOK, Onward
    <2>2. CASE Collision(q, t)
        BY <1>1, <2>2 DEF Collision
    <2> QED
        BY <1>2, <2>1, <2>2
<1>3. ASSUME NEW q \in Query, \/ Send(q) \/ SendFails(q) \/ Accept(q) \/ Truncated(q)
                                \/ TcpAnswers(q) \/ TimedOut(q) \/ ChannelClosed(q) \/ CancelQuery(q)
      PROVE  Onward(r)
    <2>1. /\ UNCHANGED <<server, key, rx>>
          /\ \E s \in {"wait", "exit", "done", "tcp", "cancelled", "dropped"} :
                /\ at' = [at EXCEPT ![q] = s]
                /\ s = "wait" => at[q] = "send"
        BY <1>3 DEF Send, SendFails, Accept, Truncated, TcpAnswers, TimedOut, ChannelClosed, CancelQuery
    <2> QED
        BY <1>0, <2>1, SMTT(30) DEF MuxTypeOK, Onward
<1>4. ASSUME NEW q \in Query, Reject(q) \/ TcpFails(q)
      PROVE  Onward(r)
    BY <1>1, <1>4 DEF Reject, TcpFails
<1>5. ASSUME NEW q \in Query, Cleanup(q)
      PROVE  Onward(r)
    <2>1. UNCHANGED key /\ Release(q)
        BY <1>5 DEF Cleanup
    <2>2. rx'[r] = Empty => rx[r] = Empty
        BY <1>0, <2>1 DEF Release, MuxTypeOK
    <2>3. CASE TryNext(q)
        BY <1>1, <2>1, <2>2, <2>3
    <2>4. CASE at' = [at EXCEPT ![q] = "cancelled"] /\ UNCHANGED server
        BY <1>0, <2>1, <2>2, <2>4, SMTT(30) DEF MuxTypeOK, Onward
    <2> QED
        BY <1>5, <2>3, <2>4 DEF Cleanup
<1>6. ASSUME NEW d \in net, Demux(d) \/ Lose(d)
      PROVE  Onward(r)
    <2>1. UNCHANGED <<at, server, key>>
        BY <1>6 DEF Demux, Lose
    <2>2. rx'[r] = Empty => rx[r] = Empty
        <3>1. d \in Datagram
            BY DEF MuxTypeOK
        <3> QED
            BY <1>0, <1>6, <3>1 DEF Demux, Lose, MuxTypeOK
    <2> QED
        BY <1>0, <2>1, <2>2, SMTT(30) DEF Onward
<1>7. CASE UNCHANGED muxVars
    BY <1>0, <1>7, SMTT(30) DEF muxVars, Onward
<1> QED
    BY <1>2, <1>3, <1>4, <1>5, <1>6, <1>7 DEF MuxNext, Step

\* So what is known of a datagram stays true of it.
LEMMA TracesLast ==
    ASSUME MuxInv, [MuxNext]_muxVars, NEW d \in Datagram, Traceable(d)
    PROVE  Traceable(d)' /\ (~Awaited(d) => ~Awaited(d)')
<1>1. /\ d.asker \in Query /\ d.attempt \in Nat
      /\ server[d.asker] \in Nat /\ server'[d.asker] \in Nat
    <2>1. MuxInv'
        BY MuxStep
    <2> QED
        BY <2>1 DEF Datagram, MuxInv, MuxTypeOK
<1>2. Onward(d.asker)
    BY <1>1, AttemptsMoveOn
<1>3. CASE server'[d.asker] = server[d.asker]
    BY <1>1, <1>2, <1>3, SMTT(30) DEF Onward, Traceable, Awaited
<1>4. CASE server'[d.asker] # server[d.asker]
    <2>1. d.attempt < server'[d.asker]
        BY <1>1, <1>2, <1>4, SMTT(30) DEF Onward, Traceable
    <2>2. d.attempt # server'[d.asker] /\ d.attempt <= server'[d.asker]
        BY <1>1, <2>1, SMTT(30)
    <2> QED
        BY <2>2 DEF Traceable, Awaited
<1> QED
    BY <1>3, <1>4

\* Only its own future, or the demultiplexer, ends an attempt's registration, and
\* the oneshot shows it.
LEMMA WaitersAreRegistered ==
    ASSUME MuxInv, Registered, [MuxNext]_muxVars
    PROVE  Registered'
<1> USE UdpMuxAssumption DEF MuxInv
<1> SUFFICES ASSUME NEW p \in Query, at'[p] \in {"send", "wait"}, rx'[p] = Empty
             PROVE  pending'[key'[p]] = p
    BY DEF Registered
<1>0. key[p] \in Key /\ Query \cap {NoQuery} = {}
    BY DEF MuxTypeOK
<1>1. ASSUME NEW q \in Query, NEW t \in Txid, Register(q, t)
      PROVE  pending'[key'[p]] = p
    <2>1. <<Servers[q][server[q]], t>> \in Key
        BY SMTT(30) DEF Key, Peer, MuxTypeOK
    <2>2. CASE p = q
        BY <1>1, <2>1, <2>2 DEF Register, MuxTypeOK
    <2>3. CASE p # q
        <3>1. at'[p] = at[p] /\ rx'[p] = rx[p] /\ key'[p] = key[p]
            BY <1>1, <2>3 DEF Register, MuxTypeOK
        <3>2. pending[key[p]] = p
            BY <3>1 DEF Registered
        <3> QED
            BY <1>0, <1>1, <2>1, <3>1, <3>2 DEF Register, MuxTypeOK
    <2> QED
        BY <2>2, <2>3
<1>2. ASSUME NEW q \in Query, TryNext(q), UNCHANGED <<key, pending, rx>>
      PROVE  pending'[key'[p]] = p
    BY <1>2, TryNextMovesOn DEF Registered
<1>3. ASSUME NEW q \in Query, NEW t \in Txid, Collision(q, t)
      PROVE  pending'[key'[p]] = p
    BY <1>2, <1>3 DEF Collision
<1>4. ASSUME NEW q \in Query, Reject(q) \/ TcpFails(q)
      PROVE  pending'[key'[p]] = p
    BY <1>2, <1>4 DEF Reject, TcpFails
<1>5. ASSUME NEW q \in Query, \/ Send(q) \/ SendFails(q) \/ Accept(q) \/ Truncated(q)
                                \/ TcpAnswers(q) \/ TimedOut(q) \/ ChannelClosed(q) \/ CancelQuery(q)
      PROVE  pending'[key'[p]] = p
    <2>1. /\ UNCHANGED <<key, rx, pending>>
          /\ \E s \in {"wait", "exit", "done", "tcp", "cancelled", "dropped"} :
                /\ at' = [at EXCEPT ![q] = s]
                /\ s = "wait" => at[q] = "send"
        BY <1>5 DEF Send, SendFails, Accept, Truncated, TcpAnswers, TimedOut, ChannelClosed, CancelQuery
    <2>2. at[p] \in {"send", "wait"}
        BY <2>1 DEF MuxTypeOK
    <2> QED
        BY <2>1, <2>2 DEF Registered
<1>6. ASSUME NEW q \in Query, Cleanup(q)
      PROVE  pending'[key'[p]] = p
    <2>1. UNCHANGED key /\ Release(q)
        BY <1>6 DEF Cleanup
    <2>2. at[p] \in {"send", "wait"}
        <3>1. TryNext(q) \/ at' = [at EXCEPT ![q] = "cancelled"]
            BY <1>6 DEF Cleanup
        <3>2. CASE TryNext(q)
            BY <3>2, TryNextMovesOn
        <3>3. CASE at' = [at EXCEPT ![q] = "cancelled"]
            BY <3>3 DEF MuxTypeOK
        <3> QED
            BY <3>1, <3>2, <3>3
    <2>3. rx[p] = Empty /\ p # pending[key[q]]
        BY <1>0, <2>1 DEF Release, MuxTypeOK
    <2>4. pending[key[p]] = p
        BY <2>2, <2>3 DEF Registered
    <2> QED
        BY <1>0, <2>1, <2>3, <2>4 DEF Release, MuxTypeOK
<1>7. ASSUME NEW d \in net, Demux(d)
      PROVE  pending'[key'[p]] = p
    <2>1. d \in Datagram /\ d.key \in Key /\ d # Empty
        BY DEF MuxTypeOK, Datagram
    <2>2. rx[p] = Empty /\ p # pending[d.key]
        BY <1>0, <1>7, <2>1 DEF Demux, MuxTypeOK
    <2>3. pending[key[p]] = p
        BY <1>7, <2>2 DEF Demux, Registered
    <2> QED
        BY <1>0, <1>7, <2>1, <2>2, <2>3 DEF Demux, MuxTypeOK
<1>8. CASE UNCHANGED muxVars \/ \E d \in net : Lose(d)
    BY <1>8 DEF muxVars, Lose, Registered
<1> QED
    BY <1>1, <1>3, <1>4, <1>5, <1>6, <1>7, <1>8 DEF MuxNext, Step

\* Where a datagram on the network, in a oneshot or in an answer comes from.
LEMMA DatagramSources ==
    ASSUME MuxInv, [MuxNext]_muxVars
    PROVE  /\ \A d \in net' : d \in net \/ \E q \in Query : Send(q) /\ d = AnswerTo(q)
           /\ \A q \in Query : \/ rx'[q] = rx[q] \/ rx'[q] \in {Empty, Closed}
                               \/ \E d \in net : Demux(d) /\ q = pending[d.key] /\ rx'[q] = d
           /\ \A q \in Query : \/ at'[q] # "done" \/ Accept(q) \/ TcpAnswers(q)
                               \/ (at[q] = "done" /\ answer'[q] = answer[q])
<1> USE DEF MuxInv
<1>1. ASSUME NEW q \in Query, NEW t \in Txid, Register(q, t) \/ Collision(q, t)
      PROVE  /\ net' = net /\ answer' = answer
             /\ \A p \in Query : rx'[p] = rx[p] \/ rx'[p] = Empty
             /\ \A p \in Query : at'[p] # "done" \/ at[p] = "done"
    BY <1>1, TryNextMovesOn, SMTT(30) DEF Register, Collision, MuxTypeOK
<1>2. ASSUME NEW q \in Query, Send(q)
      PROVE  /\ net' = net \cup {AnswerTo(q)} /\ UNCHANGED <<answer, rx>>
             /\ \A p \in Query : at'[p] # "done" \/ at[p] = "done"
    BY <1>2 DEF Send, MuxTypeOK
<1>3. ASSUME NEW q \in Query, \/ SendFails(q) \/ Truncated(q) \/ TimedOut(q)
                                \/ ChannelClosed(q) \/ CancelQuery(q)
      PROVE  /\ UNCHANGED <<net, answer, rx>>
             /\ \A p \in Query : at'[p] # "done" \/ at[p] = "done"
    BY <1>3, SMTT(30) DEF SendFails, Truncated, TimedOut, ChannelClosed, CancelQuery, MuxTypeOK
<1>4. ASSUME NEW q \in Query, Reject(q) \/ TcpFails(q)
      PROVE  /\ UNCHANGED <<net, answer, rx>>
             /\ \A p \in Query : at'[p] # "done" \/ at[p] = "done"
    BY <1>4, TryNextMovesOn, SMTT(30) DEF Reject, TcpFails
<1>5. ASSUME NEW q \in Query, Accept(q) \/ TcpAnswers(q)
      PROVE  /\ UNCHANGED <<net, rx>>
             /\ \A p \in Query : p = q \/ (at'[p] = at[p] /\ answer'[p] = answer[p])
    BY <1>5 DEF Accept, TcpAnswers, MuxTypeOK
<1>6. ASSUME NEW q \in Query, Cleanup(q)
      PROVE  /\ UNCHANGED <<net, answer>>
             /\ \A p \in Query : rx'[p] = rx[p] \/ rx'[p] = Closed
             /\ \A p \in Query : at'[p] # "done" \/ at[p] = "done"
    <2>1. UNCHANGED <<net, answer>> /\ Release(q)
        BY <1>6 DEF Cleanup
    <2>2. \A p \in Query : rx'[p] = rx[p] \/ rx'[p] = Closed
        BY <2>1 DEF Release, MuxTypeOK
    <2>3. TryNext(q) \/ at' = [at EXCEPT ![q] = "cancelled"]
        BY <1>6 DEF Cleanup
    <2>4. \A p \in Query : at'[p] # "done" \/ at[p] = "done"
        <3>1. CASE TryNext(q)
            BY <3>1, TryNextMovesOn, SMTT(30)
        <3>2. CASE at' = [at EXCEPT ![q] = "cancelled"]
            BY <3>2 DEF MuxTypeOK
        <3> QED
            BY <2>3, <3>1, <3>2
    <2> QED
        BY <2>1, <2>2, <2>4
<1>7. ASSUME NEW d \in net, Demux(d) \/ Lose(d)
      PROVE  /\ \A e \in net' : e \in net
             /\ UNCHANGED <<at, answer>>
             /\ \A p \in Query : rx'[p] = rx[p] \/ (Demux(d) /\ p = pending[d.key] /\ rx'[p] = d)
    BY <1>7 DEF Demux, Lose, MuxTypeOK
<1>8. CASE UNCHANGED muxVars
    BY <1>8 DEF muxVars
<1> QED
    <2>1. \A d \in net' : d \in net \/ \E q \in Query : Send(q) /\ d = AnswerTo(q)
        BY <1>1, <1>2, <1>3, <1>4, <1>5, <1>6, <1>7, <1>8 DEF MuxNext, Step
    <2>2. \A q \in Query : \/ rx'[q] = rx[q] \/ rx'[q] \in {Empty, Closed}
                           \/ \E d \in net : Demux(d) /\ q = pending[d.key] /\ rx'[q] = d
        BY <1>1, <1>2, <1>3, <1>4, <1>5, <1>6, <1>7, <1>8 DEF MuxNext, Step
    <2>3. \A q \in Query : \/ at'[q] # "done" \/ Accept(q) \/ TcpAnswers(q)
                           \/ (at[q] = "done" /\ answer'[q] = answer[q])
        BY <1>1, <1>2, <1>3, <1>4, <1>5, <1>6, <1>7, <1>8 DEF MuxNext, Step
    <2> QED
        BY <2>1, <2>2, <2>3

\* An answer comes from the server being asked and is about the name asked for;
\* an answer that strayed from another future is one nobody waits for, whatever
\* TXIDs are drawn again while answers are late, duplicated or lost.
THEOREM StraysAreStale == MuxSpec => []StrayAnswersAreStale
<1>1. MuxInit => StrayInv
    BY UdpMuxAssumption DEF MuxInit, StrayInv, Registered
<1>2. MuxInv /\ StrayInv /\ [MuxNext]_muxVars => StrayInv'
    <2> SUFFICES ASSUME MuxInv, StrayInv, [MuxNext]_muxVars PROVE StrayInv'
        OBVIOUS
    <2>1. Registered'
        BY WaitersAreRegistered DEF StrayInv
    <2>2. MuxTypeOK /\ MuxTypeOK'
        BY MuxStep DEF MuxInv
    <2>3. ASSUME NEW d \in net' PROVE Traceable(d)'
        <3>1. CASE d \in net
            BY <2>2, <3>1, TracesLast DEF StrayInv, MuxTypeOK
        <3>2. ASSUME NEW q \in Query, Send(q), d = AnswerTo(q)
              PROVE  Traceable(d)'
            <4>1. d.asker = q /\ d.attempt = server[q] /\ d.key = key[q]
                BY <3>2 DEF AnswerTo
            <4>2. UNCHANGED <<server, key>> /\ at'[q] = "wait"
                BY <2>2, <3>2 DEF Send, MuxTypeOK
            <4>3. server[q] <= server[q]
                BY <2>2, SMTT(30) DEF MuxTypeOK
            <4> QED
                BY <4>1, <4>2, <4>3 DEF Traceable
        <3> QED
            BY <3>1, <3>2, DatagramSources
    <2>4. ASSUME NEW q \in Query, NEW e \in Datagram, rx'[q] = e
          PROVE  Traceable(e)' /\ ~Awaited(e)'
        <3>1. CASE rx'[q] = rx[q]
            BY <2>4, <3>1, TracesLast DEF StrayInv
        <3>2. ASSUME NEW d \in net, Demux(d), q = pending[d.key], rx'[q] = d
              PROVE  Traceable(e)' /\ ~Awaited(e)'
            <4>1. Traceable(d) /\ d \in Datagram
                BY <2>2 DEF StrayInv, MuxTypeOK
            <4>2. Traceable(d)'
                BY <4>1, TracesLast
            <4>3. ASSUME Awaited(d)' PROVE FALSE
                <5>1. /\ d.asker \in Query /\ d.asker # q
                      /\ at[d.asker] = "wait" /\ server[d.asker] = d.attempt /\ rx[d.asker] = Empty
                    <6>1. UNCHANGED <<at, server>> /\ d.asker \in Query /\ Empty \notin Datagram
                        BY <3>2, <4>1, UdpMuxAssumption DEF Demux, Datagram
                    <6>2. d.asker # q
                        BY <3>2, <4>1, <4>3, <6>1 DEF Awaited
                    <6>3. rx'[d.asker] = rx[d.asker]
                        BY <2>2, <3>2, <6>1, <6>2 DEF Demux, MuxTypeOK
                    <6> QED
                        BY <4>3, <6>1, <6>2, <6>3 DEF Awaited
                <5>2. pending[key[d.asker]] = d.asker /\ key[d.asker] = d.key
                    BY <4>1, <5>1 DEF StrayInv, Registered, Traceable
                <5> QED
                    BY <3>2, <5>1, <5>2
            <4> QED
                BY <2>4, <3>2, <4>2, <4>3
        <3>3. rx'[q] \notin {Empty, Closed}
            BY <2>4, UdpMuxAssumption
        <3> QED
            BY <3>1, <3>2, <3>3, DatagramSources
    <2>5. ASSUME NEW q \in Query, at'[q] = "done", NEW e, answer'[q] = e
          PROVE  e \in Datagram /\ Traceable(e)' /\ ~Awaited(e)'
        <3>1. CASE at[q] = "done" /\ answer'[q] = answer[q]
            BY <2>5, <3>1, TracesLast DEF StrayInv
        <3>2. CASE Accept(q)
            <4>1. e = rx[q] /\ rx[q] \in Datagram
                BY <2>2, <2>5, <3>2 DEF Accept, MuxTypeOK
            <4> QED
                BY <4>1, TracesLast DEF StrayInv
        <3>3. CASE TcpAnswers(q)
            <4>1. e = AnswerTo(q) /\ UNCHANGED <<server, key>>
                BY <2>2, <2>5, <3>3 DEF TcpAnswers, MuxTypeOK
            <4>2. e.asker = q /\ e.attempt = server[q] /\ e.key = key[q] /\ e \in Datagram
                <5>1. key[q] \in Key /\ server[q] \in Nat
                    BY <2>2 DEF MuxTypeOK
                <5> QED
                    BY <4>1, <5>1 DEF AnswerTo, Datagram
            <4>3. server[q] <= server[q]
                BY <2>2, SMTT(30) DEF MuxTypeOK
            <4> QED
                BY <2>5, <4>1, <4>2, <4>3 DEF Traceable, Awaited
        <3> QED
            BY <2>5, <3>1, <3>2, <3>3, DatagramSources
    <2>6. \A q \in Query : rx'[q] \in Datagram => Traceable(rx[q])' /\ ~Awaited(rx[q])'
        BY <2>4 DEF Traceable, Awaited
    <2>7. \A q \in Query : at'[q] = "done" =>
              answer'[q] \in Datagram /\ Traceable(answer[q])' /\ ~Awaited(answer[q])'
        BY <2>5 DEF Traceable, Awaited
    <2> QED
        BY <2>1, <2>3, <2>6, <2>7 DEF StrayInv
<1>3. MuxInv /\ StrayInv => StrayAnswersAreStale
    BY DEF MuxInv, AnswersOwnName, StrayInv, StrayAnswersAreStale
<1> QED
    BY <1>1, <1>2, <1>3, MuxInvariant, PTL DEF MuxSpec

(***************************************************************************)
(* DotPool.                                                                *)
(***************************************************************************)
Conn == [stream : Stream, created_at : Nat, last_used : Nat]

Purpose == [domain : Domain \cup {NoUser}, via : {"none", "direct", "tor"}]

PoolTypeOK ==
    /\ now \in Nat
    /\ tor_socks \in BOOLEAN
    /\ idle \in [DotConnKey -> Seq(Conn)]
    /\ pc \in [Task -> {"ready", "take", "build", "handshake", "write", "read",
                        "answered", "failed", "cancelled"}]
    /\ domain \in [Task -> Domain \cup {NoUser}]
    /\ held \in [Task -> Stream \cup {NoStream}]
    /\ reused \subseteq Task
    /\ built \in [Stream -> Purpose]
    /\ unread \subseteq Stream

\* An exchange under way has a forwarder it may ask, and a stream exactly while
\* it writes or reads; only such a stream can owe a response.
ExchangeState ==
    /\ \A t \in Task :
         /\ held[t] # NoStream <=> pc[t] \in {"write", "read"}
         /\ pc[t] \in {"take", "build", "handshake", "write", "read"} =>
              /\ domain[t] \in Domain
              /\ Via[domain[t]] = "tor" => tor_socks
    /\ unread \subseteq {held[t] : t \in Task}

\* A stream of a bucket was built as the bucket's key says.
BuiltForKey ==
    \A k \in DotConnKey : \A i \in DOMAIN idle[k] :
        LET b == built[idle[k][i].stream] IN
        /\ b.via = k.via
        /\ k.via = "tor" => tor_socks /\ b.domain = k.iso_user

PoolInv == PoolTypeOK /\ ExchangeState /\ BuiltForKey /\ ExclusiveUse /\ CircuitIsolation

-----------------------------------------------------------------------------
\* A non-empty set of indices has a greatest one, and Max finds it.
LEMMA MaxOfIndices ==
    ASSUME NEW n \in Nat, NEW S \in SUBSET (1..n), S # {}
    PROVE  Max(S) \in S /\ \A j \in S : j <= Max(S)
<1> DEFINE D == {n - x : x \in S}
<1>1. D \subseteq Nat /\ D # {}
    <2>1. \A x \in S : n - x \in Nat
        BY SMTT(30)
    <2> QED
        BY <2>1
<1>2. PICK d \in D : \A e \in D : ~(<<e, d>> \in OpToRel(<, Nat))
    BY <1>1, NatLessThanWellFounded, WFMin
<1>3. PICK x \in S : d = n - x
    OBVIOUS
<1>4. \A y \in S : y <= x
    <2> TAKE y \in S
    <2>1. n - y \in D /\ n - y \in Nat /\ d \in Nat
        BY <1>1
    <2>2. ~(n - y < d)
        BY <1>2, <2>1 DEF OpToRel
    <2> QED
        BY <1>3, <2>2, SMTT(30)
<1> QED
    BY <1>4 DEF Max

\* The key of a forwarder is a key of the pool.
LEMMA KeyOfIsKey ==
    ASSUME NEW d \in Domain
    PROVE  /\ KeyOf(d) \in DotConnKey
           /\ KeyOf(d).via = Via[d]
           /\ Via[d] = "tor" => KeyOf(d).iso_user = d
    BY DotPoolAssumption DEF KeyOf, DotConnKey

\* The first entries of a bucket are entries of the bucket.
LEMMA FrontOfBucket ==
    ASSUME NEW b \in Seq(Conn), NEW n \in 1..Len(b)
    PROVE  /\ SubSeq(b, 1, n - 1) \in Seq(Conn)
           /\ DOMAIN SubSeq(b, 1, n - 1) = 1..(n - 1)
           /\ \A i \in 1..(n - 1) : SubSeq(b, 1, n - 1)[i] = b[i]
    BY SMTT(30)

\* When buckets only lose entries, and streams still owned keep what they were
\* built for, the facts about pooled streams are kept.
LEMMA BucketsShrink ==
    ASSUME PoolTypeOK, BuiltForKey, ExclusiveUse, tor_socks' = tor_socks,
           \A k \in DotConnKey :
               /\ DOMAIN idle'[k] \subseteq DOMAIN idle[k]
               /\ \A i \in DOMAIN idle'[k] : idle'[k][i] = idle[k][i],
           \A s \in Pooled' : built'[s] = built[s]
    PROVE  /\ Pooled' \subseteq Pooled
           /\ BuiltForKey'
           /\ \A k, l \in DotConnKey : \A i \in DOMAIN idle'[k], j \in DOMAIN idle'[l] :
                 idle'[k][i].stream = idle'[l][j].stream => <<k, i>> = <<l, j>>
<1>1. Pooled' \subseteq Pooled
    BY SMTT(30) DEF Pooled
<1>2. BuiltForKey'
    <2> SUFFICES ASSUME NEW k \in DotConnKey, NEW i \in DOMAIN idle'[k]
                 PROVE  LET b == built'[idle'[k][i].stream] IN
                        /\ b.via = k.via
                        /\ k.via = "tor" => tor_socks /\ b.domain = k.iso_user
        BY DEF BuiltForKey
    <2>1. i \in DOMAIN idle[k] /\ idle'[k][i] = idle[k][i] /\ idle[k][i] \in Conn
        BY SMTT(30) DEF PoolTypeOK
    <2>2. idle'[k][i].stream \in Pooled'
        BY <2>1 DEF Pooled, Conn
    <2>3. built'[idle'[k][i].stream] = built[idle[k][i].stream]
        BY <2>1, <2>2
    <2> QED
        BY <2>1, <2>3, SMTT(30) DEF BuiltForKey
<1>3. \A k, l \in DotConnKey : \A i \in DOMAIN idle'[k], j \in DOMAIN idle'[l] :
                 idle'[k][i].stream = idle'[l][j].stream => <<k, i>> = <<l, j>>
    <2> SUFFICES ASSUME NEW k \in DotConnKey, NEW l \in DotConnKey,
                        NEW i \in DOMAIN idle'[k], NEW j \in DOMAIN idle'[l],
                        idle'[k][i].stream = idle'[l][j].stream
                 PROVE  <<k, i>> = <<l, j>>
        OBVIOUS
    <2>1. /\ i \in DOMAIN idle[k] /\ idle'[k][i] = idle[k][i]
          /\ j \in DOMAIN idle[l] /\ idle'[l][j] = idle[l][j]
        OBVIOUS
    <2>2. idle[k][i].stream = idle[l][j].stream
        BY <2>1
    <2> QED
        BY <2>1, <2>2, SMTT(30) DEF ExclusiveUse
<1> QED
    BY <1>1, <1>2, <1>3

-----------------------------------------------------------------------------
\* The pool keeps its types, every stream in one place, and in every bucket only
\* streams of the bucket's circuit.
THEOREM PoolInvariant == PoolSpec => []PoolInv
<1> USE DotPoolAssumption
<1>1. PoolInit => PoolInv
    <2> SUFFICES ASSUME PoolInit PROVE PoolInv
        OBVIOUS
    <2>1. PoolTypeOK
        <3>1. Unbuilt \in Purpose
            BY DEF Unbuilt, Purpose
        <3>2. <<>> \in Seq(Conn)
            BY SMTT(30)
        <3> QED
            BY <3>1, <3>2 DEF PoolInit, PoolTypeOK
    <2>2. \A k \in DotConnKey : DOMAIN idle[k] = {}
        BY SMTT(30) DEF PoolInit
    <2>3. Pooled = {}
        BY <2>2 DEF Pooled
    <2> QED
        BY <2>1, <2>2, <2>3 DEF PoolInit, PoolInv, ExchangeState, BuiltForKey, ExclusiveUse, CircuitIsolation
<1>2. PoolInv /\ [PoolNext]_poolVars => PoolInv'
    <2> SUFFICES ASSUME PoolInv, [PoolNext]_poolVars
                 PROVE  PoolInv'
        OBVIOUS
    <2> USE DEF PoolInv
    <2>1. ASSUME NEW t \in Task, NEW d \in Domain, Ask(t, d) PROVE PoolInv'
        <3>1. PoolTypeOK'
            BY <2>1 DEF Ask, PoolTypeOK
        <3>2. held[t] = NoStream
            BY <2>1 DEF Ask, ExchangeState
        <3>3. ExchangeState'
            BY <2>1, SMTT(30) DEF Ask, PoolTypeOK, ExchangeState
        <3>4. BuiltForKey' /\ ExclusiveUse'
            BY <2>1, SMTT(30) DEF Ask, BuiltForKey, ExclusiveUse, Pooled
        <3>5. CircuitIsolation'
            BY <2>1, <3>2 DEF Ask, PoolTypeOK, CircuitIsolation
        <3> QED
            BY <3>1, <3>3, <3>4, <3>5
    <2>2. ASSUME NEW t \in Task, Take(t) PROVE PoolInv'
        <3> DEFINE k == KeyOf(domain[t])
                   fresh == {i \in DOMAIN idle[k] : ~is_stale(idle[k][i])}
                   last == Max(fresh)
        <3>1. domain[t] \in Domain /\ k \in DotConnKey /\ idle[k] \in Seq(Conn)
            BY <2>2, KeyOfIsKey DEF Take, ExchangeState, PoolTypeOK
        <3>2. held[t] = NoStream /\ pc[t] = "take"
            BY <2>2 DEF Take, ExchangeState
        <3>3. CASE fresh = {}
            <4>1. /\ idle' = [idle EXCEPT ![k] = <<>>]
                  /\ pc' = [pc EXCEPT ![t] = "build"]
                  /\ UNCHANGED <<held, reused, now, tor_socks, domain, unread>>
                  /\ DropClosed({})
                BY <2>2, <3>3 DEF Take
            <4>2. PoolTypeOK'
                <5>1. Unbuilt \in Purpose
                    BY DEF Unbuilt, Purpose
                <5> QED
                    BY <3>1, <4>1, <5>1, SMTT(30) DEF PoolTypeOK, DropClosed
            <4>3. ExchangeState'
                BY <3>1, <3>2, <4>1, SMTT(30) DEF PoolTypeOK, ExchangeState
            <4>4. \A s \in Open' : s \in Stream => built'[s] = built[s]
                BY <4>1 DEF DropClosed
            <4>5. \A j \in DotConnKey :
                      /\ DOMAIN idle'[j] \subseteq DOMAIN idle[j]
                      /\ \A i \in DOMAIN idle'[j] : idle'[j][i] = idle[j][i]
                BY <3>1, <4>1, SMTT(30) DEF PoolTypeOK
            <4>6. Pooled' \subseteq Stream
                BY DEF Pooled
            <4>7. /\ Pooled' \subseteq Pooled
                  /\ BuiltForKey'
                  /\ \A j, l \in DotConnKey : \A i \in DOMAIN idle'[j], m \in DOMAIN idle'[l] :
                        idle'[j][i].stream = idle'[l][m].stream => <<j, i>> = <<l, m>>
                BY <4>1, <4>4, <4>5, <4>6, BucketsShrink DEF Open
            <4>8. ExclusiveUse'
                BY <4>1, <4>7, SMTT(30) DEF ExclusiveUse
            <4>9. CircuitIsolation'
                BY <4>1, <4>4, SMTT(30) DEF CircuitIsolation, Open, PoolTypeOK
            <4> QED
                BY <4>2, <4>3, <4>7, <4>8, <4>9
        <3>4. CASE fresh # {}
            <4> DEFINE s0 == idle[k][last].stream
            <4>1. /\ idle' = [idle EXCEPT ![k] = SubSeq(@, 1, last - 1)]
                  /\ pc' = [pc EXCEPT ![t] = "write"]
                  /\ held' = [held EXCEPT ![t] = s0]
                  /\ reused' = reused \cup {t}
                  /\ UNCHANGED <<now, tor_socks, domain, unread>>
                  /\ DropClosed({})
                BY <2>2, <3>4 DEF Take
            <4>2. last \in 1..Len(idle[k]) /\ last \in DOMAIN idle[k]
                <5>1. fresh \in SUBSET (1..Len(idle[k])) /\ Len(idle[k]) \in Nat
                    BY <3>1, SMTT(30)
                <5> QED
                    BY <3>4, <5>1, MaxOfIndices
            <4>3. s0 \in Stream /\ s0 # NoStream /\ s0 \in Pooled
                <5>1. idle[k][last] \in Conn
                    <6> HIDE DEF k, last
                    <6> QED
                        BY <3>1, <4>2, SMTT(30)
                <5>2. s0 \in Stream
                    BY <5>1 DEF Conn
                <5> QED
                    BY <3>1, <4>2, <5>2 DEF Pooled
            <4>4. \A j \in DotConnKey :
                      /\ idle'[j] \in Seq(Conn)
                      /\ DOMAIN idle'[j] \subseteq DOMAIN idle[j]
                      /\ \A i \in DOMAIN idle'[j] : idle'[j][i] = idle[j][i]
                      /\ j = k => last \notin DOMAIN idle'[j]
                <5>1. /\ SubSeq(idle[k], 1, last - 1) \in Seq(Conn)
                      /\ DOMAIN SubSeq(idle[k], 1, last - 1) = 1..(last - 1)
                      /\ \A i \in 1..(last - 1) : SubSeq(idle[k], 1, last - 1)[i] = idle[k][i]
                    BY <3>1, <4>2, FrontOfBucket
                <5>2. 1..(last - 1) \subseteq DOMAIN idle[k] /\ last \notin 1..(last - 1)
                    <6>1. DOMAIN idle[k] = 1..Len(idle[k]) /\ Len(idle[k]) \in Nat
                        BY <3>1, SMTT(30)
                    <6> HIDE DEF last, k
                    <6> QED
                        BY <4>2, <6>1, SMTT(30)
                <5> QED
                    BY <3>1, <4>1, <5>1, <5>2 DEF PoolTypeOK
            <4>5. PoolTypeOK'
                <5>1. Unbuilt \in Purpose
                    BY DEF Unbuilt, Purpose
                <5>2. idle' \in [DotConnKey -> Seq(Conn)]
                    BY <4>1, <4>4 DEF PoolTypeOK
                <5> QED
                    BY <4>1, <4>3, <5>1, <5>2 DEF PoolTypeOK, DropClosed
            <4>6. ExchangeState'
                <5>1. \A u \in Task : u # t => held'[u] = held[u] /\ pc'[u] = pc[u]
                    BY <4>1 DEF PoolTypeOK
                <5>2. held'[t] = s0 /\ pc'[t] = "write" /\ held[t] = NoStream
                    BY <3>2, <4>1 DEF PoolTypeOK
                <5>3. unread' \subseteq {held'[u] : u \in Task}
                    BY <4>1, <5>1, <5>2, SMTT(30) DEF ExchangeState, PoolTypeOK
                <5> QED
                    BY <3>2, <4>1, <4>3, <5>1, <5>2, <5>3 DEF ExchangeState
            <4>7. \A s \in Open' : s \in Stream => built'[s] = built[s]
                BY <4>1 DEF DropClosed
            <4>8. Pooled' \subseteq Stream
                BY DEF Pooled
            <4>9. /\ Pooled' \subseteq Pooled
                  /\ BuiltForKey'
                  /\ \A j, l \in DotConnKey : \A i \in DOMAIN idle'[j], m \in DOMAIN idle'[l] :
                        idle'[j][i].stream = idle'[l][m].stream => <<j, i>> = <<l, m>>
                BY <4>1, <4>4, <4>7, <4>8, BucketsShrink DEF Open
            <4>10. s0 \notin Pooled'
                <5> HIDE DEF s0, k, last
                <5> SUFFICES ASSUME NEW j \in DotConnKey, NEW i \in DOMAIN idle'[j],
                                    idle'[j][i].stream = s0
                             PROVE  FALSE
                    BY DEF Pooled
                <5>1. i \in DOMAIN idle[j] /\ idle[j][i].stream = idle[k][last].stream
                    BY <4>4 DEF s0
                <5>2. <<j, i>> = <<k, last>>
                    BY <3>1, <4>2, <5>1, SMTT(30) DEF ExclusiveUse
                <5> QED
                    BY <4>4, <5>2
            <4>11. ExclusiveUse'
                <5>1. \A u \in Task : held[u] # s0
                    BY <4>3 DEF ExclusiveUse
                <5>2. \A u \in Task : held'[u] = IF u = t THEN s0 ELSE held[u]
                    BY <4>1 DEF PoolTypeOK
                <5>3. \A u \in Task : held'[u] \notin Pooled'
                    BY <4>9, <4>10, <5>2 DEF ExclusiveUse
                <5>4. \A u, v \in Task : held'[u] = held'[v] /\ u # v => held'[u] = NoStream
                    BY <5>1, <5>2 DEF ExclusiveUse
                <5>5. Pooled' \cap unread' = {}
                    BY <4>1, <4>9 DEF ExclusiveUse
                <5> QED
                    BY <4>9, <5>3, <5>4, <5>5 DEF ExclusiveUse
            <4>12. CircuitIsolation'
                <5>1. \A u \in Task : held'[u] = IF u = t THEN s0 ELSE held[u]
                    BY <4>1 DEF PoolTypeOK
                <5>2. \A u \in Task : held'[u] # NoStream => built'[held'[u]] = built[held'[u]]
                    BY <4>5, <4>7 DEF Open, PoolTypeOK
                <5>3. /\ built[s0].via = Via[domain[t]]
                      /\ built[s0].via = "tor" => tor_socks /\ built[s0].domain = domain[t]
                    <6>1. /\ k.via = Via[domain[t]]
                          /\ Via[domain[t]] = "tor" => k.iso_user = domain[t]
                        BY <3>1, KeyOfIsKey
                    <6> HIDE DEF k, last
                    <6> QED
                        BY <3>1, <4>2, <6>1 DEF BuiltForKey
                <5> HIDE DEF s0
                <5> QED
                    BY <4>1, <5>1, <5>2, <5>3, SMTT(30) DEF CircuitIsolation
            <4> QED
                BY <4>5, <4>6, <4>9, <4>11, <4>12
        <3> QED
            BY <3>3, <3>4
    <2>3. ASSUME NEW t \in Task, Build(t) PROVE PoolInv'
        <3> DEFINE s0 == CHOOSE x \in Stream \ Open : TRUE
        <3>1. /\ held' = [held EXCEPT ![t] = s0]
              /\ built' = [built EXCEPT ![s0] = [domain |-> domain[t], via |-> Via[domain[t]]]]
              /\ pc[t] = "handshake" /\ pc' = [pc EXCEPT ![t] = "write"]
              /\ UNCHANGED <<now, tor_socks, idle, domain, reused, unread>>
            BY <2>3 DEF Build
        <3>2. s0 \in Stream /\ s0 \notin Open /\ s0 # NoStream
            BY <2>3 DEF Build
        <3> HIDE DEF s0
        <3>3. /\ domain[t] \in Domain /\ held[t] = NoStream
              /\ Via[domain[t]] \in {"direct", "tor"}
              /\ Via[domain[t]] = "tor" => tor_socks
            BY <3>1 DEF ExchangeState
        <3>4. \A u \in Task : held'[u] = IF u = t THEN s0 ELSE held[u]
            BY <3>1 DEF PoolTypeOK
        <3>5. PoolTypeOK'
            <4>1. [domain |-> domain[t], via |-> Via[domain[t]]] \in Purpose
                BY <3>3 DEF Purpose
            <4> QED
                BY <3>1, <3>2, <4>1 DEF PoolTypeOK
        <3>6. ExchangeState'
            <4>1. unread' \subseteq {held'[u] : u \in Task}
                BY <3>1, <3>3, <3>4, SMTT(30) DEF ExchangeState, PoolTypeOK
            <4> QED
                BY <3>1, <3>2, <3>3, <3>4, <4>1 DEF ExchangeState, PoolTypeOK
        <3>7. Pooled' = Pooled /\ s0 \notin Pooled
            BY <3>1, <3>2 DEF Pooled, Open
        <3>8. BuiltForKey'
            <4>1. \A k \in DotConnKey : \A i \in DOMAIN idle[k] :
                      idle[k][i].stream \in Stream /\ idle[k][i].stream # s0
                <5>1. \A k \in DotConnKey : \A i \in DOMAIN idle[k] : idle[k][i] \in Conn
                    BY SMTT(30) DEF PoolTypeOK
                <5> QED
                    BY <3>7, <5>1 DEF Pooled, Conn
            <4> QED
                BY <3>1, <4>1 DEF BuiltForKey, PoolTypeOK
        <3>9. ExclusiveUse'
            BY <3>1, <3>2, <3>4, <3>7, SMTT(30) DEF ExclusiveUse, Open
        <3>10. CircuitIsolation'
            <4>1. \A u \in Task : u # t /\ held[u] # NoStream =>
                      held[u] # s0 /\ built'[held[u]] = built[held[u]]
                BY <3>1, <3>2 DEF Open, PoolTypeOK
            <4>2. built'[s0] = [domain |-> domain[t], via |-> Via[domain[t]]]
                BY <3>1, <3>2 DEF PoolTypeOK
            <4> QED
                BY <3>1, <3>3, <3>4, <4>1, <4>2, SMTT(30) DEF CircuitIsolation
        <3> QED
            BY <3>5, <3>6, <3>8, <3>9, <3>10
    <2>4. ASSUME NEW t \in Task, Connect(t) \/ BuildFails(t) \/ Return(t) PROVE PoolInv'
        <3>1. PoolTypeOK' /\ held[t] = NoStream
            BY <2>4 DEF Connect, BuildFails, Return, PoolTypeOK, ExchangeState
        <3>2. ExchangeState'
            BY <2>4, <3>1, SMTT(30) DEF Connect, BuildFails, Return, PoolTypeOK, ExchangeState
        <3>3. BuiltForKey' /\ ExclusiveUse'
            BY <2>4, SMTT(30) DEF Connect, BuildFails, Return, BuiltForKey, ExclusiveUse, Pooled
        <3>4. CircuitIsolation'
            BY <2>4, <3>1 DEF Connect, BuildFails, Return, PoolTypeOK, CircuitIsolation
        <3> QED
            BY <3>1, <3>2, <3>3, <3>4
    <2>5. ASSUME NEW t \in Task, Write(t) PROVE PoolInv'
        <3>1. held[t] # NoStream /\ held[t] \in Stream
            BY <2>5 DEF Write, PoolTypeOK, ExchangeState
        <3>2. PoolTypeOK'
            BY <2>5, <3>1 DEF Write, PoolTypeOK
        <3>3. ExchangeState'
            BY <2>5, <3>1, SMTT(30) DEF Write, PoolTypeOK, ExchangeState
        <3>4. BuiltForKey' /\ CircuitIsolation'
            BY <2>5 DEF Write, BuiltForKey, CircuitIsolation
        <3>5. ExclusiveUse'
            BY <2>5, SMTT(30) DEF Write, ExclusiveUse, Pooled
        <3> QED
            BY <3>2, <3>3, <3>4, <3>5
    <2>6. ASSUME NEW t \in Task, Fails(t) \/ Cancel(t) PROVE PoolInv'
        <3>1. /\ held' = [held EXCEPT ![t] = NoStream]
              /\ unread' = unread \ {held[t]}
              /\ pc'[t] \notin {"write", "read"} /\ idle' = idle /\ DropClosed({})
              /\ UNCHANGED <<now, tor_socks, domain>>
            BY <2>6 DEF Fails, Cancel, PoolTypeOK
        <3>2. \A u \in Task : held'[u] = IF u = t THEN NoStream ELSE held[u]
            BY <3>1 DEF PoolTypeOK
        <3>3. PoolTypeOK'
            <4>1. Unbuilt \in Purpose
                BY DEF Unbuilt, Purpose
            <4>2. pc' \in [Task -> {"ready", "take", "build", "handshake", "write", "read",
                                    "answered", "failed", "cancelled"}]
                BY <2>6 DEF Fails, Cancel, PoolTypeOK
            <4>3. reused' \subseteq Task
                BY <2>6 DEF Fails, Cancel, PoolTypeOK
            <4> QED
                BY <3>1, <4>1, <4>2, <4>3 DEF PoolTypeOK, DropClosed
        <3>4. ExchangeState'
            <4>1. unread' \subseteq {held'[u] : u \in Task}
                BY <3>1, <3>2, SMTT(30) DEF ExchangeState
            <4>2. \A u \in Task \ {t} : pc'[u] = pc[u]
                BY <2>6 DEF Fails, Cancel, PoolTypeOK
            <4>3. pc[t] \in {"build", "handshake", "write", "read"}
                BY <2>6 DEF Fails, Cancel
            <4> QED
                BY <3>1, <3>2, <4>1, <4>2, <4>3 DEF ExchangeState
        <3>5. \A s \in Open' : s \in Stream => built'[s] = built[s]
            BY <3>1 DEF DropClosed
        <3>6. Pooled' = Pooled /\ Pooled' \subseteq Stream
            BY <3>1 DEF Pooled
        <3>7. BuiltForKey'
            BY <3>1, <3>5, <3>6, BucketsShrink DEF Open
        <3>8. ExclusiveUse'
            BY <3>1, <3>2, <3>6, SMTT(30) DEF ExclusiveUse
        <3>9. CircuitIsolation'
            <4>1. \A u \in Task : held'[u] # NoStream => built'[held'[u]] = built[held'[u]]
                BY <3>3, <3>5 DEF Open, PoolTypeOK
            <4> QED
                BY <3>1, <3>2, <4>1, SMTT(30) DEF CircuitIsolation
        <3> QED
            BY <3>3, <3>4, <3>7, <3>8, <3>9
    <2>7. ASSUME NEW t \in Task, ReadOk(t) PROVE PoolInv'
        <3> DEFINE k == KeyOf(domain[t])
                   s0 == held[t]
        <3>1. /\ idle' = Released(k, s0)
              /\ held' = [held EXCEPT ![t] = NoStream]
              /\ unread' = unread \ {s0}
              /\ reused' = reused \ {t}
              /\ pc[t] = "read" /\ pc' = [pc EXCEPT ![t] = "answered"]
              /\ DropClosed({held[t]})
              /\ UNCHANGED <<now, tor_socks, domain>>
            BY <2>7 DEF ReadOk
        <3>2. /\ domain[t] \in Domain /\ s0 \in Stream /\ s0 # NoStream
              /\ k \in DotConnKey /\ k.via = Via[domain[t]]
              /\ Via[domain[t]] = "tor" => k.iso_user = domain[t]
            BY <3>1, KeyOfIsKey DEF ExchangeState, PoolTypeOK
        <3> HIDE DEF k
        <3>3. \A u \in Task : held'[u] = IF u = t THEN NoStream ELSE held[u]
            BY <3>1 DEF PoolTypeOK
        <3>4. DotConn(s0) \in Conn /\ DotConn(s0).stream = s0
            BY <3>2 DEF DotConn, Conn, PoolTypeOK
        <3>5. \A j \in DotConnKey : idle[j] \in Seq(Conn) /\ idle'[j] \in Seq(Conn)
            BY <3>1, <3>2, <3>4, SMTT(30) DEF Released, PoolTypeOK
        \* Every entry of a bucket is an old one, or the stream just released.
        <3>6. \A j \in DotConnKey : \A i \in DOMAIN idle'[j] :
                  \/ i \in DOMAIN idle[j] /\ idle'[j][i] = idle[j][i]
                  \/ j = k /\ i = Len(idle[k]) + 1 /\ idle'[j][i] = DotConn(s0)
            <4>1. CASE idle' = idle
                BY <4>1
            <4>2. CASE idle' = [idle EXCEPT ![k] = Append(@, DotConn(s0))]
                <5>1. \A j \in DotConnKey : j # k => idle'[j] = idle[j]
                    BY <4>2 DEF PoolTypeOK
                <5>2. idle'[k] = Append(idle[k], DotConn(s0))
                    BY <3>2, <4>2 DEF PoolTypeOK
                <5>3. /\ DOMAIN idle'[k] = 1..(Len(idle[k]) + 1)
                      /\ DOMAIN idle[k] = 1..Len(idle[k]) /\ Len(idle[k]) \in Nat
                      /\ \A i \in 1..Len(idle[k]) : idle'[k][i] = idle[k][i]
                      /\ idle'[k][Len(idle[k]) + 1] = DotConn(s0)
                    BY <3>2, <3>4, <3>5, <5>2, SMTT(30)
                <5> QED
                    BY <5>1, <5>3, SMTT(30)
            <4> QED
                BY <3>1, <4>1, <4>2 DEF Released
        <3>7. PoolTypeOK'
            <4>1. Unbuilt \in Purpose
                BY DEF Unbuilt, Purpose
            <4>2. idle' \in [DotConnKey -> Seq(Conn)]
                BY <3>1, <3>5 DEF Released, PoolTypeOK
            <4> QED
                BY <3>1, <4>1, <4>2 DEF PoolTypeOK, DropClosed
        <3>8. ExchangeState'
            <4>1. unread' \subseteq {held'[u] : u \in Task}
                BY <3>1, <3>3, SMTT(30) DEF ExchangeState
            <4> QED
                BY <3>1, <3>3, <4>1 DEF ExchangeState, PoolTypeOK
        <3>9. \A s \in Open' : s \in Stream => built'[s] = built[s]
            BY <3>1 DEF DropClosed
        <3>10. \A j \in DotConnKey : \A i \in DOMAIN idle'[j] : idle'[j][i].stream \in Stream
            <4>1. \A j \in DotConnKey : \A i \in DOMAIN idle'[j] : idle'[j][i] \in Conn
                BY <3>5, SMTT(30)
            <4> QED
                BY <4>1 DEF Conn
        <3>11. Pooled' \subseteq Pooled \cup {s0}
            BY <3>4, <3>6 DEF Pooled
        <3>12. BuiltForKey'
            <4> SUFFICES ASSUME NEW j \in DotConnKey, NEW i \in DOMAIN idle'[j]
                         PROVE  LET b == built'[idle'[j][i].stream] IN
                                /\ b.via = j.via
                                /\ j.via = "tor" => tor_socks /\ b.domain = j.iso_user
                BY <3>1 DEF BuiltForKey
            <4>1. idle'[j][i].stream \in Open'
                BY <3>10 DEF Open, Pooled
            <4>2. built'[idle'[j][i].stream] = built[idle'[j][i].stream]
                BY <3>9, <3>10, <4>1
            <4>3. CASE i \in DOMAIN idle[j] /\ idle'[j][i] = idle[j][i]
                BY <4>2, <4>3, SMTT(30) DEF BuiltForKey
            <4>4. CASE j = k /\ idle'[j][i] = DotConn(s0)
                BY <3>2, <3>4, <4>2, <4>4, SMTT(30) DEF CircuitIsolation
            <4> QED
                BY <3>6, <4>3, <4>4
        <3>13. ExclusiveUse'
            <4>1. s0 \notin Pooled
                BY DEF ExclusiveUse
            <4>2. \A u, v \in Task : held'[u] = held'[v] /\ u # v => held'[u] = NoStream
                BY <3>3 DEF ExclusiveUse
            <4>3. \A u \in Task : held'[u] \notin Pooled'
                <5>1. NoStream \notin Pooled'
                    BY DEF Pooled
                <5>2. \A u \in Task : u # t => held[u] # s0
                    BY <3>2 DEF ExclusiveUse
                <5> QED
                    BY <3>3, <3>11, <5>1, <5>2, SMTT(30) DEF ExclusiveUse
            <4>4. Pooled' \cap unread' = {}
                BY <3>1, <3>11 DEF ExclusiveUse
            <4>5. \A j, l \in DotConnKey : \A i \in DOMAIN idle'[j], m \in DOMAIN idle'[l] :
                      idle'[j][i].stream = idle'[l][m].stream => <<j, i>> = <<l, m>>
                <5> SUFFICES ASSUME NEW j \in DotConnKey, NEW l \in DotConnKey,
                                    NEW i \in DOMAIN idle'[j], NEW m \in DOMAIN idle'[l],
                                    idle'[j][i].stream = idle'[l][m].stream
                             PROVE  <<j, i>> = <<l, m>>
                    OBVIOUS
                <5>1. \A c \in DotConnKey : \A n \in DOMAIN idle[c] : idle[c][n].stream # s0
                    <6>1. \A c \in DotConnKey : \A n \in DOMAIN idle[c] : idle[c][n] \in Conn
                        BY <3>5, SMTT(30)
                    <6> QED
                        BY <4>1, <6>1 DEF Pooled, Conn
                <5>2. CASE i \in DOMAIN idle[j] /\ idle'[j][i] = idle[j][i]
                    <6>1. m \in DOMAIN idle[l] /\ idle'[l][m] = idle[l][m]
                        BY <3>4, <3>6, <5>1, <5>2
                    <6> QED
                        BY <5>2, <6>1, SMTT(30) DEF ExclusiveUse
                <5>3. CASE j = k /\ i = Len(idle[k]) + 1 /\ idle'[j][i] = DotConn(s0)
                    BY <3>4, <3>6, <5>1, <5>3, SMTT(30)
                <5> QED
                    BY <3>6, <5>2, <5>3
            <4> QED
                BY <4>2, <4>3, <4>4, <4>5 DEF ExclusiveUse
        <3>14. CircuitIsolation'
            <4>1. \A u \in Task : held'[u] # NoStream => built'[held'[u]] = built[held'[u]]
                BY <3>7, <3>9 DEF Open, PoolTypeOK
            <4> QED
                BY <3>1, <3>3, <4>1, SMTT(30) DEF CircuitIsolation
        <3> QED
            BY <3>7, <3>8, <3>12, <3>13, <3>14
    <2>8. CASE Clock
        <3>1. PoolTypeOK'
            BY <2>8, SMTT(30) DEF Clock, pool, PoolTypeOK
        <3>2. ExchangeState' /\ BuiltForKey' /\ ExclusiveUse' /\ CircuitIsolation'
            <4>1. UNCHANGED <<tor_socks, idle, pc, domain, held, reused, built, unread>>
                BY <2>8 DEF Clock, pool
            <4>2. ExchangeState' /\ BuiltForKey'
                BY <4>1 DEF ExchangeState, BuiltForKey
            <4>3. Pooled' = Pooled
                BY <4>1 DEF Pooled
            <4>4. ExclusiveUse'
                BY <4>1, <4>3, SMTT(30) DEF ExclusiveUse
            <4>5. CircuitIsolation'
                BY <4>1 DEF CircuitIsolation
            <4> QED
                BY <4>2, <4>4, <4>5
        <3> QED
            BY <3>1, <3>2
    <2>9. CASE UNCHANGED poolVars
        BY <2>9, SMTT(30) DEF poolVars, PoolTypeOK, ExchangeState, BuiltForKey, ExclusiveUse, CircuitIsolation, Pooled
    <2> QED
        BY <2>1, <2>2, <2>3, <2>4, <2>5, <2>6, <2>7, <2>8, <2>9 DEF PoolNext, Exchange
<1> QED
    BY <1>1, <1>2, PTL DEF PoolSpec

\* Two queries never interleave on one TLS stream, and none reads the answer of
\* an earlier one, whatever fails or is cancelled (take, release,
\* exchange_pooled).
THEOREM StreamsAreExclusive == PoolSpec => []ExclusiveUse
<1>1. PoolInv => ExclusiveUse
    BY DEF PoolInv
<1> QED
    BY <1>1, PoolInvariant, PTL

\* A tor query only ever uses a tor connection built for its own forwarder, and
\* a direct query a direct one (dot_exchange, DotConnKey).
THEOREM CircuitsAreIsolated == PoolSpec => []CircuitIsolation
<1>1. PoolInv => CircuitIsolation
    BY DEF PoolInv
<1> QED
    BY <1>1, PoolInvariant, PTL

\* The streams that have answered are open, and the one an exchange built itself
\* is not among them.
UsedInv ==
    /\ used \subseteq Open \cap Stream
    /\ \A t \in Task : held[t] = NoStream \/ t \in reused \/ held[t] \notin used

\* When an exchange fails on a stream, the stream never answered a query: the
\* failure of a connection that had gone stale in the pool is retried on a fresh
\* one, however the exchanges that share the pool interleave (exchange_pooled).
THEOREM FailuresAreUpstreams == PoolSpec => FailureIsUpstreams
<1> USE DotPoolAssumption
<1>1. PoolInit => UsedInv
    BY DEF PoolInit, UsedInv
<1>2. PoolInv /\ UsedInv /\ [PoolNext]_poolVars => UsedInv'
    <2> SUFFICES ASSUME PoolInv, UsedInv, [PoolNext]_poolVars PROVE UsedInv'
        OBVIOUS
    <2>0. held \in [Task -> Stream \cup {NoStream}] /\ reused \subseteq Task
        BY DEF PoolInv, PoolTypeOK
    <2>1. CASE UNCHANGED <<idle, held, used>> /\ reused' = reused
        BY <2>1 DEF UsedInv, Open, Pooled
    <2>2. ASSUME NEW t \in Task, Take(t) PROVE UsedInv'
        <3>1. used' = (used \cup {}) \cap Open'
            BY <2>2 DEF Take, DropClosed
        <3>2. \A u \in Task : u # t => held'[u] = held[u]
            BY <2>0, <2>2 DEF Take
        <3>3. \A u \in Task : u \in reused => u \in reused'
            BY <2>2 DEF Take
        <3>4. t \in reused' \/ held'[t] = held[t]
            BY <2>2 DEF Take
        <3> QED
            BY <3>1, <3>2, <3>3, <3>4 DEF UsedInv
    <2>3. ASSUME NEW t \in Task, Build(t) PROVE UsedInv'
        <3> DEFINE s0 == CHOOSE x \in Stream \ Open : TRUE
        <3>1. /\ held' = [held EXCEPT ![t] = s0]
              /\ pc[t] = "handshake"
              /\ UNCHANGED <<idle, reused, used>>
            BY <2>3 DEF Build
        <3>2. s0 \in Stream \ Open
            BY <2>3 DEF Build
        <3> HIDE DEF s0
        <3>3. \A u \in Task : held'[u] = IF u = t THEN s0 ELSE held[u]
            BY <2>0, <3>1
        <3>4. held[t] = NoStream
            BY <3>1 DEF PoolInv, ExchangeState
        <3>5. Pooled' = Pooled
            BY <3>1 DEF Pooled
        <3>6. used' \subseteq Open' \cap Stream
            BY <3>1, <3>3, <3>4, <3>5, SMTT(30) DEF UsedInv, Open
        <3>7. s0 \notin used'
            BY <3>1, <3>2 DEF UsedInv
        <3>8. ASSUME NEW u \in Task
              PROVE  held'[u] = NoStream \/ u \in reused' \/ held'[u] \notin used'
            <4>1. CASE u = t
                BY <3>3, <3>7, <4>1
            <4>2. CASE u # t
                <5>1. held'[u] = held[u]
                    BY <3>3, <4>2
                <5>2. held[u] = NoStream \/ u \in reused \/ held[u] \notin used
                    BY DEF UsedInv
                <5>3. reused' = reused /\ used' = used
                    BY <3>1
                <5> QED
                    BY <5>1, <5>2, <5>3
            <4> QED
                BY <4>1, <4>2
        <3> QED
            BY <3>6, <3>8 DEF UsedInv
    <2>4. ASSUME NEW t \in Task, ReadOk(t) \/ Fails(t) \/ Cancel(t) PROVE UsedInv'
        <3>1. /\ \A u \in Task : held'[u] = IF u = t THEN NoStream ELSE held[u]
              /\ reused' = reused \ {t}
            BY <2>0, <2>4 DEF ReadOk, Fails, Cancel
        <3>2. used' \subseteq (used \cup {held[t]}) \cap Open'
            BY <2>4 DEF ReadOk, Fails, Cancel, DropClosed
        <3>3. held[t] = NoStream => used' \subseteq used
            <4>1. pc[t] = "read" => held[t] # NoStream
                BY DEF PoolInv, ExchangeState
            <4> QED
                BY <2>4, <4>1 DEF ReadOk, Fails, Cancel, DropClosed
        <3>4. used' \subseteq Stream
            BY <2>0, <3>2, <3>3 DEF UsedInv
        <3>5. ASSUME NEW u \in Task, u # t, held[u] # NoStream
              PROVE  held[u] # held[t]
            BY <3>5 DEF PoolInv, ExclusiveUse
        <3> QED
            BY <3>1, <3>2, <3>4, <3>5 DEF UsedInv
    <2>5. ASSUME NEW t \in Task, Return(t) PROVE UsedInv'
        <3>1. UNCHANGED <<idle, held, used>> /\ reused' = reused \ {t} /\ held[t] = NoStream
            BY <2>5 DEF Return, PoolInv, ExchangeState
        <3> QED
            BY <3>1 DEF UsedInv, Open, Pooled
    <2>6. CASE \/ Clock \/ UNCHANGED poolVars
               \/ \E t \in Task : Connect(t) \/ BuildFails(t) \/ Write(t) \/ \E d \in Domain : Ask(t, d)
        <3>1. UNCHANGED <<idle, held, used>> /\ reused' = reused
            BY <2>6 DEF Clock, pool, poolVars, Connect, BuildFails, Write, Ask
        <3> QED
            BY <2>1, <3>1
    <2> QED
        BY <2>2, <2>3, <2>4, <2>5, <2>6 DEF PoolNext, Exchange
<1> DEFINE Upstreams == \A t \in Task : pc[t] \in {"write", "read"} /\ pc'[t] = "failed" => held[t] \notin used
<1>3. PoolInv /\ UsedInv /\ [PoolNext]_poolVars => [Upstreams]_poolVars
    <2> SUFFICES ASSUME PoolInv, UsedInv, PoolNext, NEW t \in Task,
                        pc[t] \in {"write", "read"}, pc'[t] = "failed"
                 PROVE  held[t] \notin used
        OBVIOUS
    <2>1. pc \in [Task -> {"ready", "take", "build", "handshake", "write", "read",
                           "answered", "failed", "cancelled"}]
        BY DEF PoolInv, PoolTypeOK
    <2>2. CASE Clock
        BY <2>2 DEF Clock, pool
    <2>3. ASSUME NEW u \in Task, NEW d \in Domain, Ask(u, d) PROVE FALSE
        BY <2>1, <2>3 DEF Ask
    <2>4. ASSUME NEW u \in Task, Exchange(u) \/ Cancel(u) \/ Return(u) PROVE t \notin reused
        BY <2>1, <2>4 DEF Exchange, Take, Connect, Build, BuildFails, Write, ReadOk, Fails, Cancel, Return
    <2>5. held[t] # NoStream
        BY DEF PoolInv, ExchangeState
    <2> QED
        BY <2>2, <2>3, <2>4, <2>5 DEF PoolNext, UsedInv
<1> QED
    BY <1>1, <1>2, <1>3, PoolInvariant, PTL DEF PoolSpec, FailureIsUpstreams
=============================================================================
