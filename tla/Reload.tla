------------------------------- MODULE Reload -------------------------------
(***************************************************************************)
(* Startup and SIGHUP reload of src/main.rs: the signal loop, reload, the  *)
(* listener diff and bind_listener_set_with_retry, interleaved with the    *)
(* listener and connection tasks of src/io that read the swapped values.   *)
(*                                                                         *)
(* Abstractions.                                                           *)
(*  - A config version is its forwarder table (valid or not) and its       *)
(*    listeners; a listener is an address with its protocols and the set   *)
(*    of peers its allow_from admits.  "udp" and "tcp" stand for the       *)
(*    datagram and the stream protocols (DoT and DoH check the ACL at the  *)
(*    same two places as TCP); TLS set-up is left out.                     *)
(*  - An AclSwap is a cell that tasks share by pointer.  The ListenerContext *)
(*    swap next to it is updated with it and is left out.                  *)
(*  - The handler is the version it was built from and its readiness gate. *)
(***************************************************************************)
EXTENDS Naturals, FiniteSets

CONSTANTS
    Config,      \* config files the operator writes
    Listeners,   \* Listeners[v]: set of [addr, protos, allow_from]
    BadForwarders, \* versions Forwarders::new rejects
    First,       \* the version dnsd starts with
    Addr, Peer,
    Conn,        \* datagrams and connections being served
    Cell,        \* bound: AclSwap allocations
    Nothing,
    MaxEdits     \* bound: config edits

Proto == {"udp", "tcp"}
ListenerKey == Addr \X Proto

(* The keys of one configured listener, and of a whole config. *)
KeysOf(l) == {l.addr} \X l.protos
Desired(v) == UNION {KeysOf(l) : l \in Listeners[v]}
ListenerOf(v, k) == CHOOSE l \in Listeners[v] : k \in KeysOf(l)

ASSUME ReloadAssumption ==
    /\ \A v \in Config :
         /\ Listeners[v] \subseteq
              [addr : Addr, protos : SUBSET Proto, allow_from : SUBSET Peer]
         /\ \A l, m \in Listeners[v] : l # m => KeysOf(l) \cap KeysOf(m) = {}
    /\ BadForwarders \subseteq Config
    /\ First \in Config \ BadForwarders
    /\ Nothing \notin Cell
    /\ MaxEdits \in Nat

VARIABLES
    file, edits,      \* router.yaml on disk
    hup,              \* the signal stream: "deaf" until startup is over
    rpc, rcfg,        \* the main task: step of the reload and its config
    handler, ready,   \* the swapped handler
    forwarders_swap,  \* the table the control socket shows
    listeners_swap,   \* the listeners the control socket shows
    acl,              \* Cell -> allow_from
    listeners,        \* LiveListeners: ListenerKey -> cell
    sock,             \* the bound sockets and the cell their task reads
    aborted,          \* sockets whose task was told to stop
    todo,             \* keys the hot-swap loop has still to visit
    pending,          \* keys to bind and the cell each will use
    conn              \* what is being served

main == <<rpc, rcfg, handler, forwarders_swap, listeners_swap, listeners, todo, pending>>
reloadVars == <<file, edits, hup, main, ready, acl, sock, aborted, conn>>

FreeConn == [st |-> "free", key |-> Nothing, cell |-> Nothing, peer |-> Nothing]
NoCells == [k \in ListenerKey |-> Nothing]

Bound == {k \in ListenerKey : listeners[k] # Nothing}
Pending == {k \in ListenerKey : pending[k] # Nothing}

(* snapshot_listeners *)
Snapshot == [k \in ListenerKey |-> IF k \in Bound THEN acl[listeners[k]] ELSE Nothing]

ReloadInit ==
    /\ file = First /\ edits = 0
    /\ hup = "deaf"
    /\ rpc = "alloc" /\ rcfg = First
    /\ handler = First /\ ready = FALSE
    /\ forwarders_swap = First
    /\ listeners_swap = NoCells
    /\ acl = [c \in Cell |-> {}]
    /\ listeners = NoCells
    /\ sock = NoCells
    /\ aborted = {}
    /\ todo = {}
    /\ pending = NoCells
    /\ conn = [c \in Conn |-> FreeConn]
-----------------------------------------------------------------------------
(* The operator. *)
Edit(v) ==
    /\ edits < MaxEdits
    /\ file' = v
    /\ edits' = edits + 1
    /\ UNCHANGED <<hup, main, ready, acl, sock, aborted, conn>>

(* kill -HUP, or the control socket's reload command. *)
Sighup ==
    /\ hup = "quiet"
    /\ hup' = "raised"
    /\ UNCHANGED <<file, edits, main, ready, acl, sock, aborted, conn>>
-----------------------------------------------------------------------------
(* reload up to the publication of the forwarder table.  A config that     *)
(* does not load, or whose forwarders are rejected, ends it.               *)
Load ==
    /\ rpc = "idle" /\ hup = "raised"
    /\ hup' = "quiet"
    /\ IF file \in BadForwarders
         THEN UNCHANGED <<rpc, rcfg, forwarders_swap>>
         ELSE /\ rpc' = "build"
              /\ rcfg' = file
              /\ forwarders_swap' = file
    /\ UNCHANGED <<file, edits, handler, ready, listeners_swap, acl, listeners,
                   sock, aborted, todo, pending, conn>>

(* from_parts awaits socket binds; it may fail. *)
BuildFails ==
    /\ rpc = "build"
    /\ rpc' = "idle"
    /\ UNCHANGED <<file, edits, hup, rcfg, handler, ready, forwarders_swap,
                   listeners_swap, acl, listeners, sock, aborted, todo, pending, conn>>

(* The new handler starts with its gate closed. *)
SwapHandler ==
    /\ rpc = "build"
    /\ handler' = rcfg
    /\ ready' = FALSE
    /\ rpc' = "retain"
    /\ UNCHANGED <<file, edits, hup, rcfg, forwarders_swap, listeners_swap, acl,
                   listeners, sock, aborted, todo, pending, conn>>

\* Mutant: the listener is forgotten but its tasks are not aborted.
Retain_NoAbort ==
    LET gone == Bound \ Desired(rcfg) IN
    /\ rpc = "retain"
    /\ listeners' = [k \in ListenerKey |-> IF k \in gone THEN Nothing ELSE listeners[k]]
    /\ todo' = Bound \ gone
    /\ rpc' = "update"
    /\ UNCHANGED <<file, edits, hup, rcfg, handler, ready, forwarders_swap,
                   listeners_swap, acl, sock, aborted, pending, conn>>

(* Abort the listeners that are gone; the others get an in-place update. *)
Retain ==
    LET gone == Bound \ Desired(rcfg) IN
    /\ rpc = "retain"
    /\ listeners' = [k \in ListenerKey |-> IF k \in gone THEN Nothing ELSE listeners[k]]
    /\ aborted' = aborted \cup gone
    /\ todo' = Bound \ gone
    /\ rpc' = "update"
    /\ UNCHANGED <<file, edits, hup, rcfg, handler, ready, forwarders_swap,
                   listeners_swap, acl, sock, pending, conn>>

\* Mutant: kept listeners keep their ACL.
HotSwap_Skipped(k) ==
    /\ rpc = "update" /\ k \in todo
    /\ todo' = todo \ {k}
    /\ UNCHANGED <<file, edits, hup, rpc, rcfg, handler, ready, forwarders_swap,
                   listeners_swap, acl, listeners, sock, aborted, pending, conn>>

(* The loop over the `desired' HashMap: its order is arbitrary. *)
HotSwap(k) ==
    /\ rpc = "update" /\ k \in todo
    /\ acl' = [acl EXCEPT ![listeners[k]] = ListenerOf(rcfg, k).allow_from]
    /\ todo' = todo \ {k}
    /\ UNCHANGED <<file, edits, hup, rpc, rcfg, handler, ready, forwarders_swap,
                   listeners_swap, listeners, sock, aborted, pending, conn>>

HotSwapped ==
    /\ rpc = "update" /\ todo = {}
    /\ rpc' = "alloc"
    /\ UNCHANGED <<file, edits, hup, rcfg, handler, ready, forwarders_swap,
                   listeners_swap, acl, listeners, sock, aborted, todo, pending, conn>>
-----------------------------------------------------------------------------
(* bind_listener_set_with_retry: one AclSwap per configured listener, its  *)
(* protocols share it.  Keys already bound are left alone.                 *)
InUse ==
    {listeners[k] : k \in ListenerKey} \cup {sock[k] : k \in ListenerKey}
        \cup {conn[c].cell : c \in Conn}

Alloc ==
    LET new == {l \in Listeners[rcfg] : ~(KeysOf(l) \subseteq Bound)}
        fits == {f \in [new -> Cell \ InUse] : \A l, m \in new : l # m => f[l] # f[m]}
        at  == CHOOSE f \in fits : TRUE
    IN  /\ rpc = "alloc"
        /\ fits # {}
        /\ acl' = [c \in Cell |->
                     IF \E l \in new : at[l] = c
                       THEN (CHOOSE l \in new : at[l] = c).allow_from ELSE acl[c]]
        /\ pending' = [k \in ListenerKey |->
                         IF k \in Desired(rcfg) \ Bound
                           THEN at[ListenerOf(rcfg, k)] ELSE Nothing]
        /\ rpc' = "bind"
        /\ UNCHANGED <<file, edits, hup, rcfg, handler, ready, forwarders_swap,
                       listeners_swap, listeners, sock, aborted, todo, conn>>

(* A bind fails while an aborted task still owns the address. *)
Bind(k) ==
    /\ rpc = "bind" /\ k \in Pending
    /\ sock[k] = Nothing
    /\ sock' = [sock EXCEPT ![k] = pending[k]]
    /\ listeners' = [listeners EXCEPT ![k] = pending[k]]
    /\ pending' = [pending EXCEPT ![k] = Nothing]
    /\ UNCHANGED <<file, edits, hup, rpc, rcfg, handler, ready, forwarders_swap,
                   listeners_swap, acl, aborted, todo, conn>>

\* Mutant: signals received during the reload are discarded.
PublishListeners_DropsSignal ==
    /\ rpc = "bind"
    /\ hup' = "quiet"
    /\ pending' = NoCells
    /\ listeners_swap' = Snapshot
    /\ rpc' = "idle"
    /\ UNCHANGED <<file, edits, rcfg, handler, ready, forwarders_swap, acl,
                   listeners, sock, aborted, todo, conn>>

(* Everything is bound, or the retry deadline passed.  After startup the   *)
(* signal streams are created (wait_for_exit_with_reload).                 *)
PublishListeners ==
    /\ rpc = "bind"
    /\ pending' = NoCells
    /\ listeners_swap' = Snapshot
    /\ rpc' = "idle"
    /\ hup' = IF hup = "deaf" THEN "quiet" ELSE hup
    /\ UNCHANGED <<file, edits, rcfg, handler, ready, forwarders_swap, acl,
                   listeners, sock, aborted, todo, conn>>

(* JoinHandle::abort takes effect when the task is next scheduled. *)
DropSocket(k) ==
    /\ k \in aborted
    /\ sock' = [sock EXCEPT ![k] = Nothing]
    /\ aborted' = aborted \ {k}
    /\ UNCHANGED <<file, edits, hup, main, ready, acl, conn>>

Prewarm ==
    /\ ~ready
    /\ ready' = TRUE
    /\ UNCHANGED <<file, edits, hup, main, acl, sock, aborted, conn>>
-----------------------------------------------------------------------------
Serving(c, st, k, p) ==
    conn' = [conn EXCEPT ![c] = [st |-> st, key |-> k, cell |-> sock[k], peer |-> p]]

(* udp::serve_loop: ACL, then a task for the query. *)
Datagram(c, k, p) ==
    /\ conn[c].st = "free"
    /\ k[2] = "udp" /\ sock[k] # Nothing
    /\ p \in acl[sock[k]]
    /\ Serving(c, "busy", k, p)
    /\ UNCHANGED <<file, edits, hup, main, ready, acl, sock, aborted>>

(* tcp::accept_loop: ACL and readiness, then a task for the connection. *)
Accept(c, k, p) ==
    /\ conn[c].st = "free"
    /\ k[2] = "tcp" /\ sock[k] # Nothing
    /\ p \in acl[sock[k]]
    /\ ready
    /\ Serving(c, "open", k, p)
    /\ UNCHANGED <<file, edits, hup, main, ready, acl, sock, aborted>>

\* Mutant: the ACL is read at accept only.
Request_NoRecheck(c) ==
    /\ conn[c].st = "open"
    /\ conn' = [conn EXCEPT ![c].st = "busy"]
    /\ UNCHANGED <<file, edits, hup, main, ready, acl, sock, aborted>>

(* tcp::serve_connection: the ACL is read again for every query. *)
Request(c) ==
    /\ conn[c].st = "open"
    /\ conn' = [conn EXCEPT ![c] =
                  IF conn[c].peer \in acl[conn[c].cell]
                    THEN [@ EXCEPT !.st = "busy"] ELSE FreeConn]
    /\ UNCHANGED <<file, edits, hup, main, ready, acl, sock, aborted>>

Reply(c) ==
    /\ conn[c].st = "busy"
    /\ conn' = [conn EXCEPT ![c] =
                  IF @.key[2] = "tcp" THEN [@ EXCEPT !.st = "open"] ELSE FreeConn]
    /\ UNCHANGED <<file, edits, hup, main, ready, acl, sock, aborted>>

Hangup(c) ==
    /\ conn[c].st = "open"
    /\ conn' = [conn EXCEPT ![c] = FreeConn]
    /\ UNCHANGED <<file, edits, hup, main, ready, acl, sock, aborted>>
-----------------------------------------------------------------------------
Reloading ==
    \/ Load \/ BuildFails \/ SwapHandler \/ Retain \/ HotSwapped \/ Alloc \/ PublishListeners
    \/ \E k \in ListenerKey : HotSwap(k) \/ Bind(k)

ReloadNext ==
    \/ \E v \in Config : Edit(v)
    \/ Sighup
    \/ Reloading
    \/ \E k \in ListenerKey : DropSocket(k)
    \/ Prewarm
    \/ \E c \in Conn :
         \/ \E k \in ListenerKey, p \in Peer : Datagram(c, k, p) \/ Accept(c, k, p)
         \/ Request(c) \/ Reply(c) \/ Hangup(c)

ReloadSpec == ReloadInit /\ [][ReloadNext]_reloadVars

(* The main task is scheduled. *)
FairReloadSpec == ReloadSpec /\ WF_reloadVars(Reloading)
-----------------------------------------------------------------------------
\* Between reloads the handler and the listeners come from one config: an
\* aborted reload changes neither, a completed one leaves no listener the
\* config does not have, and gives every kept one the config's allow_from.
\* What `query listeners' shows "always reflects the current state", and after
\* a reload whose handler was built so does the forwarder table.
ListenersMatchHandler ==
    rpc = "idle" =>
        /\ Bound \subseteq Desired(handler)
        /\ \A k \in Bound : acl[listeners[k]] = ListenerOf(handler, k).allow_from
        /\ listeners_swap = Snapshot
        /\ handler = rcfg => forwarders_swap = handler

\* Every socket is either tracked by LiveListeners, with the cell its task
\* reads, or has been told to stop: no listener outlives its entry.
NoOrphanSocket ==
    \A k \in ListenerKey : sock[k] # Nothing =>
        k \in aborted \/ listeners[k] = sock[k]

\* "a SIGHUP that drops a CIDR boots already-connected clients": on a
\* listener the config still has, a query arriving between reloads is
\* served only to a peer the config admits.
OutsidersAreBooted ==
    [][\A c \in Conn :
         /\ rpc = "idle"
         /\ conn[c].st = "open" /\ conn'[c].st = "busy"
         /\ listeners[conn[c].key] = conn[c].cell
         => conn[c].peer \in ListenerOf(handler, conn[c].key).allow_from]_reloadVars

\* A SIGHUP that arrives while a reload is running is not lost: when the
\* operator has stopped editing, a reload takes up the last file, and swaps its
\* handler in unless from_parts fails.
LastEditIsApplied ==
    (edits = MaxEdits /\ hup = "raised" /\ file \notin BadForwarders)
        ~> (handler = file \/ (rpc = "idle" /\ rcfg = file))
=============================================================================
