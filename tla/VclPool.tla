---- MODULE VclPool ----
(***************************************************************************)
(* The pool of I/O threads (worker.rs, VclIoExecutor).  spawn starts the   *)
(* threads one after the other and waits for each to report; worker 0 is   *)
(* kept for upstream sockets and the listeners are dealt out over the      *)
(* others.  A thread runs until its shutdown channel fires or is dropped.  *)
(***************************************************************************)
EXTENDS Naturals

CONSTANTS Threads,      \* n, the threads asked for
          Listeners,    \* listeners bound at startup
          Wrap          \* values of the round-robin counter (2^64)

VARIABLES phase,        \* of the executor: spawning, failed, ready, stopped
          thread,       \* id -> none, starting, up, stopping, exited
          next,         \* the round-robin counter
          hosts         \* the worker of each listener bound so far

poolVars == <<phase, thread, next, hosts>>

PoolSize == IF Threads = 0 THEN 1 ELSE Threads
Ids == 0..(PoolSize - 1)

PoolInit ==
    /\ phase = "spawning"
    /\ thread = [i \in Ids |-> "none"]
    /\ next = 0
    /\ hosts = <<>>

(* spawn, one turn of its loop: the thread is started and recv waits.      *)
SpawnThread(i) ==
    /\ phase = "spawning"
    /\ thread[i] = "none"
    /\ \A j \in Ids : j < i => thread[j] = "up"
    /\ thread' = [thread EXCEPT ![i] = "starting"]
    /\ UNCHANGED <<phase, next, hosts>>

(* spawn returns early: `?` drops the workers collected so far, and with   *)
(* them their shutdown senders.                                            *)
GiveUp(others) ==
    /\ thread' = [j \in Ids |-> IF thread[j] = "up" THEN "stopping" ELSE others[j]]
    /\ phase' = "failed"
    /\ UNCHANGED <<next, hosts>>

(* The thread itself cannot be started.                                    *)
SpawnFails(i) ==
    /\ phase = "spawning"
    /\ thread[i] = "none"
    /\ \A j \in Ids : j < i => thread[j] = "up"
    /\ GiveUp(thread)

(* vcl_io_thread_main reports its runtime and reactor.                     *)
ReportReady(i) ==
    /\ phase = "spawning"
    /\ thread[i] = "starting"
    /\ thread' = [thread EXCEPT ![i] = "up"]
    /\ phase' = IF i = PoolSize - 1 THEN "ready" ELSE phase
    /\ UNCHANGED <<next, hosts>>

(* Mutant: the senders of the threads already up are kept. *)
ReportError_Keep(i) ==
    /\ phase = "spawning"
    /\ thread[i] = "starting"
    /\ thread' = [thread EXCEPT ![i] = "exited"]
    /\ phase' = "failed"
    /\ UNCHANGED <<next, hosts>>

(* No runtime or no reactor, or a panic: the thread returns and is joined. *)
ReportError(i) ==
    /\ phase = "spawning"
    /\ thread[i] = "starting"
    /\ GiveUp([thread EXCEPT ![i] = "exited"])

(* pick_listener: the worker for the n-th pick.                            *)
pick_listener(n) == IF PoolSize > 1 THEN 1 + (n % (PoolSize - 1)) ELSE 0

fetch_add(n) == (n + 1) % Wrap

BindListener ==
    /\ phase = "ready"
    /\ \E l \in Listeners \ DOMAIN hosts :
          hosts' = [x \in DOMAIN hosts \union {l} |->
                       IF x = l THEN pick_listener(next) ELSE hosts[x]]
    /\ next' = fetch_add(next)
    /\ UNCHANGED <<phase, thread>>

(* shutdown, also run by Drop: every sender fires, then the joins.         *)
Shutdown ==
    /\ phase = "ready"
    /\ phase' = "stopped"
    /\ thread' = [i \in Ids |-> "stopping"]
    /\ UNCHANGED <<next, hosts>>

(* The thread wakes on shutdown_rx, waits out its grace window and drops   *)
(* the runtime with every task on it.                                      *)
ThreadExit(i) ==
    /\ thread[i] = "stopping"
    /\ thread' = [thread EXCEPT ![i] = "exited"]
    /\ UNCHANGED <<phase, next, hosts>>

---------------------------------------------------------------------------
===========================================================================
