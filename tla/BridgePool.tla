----------------------------- MODULE BridgePool -----------------------------
(***************************************************************************)
(* The thread pool of the loopback bridge (src/src/proxy.rs, Pool,          *)
(* spawn_worker and worker).  Workers block in accept(2) on one listener.   *)
(* A shared atomic counter, idle, is meant to count the workers "in, or     *)
(* about to enter, accept(2)"; a worker that takes the last idle slot       *)
(* starts a replacement, and a worker that finds enough others idle exits.  *)
(*                                                                         *)
(* Each atomic operation on idle, each thread start and each accept is a    *)
(* step of its own, because nothing in the code makes two of them atomic.   *)
(***************************************************************************)
EXTENDS Naturals, FiniteSets, Sequences

CONSTANTS
    Worker,             \* identities of worker threads; one that exits may be reused
    Conn,               \* identities of connections; one that ends may be reused
    NoConn,             \* what accept(2) yields when it fails
    LongLived,          \* connections that nothing forces to end (WebSockets, streams)
    MAX_IDLE_WORKERS    \* proxy.rs:19

ASSUME PoolAssumption ==
    /\ IsFiniteSet(Worker)
    /\ Worker # {}
    /\ NoConn \notin Conn
    /\ LongLived \subseteq Conn
    /\ MAX_IDLE_WORKERS \in Nat \ {0}

VARIABLES
    pc,      \* where each worker is in worker() or spawn_worker()
    idle,    \* Pool.idle
    held,    \* the connection a worker has accepted, NoConn if none
    backlog  \* connections waiting in the listener's queue, oldest first

vars == <<pc, idle, held, backlog>>

Phase == {"gone", "accept", "accepted", "spawn_add", "spawn_thread",
          "spawn_undo", "handle", "finish", "leaving"}

\* The workers one unit of idle stands for.  A spawning thread holds a unit
\* between fetch_add and the start of the new thread, which then takes it over.
Counted == {w \in Worker : pc[w] \in
               {"accept", "accepted", "spawn_thread", "spawn_undo", "leaving"}}

Waiting == {w \in Worker : pc[w] = "accept"}

Queued == {backlog[i] : i \in 1..Len(backlog)}

Served == {held[w] : w \in Worker} \ {NoConn}

TypeOK ==
    /\ pc \in [Worker -> Phase]
    /\ idle \in Nat
    /\ held \in [Worker -> Conn \cup {NoConn}]
    /\ backlog \in Seq(Conn)

\* Bridge::start has returned Ok: its spawn_worker counted and started one worker.
Init ==
    /\ \E w \in Worker : pc = [v \in Worker |-> IF v = w THEN "accept" ELSE "gone"]
    /\ idle = 1
    /\ held = [w \in Worker |-> NoConn]
    /\ backlog = <<>>

-----------------------------------------------------------------------------
(* The environment: tailscaled opens connections to the bridge.             *)

Connect(c) ==
    /\ c \notin Queued \cup Served
    /\ backlog' = Append(backlog, c)
    /\ UNCHANGED <<pc, idle, held>>

-----------------------------------------------------------------------------
(* worker(): accept(2) and the claim of the idle slot.                      *)

\* accept(2) hands the oldest connection to one sleeping worker.
Accept(w) ==
    /\ pc[w] = "accept"
    /\ backlog # <<>>
    /\ backlog' = Tail(backlog)
    /\ held' = [held EXCEPT ![w] = Head(backlog)]
    /\ pc' = [pc EXCEPT ![w] = "accepted"]
    /\ UNCHANGED idle

\* ECONNABORTED: the peer gave up while its connection was queued.
AcceptAborted(w) ==
    /\ pc[w] = "accept"
    /\ backlog # <<>>
    /\ backlog' = Tail(backlog)
    /\ pc' = [pc EXCEPT ![w] = "accepted"]
    /\ UNCHANGED <<idle, held>>

\* EMFILE, ENFILE, ENOBUFS: the connection stays queued.
AcceptFails(w) ==
    /\ pc[w] = "accept"
    /\ backlog # <<>>
    /\ pc' = [pc EXCEPT ![w] = "accepted"]
    /\ UNCHANGED <<idle, held, backlog>>

\* Slip: the test reads the counter after the subtraction.
TookLastLate == idle = 0

\* fetch_sub returns the count before it.
TookLast == idle = 1

\* The worker that takes the last idle slot must start a replacement.
ClaimSlot(w) ==
    /\ pc[w] = "accepted"
    /\ idle' = idle - 1
    /\ pc' = [pc EXCEPT ![w] = IF TookLast THEN "spawn_add" ELSE "handle"]
    /\ UNCHANGED <<held, backlog>>

-----------------------------------------------------------------------------
(* spawn_worker()                                                           *)

SpawnCount(w) ==
    /\ pc[w] = "spawn_add"
    /\ idle' = idle + 1
    /\ pc' = [pc EXCEPT ![w] = "spawn_thread"]
    /\ UNCHANGED <<held, backlog>>

SpawnThread(w, new) ==
    /\ pc[w] = "spawn_thread"
    /\ pc[new] = "gone"
    /\ pc' = [pc EXCEPT ![w] = "handle", ![new] = "accept"]
    /\ UNCHANGED <<idle, held, backlog>>

\* The thread cannot be created (EAGAIN).
SpawnFails(w) ==
    /\ pc[w] = "spawn_thread"
    /\ pc' = [pc EXCEPT ![w] = "spawn_undo"]
    /\ UNCHANGED <<idle, held, backlog>>

\* Slip: the count of a thread that never started is kept.
undone_never == idle

\* Slip: both spawn_worker and its caller take the count back.
undone_twice == idle - 2

undone == idle - 1

\* After a failed spawn the count is taken back and the error is dropped.
SpawnUndo(w) ==
    /\ pc[w] = "spawn_undo"
    /\ idle' = undone
    /\ pc' = [pc EXCEPT ![w] = "handle"]
    /\ UNCHANGED <<held, backlog>>

-----------------------------------------------------------------------------
(* worker(): serve the connection, then return to accept(2) or exit.        *)

\* handle_connection returns.
HandleConnection(w) ==
    /\ pc[w] = "handle"
    /\ held[w] # NoConn
    /\ held' = [held EXCEPT ![w] = NoConn]
    /\ pc' = [pc EXCEPT ![w] = "finish"]
    /\ UNCHANGED <<idle, backlog>>

\* The two error arms: nothing, or a sleep of ACCEPT_ERROR_BACKOFF.
HandleError(w) ==
    /\ pc[w] = "handle"
    /\ held[w] = NoConn
    /\ pc' = [pc EXCEPT ![w] = "finish"]
    /\ UNCHANGED <<idle, held, backlog>>

\* fetch_add returns the count of the others.
EnoughOthers == idle >= MAX_IDLE_WORKERS

\* A worker exits when enough others are idle.
ReturnSlot(w) ==
    /\ pc[w] = "finish"
    /\ idle' = idle + 1
    /\ pc' = [pc EXCEPT ![w] =
                IF EnoughOthers THEN "leaving" ELSE "accept"]
    /\ UNCHANGED <<held, backlog>>

Leave(w) ==
    /\ pc[w] = "leaving"
    /\ idle' = idle - 1
    /\ pc' = [pc EXCEPT ![w] = "gone"]
    /\ UNCHANGED <<held, backlog>>

-----------------------------------------------------------------------------

Step(w) ==
    \/ ClaimSlot(w)
    \/ SpawnCount(w)
    \/ \E new \in Worker : SpawnThread(w, new)
    \/ SpawnFails(w)
    \/ SpawnUndo(w)
    \/ HandleError(w)
    \/ ReturnSlot(w)
    \/ Leave(w)

Next ==
    \/ \E c \in Conn : Connect(c)
    \/ \E w \in Worker :
         \/ Accept(w)
         \/ AcceptAborted(w)
         \/ AcceptFails(w)
         \/ Step(w)
         \/ HandleConnection(w)

Spec == Init /\ [][Next]_vars

\* A thread that can run eventually does; a connection that is not long-lived
\* ends (the peers close it or the relay's timeouts do); accept(2) does not fail
\* for ever while connections are queued.
Fairness ==
    \A w \in Worker :
        /\ WF_vars(Step(w))
        /\ WF_vars(held[w] \notin LongLived /\ HandleConnection(w))
        /\ SF_vars(Accept(w))

FairSpec == Spec /\ Fairness

-----------------------------------------------------------------------------
(* Properties                                                               *)

\* Pool.idle is exact: every unit stands for one worker that is in accept(2),
\* has not yet claimed its slot, is starting a thread or is leaving.  So it never
\* wraps below zero and a burst of failed spawns does not inflate it.
IdleCount == idle = Cardinality(Counted)

\* "connections are only delayed, never stranded" (proxy.rs:104-105): a queued
\* connection is eventually accepted or its peer gives up.
NeverStranded == \A c \in Conn : c \in Queued ~> c \notin Queued

\* The same promise when connections may last for ever: as long as no thread
\* fails to start and no worker exits, taking the last idle slot starts a
\* replacement first, so a WebSocket that never ends blocks nobody.
Calm == \A w \in Worker : pc[w] \notin {"spawn_undo", "leaving"}

ServedBesideLongLived == []Calm => NeverStranded

\* Someone will look at the queue: a worker that waits, that has yet to claim its
\* slot, or that starts another one.
InHand == \E w \in Worker : pc[w] \in {"accept", "accepted", "spawn_add", "spawn_thread"}

\* The part of it that needs no fairness: whatever connections arrive at once and
\* whoever claims a slot in between, a calm pool never hands its last worker to a
\* connection without starting the next.
SlotIsReplaced == [][InHand /\ Calm /\ Calm' => InHand']_vars

\* A quiet pool: no connection queued or served and no worker between calls.
Quiet == backlog = <<>> /\ \A w \in Worker : pc[w] \in {"gone", "accept"}

\* "Workers left waiting in accept(2) after a burst; the rest exit"
\* (proxy.rs:18): once the pool is quiet, at most MAX_IDLE_WORKERS wait.
QuietPoolIsSmall == Quiet => Cardinality(Waiting) <= MAX_IDLE_WORKERS
=============================================================================
