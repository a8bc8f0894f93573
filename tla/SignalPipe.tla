----------------------------- MODULE SignalPipe -----------------------------
(***************************************************************************)
(* The signal handling of Porthmeus (src/src/signal.rs): a handler that may *)
(* run on any thread stores the signal in two atomics and writes one byte to *)
(* a non-blocking self-pipe; one owning thread takes the signal, sleeps in   *)
(* poll(2) on the pipe and drains it.  LAST_SIGNAL only decides whether an   *)
(* error message is printed and is left out.  The module declares the state  *)
(* both sides share and its operations; Runner composes them with the        *)
(* thread that waits.                                                       *)
(***************************************************************************)
EXTENDS Naturals, FiniteSets

CONSTANTS
    TermSig,    \* SIGINT, SIGTERM, SIGHUP
    CHLD,       \* SIGCHLD: wakes the waiter and stores nothing
    NoSig,      \* the 0 of the two atomics
    Handler,    \* activations of on_signal that may run at one time
    PIPE_CAP    \* bytes the pipe holds before a write fails with EAGAIN

ASSUME SignalAssumption ==
    /\ CHLD \notin TermSig
    /\ NoSig \notin TermSig \cup {CHLD}
    /\ PIPE_CAP \in Nat \ {0}

VARIABLES
    raised,     \* signals the kernel holds for the process (a set: they coalesce)
    hpc,        \* where each handler activation is in on_signal
    hsig,       \* the signal it handles
    pending,    \* PENDING_SIGNAL
    pipe        \* bytes in the self-pipe

sigvars == <<raised, hpc, hsig, pending, pipe>>

SigTypeOK ==
    /\ raised \subseteq TermSig \cup {CHLD}
    /\ hpc \in [Handler -> {"idle", "pending", "write"}]
    /\ hsig \in [Handler -> TermSig \cup {CHLD}]
    /\ pending \in TermSig \cup {NoSig}
    /\ pipe \in 0..PIPE_CAP

\* Events::install: an empty pipe, the handlers in place, nothing recorded.
SigInit ==
    /\ raised = {}
    /\ hpc = [h \in Handler |-> "idle"]
    /\ hsig = [h \in Handler |-> CHLD]
    /\ pending = NoSig
    /\ pipe = 0

-----------------------------------------------------------------------------
(* on_signal                                                                *)

\* The kernel runs the handler on some thread.
Deliver(h, sig) ==
    /\ hpc[h] = "idle"
    /\ sig \in raised
    /\ raised' = raised \ {sig}
    /\ hsig' = [hsig EXCEPT ![h] = sig]
    /\ hpc' = [hpc EXCEPT ![h] = IF sig = CHLD THEN "write" ELSE "pending"]
    /\ UNCHANGED <<pending, pipe>>

\* Slip: a stored signal writes no byte; the handler relies on EINTR.
StorePendingOnly(h) ==
    /\ hpc[h] = "pending"
    /\ pending' = hsig[h]
    /\ hpc' = [hpc EXCEPT ![h] = "idle"]
    /\ UNCHANGED <<raised, hsig, pipe>>

StorePending(h) ==
    /\ hpc[h] = "pending"
    /\ pending' = hsig[h]
    /\ hpc' = [hpc EXCEPT ![h] = "write"]
    /\ UNCHANGED <<raised, hsig, pipe>>

\* Slip: only recorded signals write a byte.
WriteByteIfRecorded(h) ==
    /\ hpc[h] = "write"
    /\ pipe' = IF pipe < PIPE_CAP /\ hsig[h] # CHLD THEN pipe + 1 ELSE pipe
    /\ hpc' = [hpc EXCEPT ![h] = "idle"]
    /\ UNCHANGED <<raised, hsig, pending>>

\* A full pipe refuses the byte, and is readable anyway.
WriteByte(h) ==
    /\ hpc[h] = "write"
    /\ pipe' = IF pipe < PIPE_CAP THEN pipe + 1 ELSE pipe
    /\ hpc' = [hpc EXCEPT ![h] = "idle"]
    /\ UNCHANGED <<raised, hsig, pending>>

Handle(h) ==
    \/ \E sig \in TermSig \cup {CHLD} : Deliver(h, sig)
    \/ StorePending(h)
    \/ WriteByte(h)

-----------------------------------------------------------------------------
(* The owning thread: pieces of its steps                                   *)

\* take_signal: swap the pending signal out.
take_signal == pending' = NoSig /\ UNCHANGED <<raised, hpc, hsig, pipe>>

\* drain: read until the pipe is empty.
drain == pipe' = 0 /\ UNCHANGED <<raised, hpc, hsig, pending>>

\* The kernel raises a signal; one already raised absorbs it.
raise(sig) ==
    /\ raised' = raised \cup {sig}
    /\ UNCHANGED <<hpc, hsig, pending, pipe>>

\* A byte is in the pipe, or a handler is about to write one.
WakeComing == pipe > 0 \/ \E h \in Handler : hpc[h] = "write"

\* A SIGCHLD is still on its way to the pipe, or there already.
ChldComing == WakeComing \/ CHLD \in raised
=============================================================================
