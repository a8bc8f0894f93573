------------------------------ MODULE Capture ------------------------------
(***************************************************************************)
(* The two ways in which a helper program is run for its output.            *)
(* wait_with_timeout (src/src/tailscale.rs) runs the tailscale CLI and       *)
(* reads its two pipes only after it has exited; capture                    *)
(* (src/src/discovery/fallback_scan.rs) runs ps, lsof and netstat and reads  *)
(* stdout on a thread of its own.  A pipe holds PIPE pieces: a program that  *)
(* prints more waits for its reader.  A program may leave a child behind     *)
(* that inherited the pipes (lsof forks one), and a pipe is at its end only   *)
(* when nobody holds it.                                                    *)
(***************************************************************************)
EXTENDS Integers

CONSTANTS
    PIPE,       \* pieces a pipe holds
    SIZE        \* bound: pieces a program prints on one stream

ASSUME CaptureAssumption == PIPE \in Nat \ {0} /\ SIZE \in Nat

VARIABLES
    threaded,   \* capture, not wait_with_timeout
    size,       \* what the program is to print on each stream
    holders,    \* who has the write ends of the pipes
    forked,     \* the program has left a child with them
    tool,       \* the program: it runs, has exited, was waited for
    success,    \* its exit status
    written,    \* pieces written to each pipe
    got,        \* pieces read from it
    reader,     \* the thread of capture is still reading
    late,       \* the deadline has passed
    pc,         \* where the caller is
    result      \* what it returns

vars == <<threaded, size, holders, forked, tool, success, written, got, reader, late, pc, result>>

Stream == {"out", "err"}

\* No pipe overflows, and the program was waited for before anything else is done.
TypeOK ==
    /\ threaded \in BOOLEAN
    /\ size \in [Stream -> 0..SIZE]
    /\ holders \subseteq {"tool", "heir"}
    /\ forked \in BOOLEAN
    /\ tool \in {"runs", "exited", "reaped"}
    /\ success \in BOOLEAN
    /\ written \in [Stream -> 0..SIZE]
    /\ got \in [Stream -> 0..SIZE]
    /\ \A f \in Stream : got[f] <= written[f] /\ written[f] <= got[f] + PIPE
    /\ reader \in BOOLEAN
    /\ late \in BOOLEAN
    /\ pc \in {"try_wait", "kill", "read_out", "read_err", "join", "join_late", "returned"}
    /\ result \in {"none", "ok", "failed", "timed out"}
    /\ pc = "returned" <=> result # "none"
    /\ pc \notin {"try_wait", "kill"} => tool = "reaped"
    /\ tool = "runs" <=> "tool" \in holders

\* The program was spawned; capture gives it no stderr.
Init ==
    /\ threaded \in BOOLEAN
    /\ size \in [Stream -> 0..SIZE]
    /\ threaded => size["err"] = 0
    /\ holders = {"tool"}
    /\ forked = FALSE
    /\ tool = "runs"
    /\ success = FALSE
    /\ written = [f \in Stream |-> 0]
    /\ got = [f \in Stream |-> 0]
    /\ reader = threaded
    /\ late = FALSE
    /\ pc = "try_wait"
    /\ result = "none"

-----------------------------------------------------------------------------
(* The program                                                              *)

Writes(f) ==
    /\ holders # {}
    /\ written[f] < size[f]
    /\ written[f] < got[f] + PIPE
    /\ written' = [written EXCEPT ![f] = @ + 1]
    /\ UNCHANGED <<threaded, size, holders, forked, tool, success, got, reader, late, pc, result>>

Forks ==
    /\ tool = "runs"
    /\ ~forked
    /\ forked' = TRUE
    /\ holders' = holders \cup {"heir"}
    /\ UNCHANGED <<threaded, size, tool, success, written, got, reader, late, pc, result>>

AllWritten == written = size

\* It exits with everything written, or fails at any time.
Exits ==
    /\ tool = "runs"
    /\ tool' = "exited"
    /\ holders' = holders \ {"tool"}
    /\ success' \in {AllWritten, FALSE}
    /\ UNCHANGED <<threaded, size, forked, written, got, reader, late, pc, result>>

Finishes == AllWritten /\ Exits

HeirEnds ==
    /\ holders' = holders \ {"heir"}
    /\ "heir" \in holders
    /\ UNCHANGED <<threaded, size, forked, tool, success, written, got, reader, late, pc, result>>

DeadlinePasses ==
    /\ pc # "returned"
    /\ ~late
    /\ late' = TRUE
    /\ UNCHANGED <<threaded, size, holders, forked, tool, success, written, got, reader, pc, result>>

-----------------------------------------------------------------------------
(* The caller                                                               *)

\* read_to_end
Reads(f) ==
    /\ got[f] < written[f]
    /\ got' = [got EXCEPT ![f] = @ + 1]

\* Slip: an empty pipe is taken for its end.
AtEofWhenEmpty(f) == got[f] = written[f]

AtEof(f) == got[f] = written[f] /\ holders = {}

\* try_wait returns the exit status.
TryWait ==
    /\ pc = "try_wait"
    /\ tool = "exited"
    /\ tool' = "reaped"
    /\ pc' = IF threaded THEN "join" ELSE "read_out"
    /\ UNCHANGED <<threaded, size, holders, forked, success, written, got, reader, late, result>>

\* try_wait finds that the program still runs, and the deadline has passed.
Expires ==
    /\ pc = "try_wait"
    /\ tool = "runs"
    /\ late
    /\ pc' = "kill"
    /\ UNCHANGED <<threaded, size, holders, forked, tool, success, written, got, reader, late, result>>

\* kill and wait, even if the program has exited by itself since; capture then
\* joins its reader.
Kills ==
    /\ pc = "kill"
    /\ tool' = "reaped"
    /\ holders' = holders \ {"tool"}
    /\ IF threaded THEN pc' = "join_late" /\ UNCHANGED result
                   ELSE pc' = "returned" /\ result' = "timed out"
    /\ UNCHANGED <<threaded, size, forked, success, written, got, reader, late>>

ReadStream(f, here) ==
    /\ pc = here
    /\ Reads(f)
    /\ UNCHANGED <<threaded, size, holders, forked, tool, success, written, reader, late, pc, result>>

EndOfOut ==
    /\ pc = "read_out"
    /\ AtEof("out")
    /\ pc' = "read_err"
    /\ UNCHANGED <<threaded, size, holders, forked, tool, success, written, got, reader, late, result>>

\* run_capture returns stdout of a program that succeeded.
EndOfErr ==
    /\ pc = "read_err"
    /\ AtEof("err")
    /\ pc' = "returned"
    /\ result' = IF success THEN "ok" ELSE "failed"
    /\ UNCHANGED <<threaded, size, holders, forked, tool, success, written, got, reader, late>>

\* Slip: the thread starts to read when the program has exited.
ReaderStartsLate == reader /\ tool # "runs"

ReaderRuns == reader

ReaderReads ==
    /\ ReaderRuns
    /\ Reads("out")
    /\ UNCHANGED <<threaded, size, holders, forked, tool, success, written, reader, late, pc, result>>

ReaderEnds ==
    /\ ReaderRuns
    /\ AtEof("out")
    /\ reader' = FALSE
    /\ UNCHANGED <<threaded, size, holders, forked, tool, success, written, got, late, pc, result>>

\* The exit status does not matter: lsof exits with 1 when no socket matches.
Joins ==
    /\ pc \in {"join", "join_late"}
    /\ ~reader
    /\ pc' = "returned"
    /\ result' = IF pc = "join" THEN "ok" ELSE "timed out"
    /\ UNCHANGED <<threaded, size, holders, forked, tool, success, written, got, reader, late>>

Caller ==
    \/ TryWait
    \/ Expires
    \/ Kills
    \/ ReadStream("out", "read_out")
    \/ EndOfOut
    \/ ReadStream("err", "read_err")
    \/ EndOfErr
    \/ Joins

Reader == ReaderReads \/ ReaderEnds

Next ==
    \/ Caller
    \/ Reader
    \/ \E f \in Stream : Writes(f)
    \/ Forks
    \/ Exits
    \/ HeirEnds
    \/ DeadlinePasses

Spec == Init /\ [][Next]_vars

\* The caller and its thread run; the program writes what it can and then exits.
\* Neither a child it leaves nor the deadline has to come to an end.
FairSpec ==
    /\ Spec
    /\ WF_vars(Caller) /\ WF_vars(Reader)
    /\ \A f \in Stream : WF_vars(Writes(f))
    /\ WF_vars(Finishes)

-----------------------------------------------------------------------------
(* Properties                                                               *)

\* Output that is returned is all of it: the pipe is read to its end, whatever was
\* written while the exit status was asked for, and by whomever.  The CLI's is
\* everything it had to print, since it is used only after a success.
WholeOutput ==
    result = "ok" =>
        /\ holders = {} /\ got["out"] = written["out"]
        /\ ~threaded => got["out"] = size["out"]

Fits == \A f \in Stream : size[f] <= PIPE

\* A program that is willing to finish is not held up until the deadline by a full
\* pipe: never under capture, and under wait_with_timeout as long as what it prints
\* fits into the pipes.  After the deadline only a child that inherited the pipes
\* keeps the caller.
CaptureEnds ==
    /\ threaded \/ Fits ~> tool # "runs" \/ late
    /\ late ~> pc = "returned" \/ "heir" \in holders
=============================================================================
