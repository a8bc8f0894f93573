---------------------------- MODULE RunnerProofs ----------------------------
(***************************************************************************)
(* What a run of porthmeus never does, for any number of concurrent signal  *)
(* handlers, signals, attempts and pipe capacity: sleep on a recorded signal *)
(* or on an exit it has not seen, or remove the route and the terminal       *)
(* before its command is stopped.                                           *)
(*                                                                         *)
(* The wake-up properties speak of the moment of poll(2) only; to be         *)
(* inductive they must hold from the check (take_signal, try_wait) up to the *)
(* poll, which is what SignalChecked and ExitChecked say.                   *)
(***************************************************************************)
EXTENDS Runner, TLAPS

\* Between take_signal and the poll; CliStatus reaches "announce" from there.
AfterTake ==
    \/ pc \in {"discover_child", "discover_scan", "discover_wait",
               "loop_child", "loop_route", "wait"}
    \/ pc = "announce" /\ mode = "cli"

\* Between try_wait on the command and the poll.
AfterTryWait ==
    \/ pc \in {"discover_scan", "discover_wait", "loop_route", "wait"}
    \/ pc = "announce" /\ mode = "cli"

\* Between poll_exit on the CLI and the poll.
AfterPollExit == pc = "wait" \/ (pc = "announce" /\ mode = "cli")

SignalChecked == AfterTake /\ pending # NoSig => WakeComing

ExitChecked ==
    /\ AfterTryWait /\ leader = "zombie" => ChldComing
    /\ AfterPollExit /\ cli \in {"etag", "dead"} => ChldComing

\* Only a termination signal is ever stored.
HandlerShape == \A h \in Handler : hpc[h] = "pending" => hsig[h] \in TermSig

\* The CLI exists only in its mode and only once it was started.
CliInMode ==
    /\ mode = "local" => cli = "none"
    /\ pc \in {"prepare", "bind", "open", "exited"} \cup Discovering => cli = "none"

\* A retry is armed only if an attempt is left.
AttemptLeft ==
    /\ retry_at # "none" => attempts < MAX_SERVE_ATTEMPTS
    /\ pc \in {"prepare", "bind", "open"} \cup Discovering
          => attempts = 0 /\ retry_at = "none"

\* The command's group from the spawn to the end of the cleanup.
GroupShape ==
    /\ leader = "none" => ~others
    /\ ~command => leader = "none"
    /\ command /\ pc \notin {"prepare", "exited"} => leader # "none"
    /\ pc = "prepare" => leader = "none" /\ tty # "command"
    /\ pc \in {"grace", "kill_wait", "reap"} => command
    /\ exit = "child" => leader = "reaped"
    /\ leader = "reaped" =>
          exit = "child" \/ pc \in {"terminal", "stop_route", "exited"}
    /\ pc \in {"kill_wait", "reap"} /\ exit # "child" => killed
    /\ pc = "kill_wait" => killed
    /\ pc \in Stopping => exit \in {"signal", "child", "failed"}
    /\ pc \notin Stopping \cup {"exited"} => exit = "none"

RouteShape ==
    /\ ready \/ pc = "announce" => route # "never"
    /\ pc \in {"prepare", "bind", "open"} \cup Discovering => route = "never" /\ session = "none"
    /\ pc = "stop_route" => tty # "command"
    /\ session # "none" => route # "never"

RunnerInv ==
    /\ TypeOK /\ HandlerShape /\ SignalChecked /\ ExitChecked /\ CliInMode /\ AttemptLeft
    /\ GroupShape /\ RouteShape
    /\ CommandStoppedFirst /\ NothingLeftBehind

\* Every part of the invariant, for the leaves that need them all.
USE DEF Looping, Discovering, Stopping

LEMMA InitRunner == Init => RunnerInv
<1> SUFFICES ASSUME Init PROVE RunnerInv
  OBVIOUS
<1>1. PICK g \in Setting :
        mode = g.mode /\ command = g.command /\ target = g.target /\ tty = g.tty
  BY DEF Init
<1>2. /\ mode \in {"local", "cli"} /\ tty \in {"none", "own"}
      /\ command \in BOOLEAN /\ target \in BOOLEAN
  BY <1>1, RunnerAssumption DEF AnySetting
<1>3. TypeOK
  <2>1. SigTypeOK
    BY SignalAssumption DEF Init, SigInit, SigTypeOK
  <2>2. attempts \in 0..MAX_SERVE_ATTEMPTS
    BY RunnerAssumption DEF Init
  <2> QED
    BY <1>2, <2>1, <2>2 DEF Init, TypeOK
<1>4. HandlerShape /\ SignalChecked /\ ExitChecked /\ CliInMode /\ AttemptLeft
  BY DEF Init, SigInit, HandlerShape, SignalChecked, ExitChecked, CliInMode, AttemptLeft, AfterTake,
         AfterTryWait, AfterPollExit
<1>5. GroupShape /\ RouteShape
  BY <1>2 DEF Init, GroupShape, RouteShape
<1>6. CommandStoppedFirst /\ NothingLeftBehind
  BY DEF Init, CommandStoppedFirst, NothingLeftBehind
<1> QED
  BY <1>3, <1>4, <1>5, <1>6 DEF RunnerInv

\* Most steps leave the signal state, the command and the CLI alone; then a wake-up
\* that was coming still is.
LEMMA WakeUnchanged ==
  ASSUME UNCHANGED sigvars
  PROVE  WakeComing' = WakeComing /\ ChldComing' = ChldComing
  BY DEF sigvars, WakeComing, ChldComing

LEMMA StartKeeps ==
  ASSUME RunnerInv, Start
  PROVE  RunnerInv'
<1> USE DEF RunnerInv, TypeOK, SigTypeOK, HandlerShape, SignalChecked, ExitChecked,
            CliInMode, AttemptLeft, GroupShape, RouteShape, CommandStoppedFirst, NothingLeftBehind, AfterTake,
            AfterTryWait, AfterPollExit, group, serve, cliroute, loop, given, EndRun, main
<1>1. CASE PrepareFails
  BY <1>1, WakeUnchanged DEF PrepareFails, sigvars
<1>2. CASE SpawnChild
  BY <1>2, WakeUnchanged DEF SpawnChild, handed_over, sigvars
<1>7. CASE SpawnFails
  BY <1>7, WakeUnchanged DEF SpawnFails, handed_over, sigvars
<1>3. CASE BindBridge
  BY <1>3, WakeUnchanged DEF BindBridge, sigvars
<1>4. CASE ExecuteFails
  BY <1>4, WakeUnchanged DEF ExecuteFails, sigvars
<1>5. CASE OpenRoute
  BY <1>5, WakeUnchanged DEF OpenRoute, sigvars
<1>6. CASE StartServe
  BY <1>6, WakeUnchanged, RunnerAssumption DEF StartServe, sigvars
<1> QED
  BY <1>1, <1>2, <1>3, <1>4, <1>5, <1>6, <1>7 DEF Start

\* The outcomes of a scan.
LEMMA DiscoverKeeps ==
  ASSUME RunnerInv, Discover
  PROVE  RunnerInv'
<1> USE DEF RunnerInv, TypeOK, SigTypeOK, HandlerShape, SignalChecked, ExitChecked,
            CliInMode, AttemptLeft, GroupShape, RouteShape, CommandStoppedFirst, NothingLeftBehind, AfterTake,
            AfterTryWait, AfterPollExit, group, serve, cliroute, loop, given, EndRun, main
<1>1. CASE DiscoverFound
  BY <1>1, WakeUnchanged DEF DiscoverFound, sigvars
<1>2. CASE DiscoverFails
  BY <1>2, WakeUnchanged DEF DiscoverFails, sigvars
<1>3. CASE DiscoverPending
  BY <1>3, WakeUnchanged DEF DiscoverPending, sigvars
<1> QED
  BY <1>1, <1>2, <1>3 DEF Discover

\* The lifecycle of the CLI.  An armed retry has an attempt left to use.
LEMMA CliStepKeeps ==
  ASSUME RunnerInv, CliStep
  PROVE  RunnerInv'
<1> USE DEF RunnerInv, TypeOK, SigTypeOK, HandlerShape, SignalChecked, ExitChecked,
            CliInMode, AttemptLeft, GroupShape, RouteShape, CommandStoppedFirst, NothingLeftBehind, AfterTake,
            AfterTryWait, AfterPollExit, group, serve, cliroute, loop, given, EndRun, main
<1>1. CASE CliRestart
  BY <1>1, WakeUnchanged, RunnerAssumption DEF CliRestart, sigvars
<1>2. CASE CliRestartFails
  BY <1>2, WakeUnchanged DEF CliRestartFails, sigvars
<1>3. CASE CliExited
  <2>1. ready' \in BOOLEAN /\ timed' \in BOOLEAN
    BY <1>3 DEF CliExited
  <2>2. SigTypeOK' /\ attempts' \in 0..MAX_SERVE_ATTEMPTS
    BY <1>3 DEF CliExited, sigvars
  <2>3. TypeOK'
    BY <1>3, <2>1, <2>2 DEF CliExited, Recoverable
  <2> QED
    BY <1>3, <2>3, WakeUnchanged DEF CliExited, Recoverable, sigvars
<1>4. CASE CliBackoff
  BY <1>4, WakeUnchanged DEF CliBackoff, sigvars
<1>5. CASE CliReady
  <2>1. ready' \in BOOLEAN /\ timed' \in BOOLEAN
    BY <1>5 DEF CliReady
  <2>2. SigTypeOK' /\ attempts' \in 0..MAX_SERVE_ATTEMPTS
    BY <1>5 DEF CliReady, sigvars
  <2>3. TypeOK'
    BY <1>5, <2>1, <2>2 DEF CliReady, CliRunning
  <2> QED
    BY <1>5, <2>3, WakeUnchanged DEF CliReady, CliRunning, sigvars
<1>6. CASE CliLate
  BY <1>6, WakeUnchanged DEF CliLate, StartTimedOut, CliRunning, sigvars
<1>7. CASE CliStatus
  <2>1. ready' \in BOOLEAN /\ timed' \in BOOLEAN
    BY <1>7 DEF CliStatus, OwnsRoute, StartTimedOut
  <2>2. SigTypeOK' /\ attempts' \in 0..MAX_SERVE_ATTEMPTS
    BY <1>7 DEF CliStatus, OwnsRoute, StartTimedOut, sigvars
  <2>3. TypeOK'
    BY <1>7, <2>1, <2>2 DEF CliStatus, OwnsRoute, StartTimedOut, CliRunning
  <2> QED
    BY <1>7, <2>3, WakeUnchanged DEF CliStatus, OwnsRoute, StartTimedOut, CliRunning, sigvars
<1>8. CASE CliStatusFails
  BY <1>8, WakeUnchanged DEF CliStatusFails, CliRunning, sigvars
<1> QED
  BY <1>1, <1>2, <1>3, <1>4, <1>5, <1>6, <1>7, <1>8 DEF CliStep

\* The cleanup: the group first, then the terminal, then the route.
LEMMA CleanupKeeps ==
  ASSUME RunnerInv, Cleanup
  PROVE  RunnerInv'
<1> USE DEF RunnerInv, TypeOK, SigTypeOK, HandlerShape, SignalChecked, ExitChecked,
            CliInMode, AttemptLeft, GroupShape, RouteShape, CommandStoppedFirst, NothingLeftBehind, AfterTake,
            AfterTryWait, AfterPollExit, group, serve, cliroute, loop, given, EndRun, main
<1>1. CASE SignalGroup
  BY <1>1, WakeUnchanged DEF SignalGroup, GroupAlive, AfterGroup, sigvars
<1>2. CASE NothingToSignal
  BY <1>2, WakeUnchanged DEF NothingToSignal, GroupAlive, AfterGroup, sigvars
<1>3. CASE GroupGone
  BY <1>3, WakeUnchanged DEF GroupGone, GroupAlive, AfterGroup, sigvars
<1>4. CASE GraceExpires
  BY <1>4, WakeUnchanged DEF GraceExpires, GroupAlive, AfterGroup, sigvars
<1>5. CASE KillWaitOver
  BY <1>5, WakeUnchanged DEF KillWaitOver, AfterGroup, sigvars
<1>6. CASE Reap
  BY <1>6, WakeUnchanged DEF Reap, sigvars
<1>7. CASE HandTerminal
  BY <1>7, WakeUnchanged DEF HandTerminal, given_back, sigvars
<1>8. CASE StopRoute
  BY <1>8, WakeUnchanged DEF StopRoute, sigvars
<1> QED
  BY <1>1, <1>2, <1>3, <1>4, <1>5, <1>6, <1>7, <1>8 DEF Cleanup

\* The checks of the loop and the announcement.  Taking the signal leaves none
\* pending, so the part of the loop up to the poll starts with nothing to lose.
LEMMA SuperviseKeeps ==
  ASSUME RunnerInv, TakeSignal \/ ChildExitCode \/ Announce \/ AnnounceFails \/ DrainSession
  PROVE  RunnerInv'
<1> USE DEF RunnerInv, TypeOK, SigTypeOK, HandlerShape, SignalChecked, ExitChecked,
            CliInMode, AttemptLeft, GroupShape, RouteShape, CommandStoppedFirst, NothingLeftBehind, AfterTake,
            AfterTryWait, AfterPollExit, group, serve, cliroute, loop, given, EndRun, main
<1>1. CASE TakeSignal
  <2>1. pending' = NoSig
    BY <1>1 DEF TakeSignal, take_signal
  <2>2. SigTypeOK' /\ HandlerShape'
    BY <1>1 DEF TakeSignal, take_signal
  <2>3. ChldComing' = ChldComing
    BY <1>1 DEF TakeSignal, take_signal, ChldComing, WakeComing
  <2> QED
    BY <1>1, <2>1, <2>2, <2>3 DEF TakeSignal
<1>2. CASE ChildExitCode
  BY <1>2, WakeUnchanged DEF ChildExitCode, CommandOver, sigvars
<1>3. CASE Announce
  <2>1. ready' \in BOOLEAN /\ timed' \in BOOLEAN
    BY <1>3 DEF Announce
  <2> QED
    BY <1>3, <2>1, WakeUnchanged DEF Announce, sigvars
<1>4. CASE AnnounceFails
  BY <1>4, WakeUnchanged DEF AnnounceFails, sigvars
<1>5. CASE DrainSession
  <2>1. readable' \in BOOLEAN /\ timed' \in BOOLEAN
    BY <1>5 DEF DrainSession, SessionOver
  <2> QED
    BY <1>5, <2>1, WakeUnchanged DEF DrainSession, SessionOver, sigvars
<1> QED
  BY <1>1, <1>2, <1>3, <1>4, <1>5

\* Events::wait_with.  The drain is the only step that empties the pipe, and
\* nothing is claimed from there until the next take_signal.
LEMMA WaitKeeps ==
  ASSUME RunnerInv, Wait
  PROVE  RunnerInv'
<1> USE DEF RunnerInv, TypeOK, SigTypeOK, HandlerShape, SignalChecked, ExitChecked,
            CliInMode, AttemptLeft, GroupShape, RouteShape, CommandStoppedFirst, NothingLeftBehind, AfterTake,
            AfterTryWait, AfterPollExit, group, serve, cliroute, loop, given, EndRun, main
<1>1. CASE WaitWakes
  <2>1. readable' \in BOOLEAN /\ timed' \in BOOLEAN
    BY <1>1 DEF WaitWakes
  <2> QED
    BY <1>1, <2>1, WakeUnchanged DEF WaitWakes, sigvars
<1>2. CASE WaitReadable
  <2>1. readable' \in BOOLEAN /\ timed' \in BOOLEAN
    BY <1>2 DEF WaitReadable
  <2> QED
    BY <1>2, <2>1, WakeUnchanged DEF WaitReadable, AfterWait, sigvars
<1>3. CASE WaitReturnsEmpty
  <2>1. readable' \in BOOLEAN /\ timed' \in BOOLEAN
    BY <1>3 DEF WaitReturnsEmpty
  <2> QED
    BY <1>3, <2>1, WakeUnchanged DEF WaitReturnsEmpty, AfterWait, sigvars
<1>4. CASE DrainPipe
  <2>1. SigTypeOK' /\ HandlerShape'
    BY <1>4, SignalAssumption DEF DrainPipe, drain
  <2> QED
    BY <1>4, <2>1 DEF DrainPipe, drain
<1> QED
  BY <1>1, <1>2, <1>3, <1>4 DEF Wait

\* A handler keeps every wake-up on its way: a signal that leaves "raised" is in a
\* handler, a stored signal is about to be written, a written byte is in the pipe.
LEMMA HandlerKeepsWake ==
  ASSUME SigTypeOK, HandlerShape, NEW h \in Handler, Handle(h)
  PROVE  /\ SigTypeOK' /\ HandlerShape'
         /\ WakeComing => WakeComing'
         /\ ChldComing => ChldComing'
         /\ pending' = pending \/ WakeComing'
<1> USE SignalAssumption DEF SigTypeOK, HandlerShape, WakeComing, ChldComing
<1>1. ASSUME NEW sig \in TermSig \cup {CHLD}, Deliver(h, sig)
      PROVE  /\ SigTypeOK' /\ HandlerShape' /\ pending' = pending
             /\ WakeComing => WakeComing'
             /\ ChldComing => ChldComing'
  BY <1>1 DEF Deliver
<1>2. CASE StorePending(h)
  BY <1>2 DEF StorePending
<1>3. CASE WriteByte(h)
  <2>1. pipe' > 0 /\ pipe' \in 0..PIPE_CAP
    BY <1>3 DEF WriteByte
  <2> QED
    BY <1>3, <2>1 DEF WriteByte
<1> QED
  BY <1>1, <1>2, <1>3 DEF Handle

LEMMA HandlerKeeps ==
  ASSUME RunnerInv, NEW h \in Handler, HandlerRuns(h)
  PROVE  RunnerInv'
<1> USE DEF RunnerInv, TypeOK, SigTypeOK, HandlerShape, SignalChecked, ExitChecked,
            CliInMode, AttemptLeft, GroupShape, RouteShape, CommandStoppedFirst, NothingLeftBehind, AfterTake,
            AfterTryWait, AfterPollExit, group, serve, cliroute, loop, given, EndRun, main
<1>1. /\ SigTypeOK' /\ HandlerShape'
      /\ WakeComing => WakeComing'
      /\ ChldComing => ChldComing'
      /\ pending' = pending \/ WakeComing'
  BY HandlerKeepsWake DEF HandlerRuns
<1>2. UNCHANGED <<main, group, serve, cliroute, loop, given, tty, late>>
  BY DEF HandlerRuns
<1>3. SignalChecked' /\ ExitChecked'
  BY <1>1, <1>2
<1> QED
  BY <1>1, <1>2, <1>3

\* Raising a signal loses none.
LEMMA RaiseKeepsWake ==
  ASSUME SigTypeOK, HandlerShape, NEW sig \in TermSig \cup {CHLD}, raise(sig)
  PROVE  /\ SigTypeOK' /\ HandlerShape'
         /\ pending' = pending /\ WakeComing' = WakeComing
         /\ ChldComing => ChldComing'
         /\ sig = CHLD => ChldComing'
  BY DEF raise, SigTypeOK, HandlerShape, WakeComing, ChldComing

LEMMA EnvironmentKeeps ==
  ASSUME RunnerInv, Environment
  PROVE  RunnerInv'
<1> USE DEF RunnerInv, TypeOK, SigTypeOK, HandlerShape, SignalChecked, ExitChecked,
            CliInMode, AttemptLeft, GroupShape, RouteShape, CommandStoppedFirst, NothingLeftBehind, AfterTake,
            AfterTryWait, AfterPollExit, group, serve, cliroute, loop, given, EndRun, main
<1>1. ASSUME NEW sig \in TermSig, RaiseTerm(sig) PROVE RunnerInv'
  BY <1>1, RaiseKeepsWake DEF RaiseTerm
<1>2. CASE CommandExits
  BY <1>2, RaiseKeepsWake DEF CommandExits
<1>3. CASE CommandForks
  BY <1>3, WakeUnchanged DEF CommandForks, sigvars
<1>4. CASE OthersExit
  <2>1. others' \in BOOLEAN /\ killed' \in BOOLEAN
    BY <1>4 DEF OthersExit
  <2> QED
    BY <1>4, <2>1, WakeUnchanged DEF OthersExit, sigvars
<1>5. CASE CliRegisters
  BY <1>5, WakeUnchanged DEF CliRegisters, sigvars
<1>6. CASE CliExits
  BY <1>6, RaiseKeepsWake DEF CliExits, CliRunning
<1>7. CASE SessionNotifies
  BY <1>7, WakeUnchanged DEF SessionNotifies, sigvars
<1>8. CASE SessionEnds
  BY <1>8, WakeUnchanged DEF SessionEnds, sigvars
<1>9. CASE DeadlinePasses
  BY <1>9, WakeUnchanged DEF DeadlinePasses, sigvars
<1>10. CASE RetryFallsDue
  BY <1>10, WakeUnchanged DEF RetryFallsDue, sigvars
<1> QED
  BY <1>1, <1>2, <1>3, <1>4, <1>5, <1>6, <1>7, <1>8, <1>9, <1>10 DEF Environment

LEMMA StutterKeeps ==
  ASSUME RunnerInv, UNCHANGED vars
  PROVE  RunnerInv'
<1> USE DEF RunnerInv, TypeOK, SigTypeOK, HandlerShape, SignalChecked, ExitChecked,
            CliInMode, AttemptLeft, GroupShape, RouteShape, CommandStoppedFirst, NothingLeftBehind, AfterTake,
            AfterTryWait, AfterPollExit, group, serve, cliroute, loop, given, EndRun, main
<1> QED
  BY WakeUnchanged DEF vars, sigvars

LEMMA NextRunner == RunnerInv /\ [Next]_vars => RunnerInv'
  BY StartKeeps, DiscoverKeeps, CliStepKeeps, SuperviseKeeps, WaitKeeps, CleanupKeeps,
     HandlerKeeps, EnvironmentKeeps, StutterKeeps
     DEF Next, MainThread, Supervise

LEMMA RunnerInvariant == Spec => []RunnerInv
  BY InitRunner, NextRunner, PTL DEF Spec

\* Every value stays in its type; the CLI is started at most MAX_SERVE_ATTEMPTS times.
THEOREM RunnerTypeCorrect == Spec => []TypeOK
  BY RunnerInvariant, PTL DEF RunnerInv

\* No recorded signal is slept on, however handlers and the main thread interleave.
THEOREM RunnerNoLostSignal == Spec => []NoLostSignal
<1>1. RunnerInv => NoLostSignal
  BY DEF RunnerInv, SignalChecked, AfterTake, NoLostSignal
<1> QED
  BY <1>1, RunnerInvariant, PTL

\* No exit of the command or of the CLI is slept on.
THEOREM RunnerNoLostExit == Spec => []NoLostExit
<1>1. RunnerInv => NoLostExit
  BY DEF RunnerInv, TypeOK, ExitChecked, CliInMode, AfterTryWait, AfterPollExit, NoLostExit
<1> QED
  BY <1>1, RunnerInvariant, PTL

\* The route is removed only after the command was waited for and its group is
\* gone or killed.
THEOREM RunnerCommandStoppedFirst == Spec => []CommandStoppedFirst
  BY RunnerInvariant, PTL DEF RunnerInv

\* A run that is over holds no route, no CLI, no terminal and no command it spared.
THEOREM RunnerNothingLeftBehind == Spec => []NothingLeftBehind
  BY RunnerInvariant, PTL DEF RunnerInv

\* The URL is announced only once tailscaled has the route.
THEOREM RunnerAnnouncedWasPublished == Spec => []AnnouncedWasPublished
<1>1. RunnerInv => AnnouncedWasPublished
  BY DEF RunnerInv, RouteShape, AnnouncedWasPublished
<1> QED
  BY <1>1, RunnerInvariant, PTL
=============================================================================
