------------------------------- MODULE Runner -------------------------------
(***************************************************************************)
(* One `porthmeus <command>` from its checks to its exit (src/src/runner.rs):*)
(* spawn the command in its own process group, discover its listener,       *)
(* publish the route, supervise signals, the command and the route, then    *)
(* stop the command, give the terminal back and remove the route.           *)
(*                                                                         *)
(* The route is kept by a LocalAPI session ("local", whose own protocol is   *)
(* ServeRoute) or by a foreground `tailscale serve` process ("cli").         *)
(* Signals arrive through SignalPipe.  The main thread, the command's        *)
(* processes, the Tailscale CLI, tailscaled and time all interleave.         *)
(***************************************************************************)
EXTENDS SignalPipe

CONSTANTS
    Setting,               \* ways to start a run
    MAX_SERVE_ATTEMPTS     \* runner.rs:22

\* A run reaches tailscaled by its socket or by the CLI, has a command, a target
\* or both, and may own the terminal.
AnySetting ==
    {g \in [mode : {"local", "cli"}, command : BOOLEAN, target : BOOLEAN,
            tty : {"none", "own"}] : g.command \/ g.target}

ASSUME RunnerAssumption ==
    /\ Setting \subseteq AnySetting
    /\ MAX_SERVE_ATTEMPTS \in Nat \ {0}

VARIABLES
    mode,       \* "local" or "cli": Tailscale::Local, Tailscale::Cli
    command,    \* a command was given
    target,     \* --target was given
    pc,         \* where the main thread is
    leader,     \* the command's own process, the leader of its group
    others,     \* other processes of its group are alive
    killed,     \* Porthmeus has sent the group SIGKILL
    tty,        \* the terminal's foreground group; "none" without a terminal
    route,      \* the Serve route in tailscaled
    session,    \* what the LocalAPI session's stream holds
    cli,        \* the `tailscale serve` process
    attempts,   \* CliRoute.attempts
    retry_at,   \* CliRoute.retry_at
    late,       \* Run.deadline has passed
    ready,      \* the URL has been announced
    readable,   \* route_readable of the supervise loop
    timed,      \* the current wait has a timeout
    exit        \* why the run ends

main == <<pc, exit>>
group == <<leader, others, killed>>
serve == <<route, session, cli>>
cliroute == <<attempts, retry_at>>
loop == <<ready, readable, timed>>
given == <<mode, command, target>>

vars == <<sigvars, main, group, serve, cliroute, loop, given, tty, late>>

GroupAlive == leader \in {"running", "zombie"} \/ others

CliRunning == cli \in {"starting", "serving"}

\* poll(2) reports the session's stream: notifications, or end of file.
SessionReadable == mode = "local" /\ session \in {"notified", "ended"}

Looping == {"loop_signal", "loop_child", "loop_route", "announce", "wait", "drain"}
Discovering == {"discover_signal", "discover_child", "discover_scan",
                "discover_wait", "discover_drain"}
Stopping == {"cleanup", "grace", "kill_wait", "reap", "terminal", "stop_route"}

TypeOK ==
    /\ SigTypeOK
    /\ mode \in {"local", "cli"}
    /\ command \in BOOLEAN /\ target \in BOOLEAN
    /\ pc \in {"prepare", "bind", "open", "exited"} \cup Looping \cup Discovering \cup Stopping
    /\ leader \in {"none", "running", "zombie", "reaped"}
    /\ others \in BOOLEAN /\ killed \in BOOLEAN
    /\ tty \in {"none", "own", "command"}
    /\ route \in {"never", "held", "removed"}
    /\ session \in {"none", "quiet", "notified", "ended"}
    /\ cli \in {"none", "starting", "serving", "etag", "dead"}
    /\ attempts \in 0..MAX_SERVE_ATTEMPTS
    /\ retry_at \in {"none", "set", "due"}
    /\ late \in BOOLEAN /\ ready \in BOOLEAN /\ readable \in BOOLEAN /\ timed \in BOOLEAN
    /\ exit \in {"none", "setup", "unstarted", "signal", "child", "failed"}

\* Events::install has run; arguments are parsed.
Init ==
    /\ SigInit
    /\ \E g \in Setting :
         mode = g.mode /\ command = g.command /\ target = g.target /\ tty = g.tty
    /\ pc = "prepare"
    /\ leader = "none" /\ others = FALSE /\ killed = FALSE
    /\ route = "never" /\ session = "none" /\ cli = "none"
    /\ attempts = 0 /\ retry_at = "none"
    /\ late = FALSE /\ ready = FALSE /\ readable = FALSE /\ timed = FALSE
    /\ exit = "none"

-----------------------------------------------------------------------------
(* supervise(): checks and the spawn                                        *)

\* connect, node, serve_config, a port or tool check, or the fork fails.
PrepareFails ==
    /\ pc = "prepare"
    /\ pc' = "exited"
    /\ exit' = "setup"
    /\ UNCHANGED <<sigvars, group, serve, cliroute, loop, given, tty, late>>

handed_over == IF tty = "own" THEN "command" ELSE tty

\* exec fails after pre_exec has handed the terminal to the child's new group, and
\* supervise returns at once.  Nobody waits for that child's SIGCHLD any more.
SpawnFails ==
    /\ pc = "prepare"
    /\ command
    /\ tty' = handed_over
    /\ pc' = "exited"
    /\ exit' = "unstarted"
    /\ UNCHANGED <<sigvars, group, serve, cliroute, loop, given, late>>

\* spawn_child makes the command a group leader and hands it the terminal.
SpawnChild ==
    /\ pc = "prepare"
    /\ IF command
         THEN /\ leader' = "running"
              /\ tty' = handed_over
         ELSE UNCHANGED <<leader, tty>>
    /\ pc' = IF target THEN "bind" ELSE "discover_signal"
    /\ UNCHANGED <<sigvars, others, killed, serve, cliroute, loop, given, late, exit>>

-----------------------------------------------------------------------------
(* discover(), and the two checks it shares with the supervise loop          *)

EndRun(why) == pc' = "cleanup" /\ exit' = why

\* take_signal: a pending signal ends the run.
TakeSignal ==
    /\ pc \in {"discover_signal", "loop_signal"}
    /\ take_signal
    /\ IF pending # NoSig
         THEN EndRun("signal")
         ELSE /\ pc' = IF pc = "discover_signal" THEN "discover_child" ELSE "loop_child"
              /\ UNCHANGED exit
    /\ UNCHANGED <<group, serve, cliroute, loop, given, tty, late>>

\* Slip: only a command that dies while starting is noticed.
CommandOverEarly == ~ready /\ leader = "zombie"

CommandOver == leader = "zombie"

\* child_exit_code: try_wait reaps the command and ends the run.
ChildExitCode ==
    /\ pc \in {"discover_child", "loop_child"}
    /\ IF CommandOver
         THEN leader' = "reaped" /\ EndRun("child")
         ELSE /\ pc' = IF pc = "discover_child" THEN "discover_scan" ELSE "loop_route"
              /\ UNCHANGED <<leader, exit>>
    /\ UNCHANGED <<sigvars, others, killed, serve, cliroute, loop, given, tty, late>>

\* discover_target finds a ready listener, or after the deadline a sole other one.
DiscoverFound ==
    /\ pc = "discover_scan"
    /\ pc' = "bind"
    /\ UNCHANGED <<sigvars, group, serve, cliroute, loop, given, tty, late, exit>>

\* The scan fails, or the deadline has passed with no or several candidates.
DiscoverFails ==
    /\ pc = "discover_scan"
    /\ EndRun("failed")
    /\ UNCHANGED <<sigvars, group, serve, cliroute, loop, given, tty, late>>

DiscoverPending ==
    /\ pc = "discover_scan"
    /\ ~late
    /\ pc' = "discover_wait"
    /\ timed' = TRUE
    /\ UNCHANGED <<sigvars, group, serve, cliroute, ready, readable, given, tty, late, exit>>

-----------------------------------------------------------------------------
(* execute(): bridge and route                                              *)

BindBridge ==
    /\ pc = "bind"
    /\ pc' = "open"
    /\ UNCHANGED <<sigvars, group, serve, cliroute, loop, given, tty, late, exit>>

\* Bridge::bind, Bridge::start, open_route or ServeProcess::start fails.
ExecuteFails ==
    /\ pc \in {"bind", "open"}
    /\ EndRun("failed")
    /\ UNCHANGED <<sigvars, group, serve, cliroute, loop, given, tty, late>>

\* open_route has set the foreground route of a new session.
OpenRoute ==
    /\ pc = "open"
    /\ mode = "local"
    /\ route' = "held"
    /\ session' = "quiet"
    /\ pc' = "announce"
    /\ UNCHANGED <<sigvars, group, cli, cliroute, loop, given, tty, late, exit>>

StartServe ==
    /\ pc = "open"
    /\ mode = "cli"
    /\ cli' = "starting"
    /\ attempts' = 1
    /\ pc' = "loop_signal"
    /\ UNCHANGED <<sigvars, group, route, session, retry_at, loop, given, tty, late, exit>>

-----------------------------------------------------------------------------
(* supervise() of Run: the loop                                             *)

\* The URL goes to standard output.
Announce ==
    /\ pc = "announce"
    /\ ready' = TRUE
    /\ IF mode = "local"
         THEN pc' = "loop_signal" /\ UNCHANGED timed
         ELSE pc' = "wait" /\ timed' = FALSE
    /\ UNCHANGED <<sigvars, group, serve, cliroute, readable, given, tty, late, exit>>

AnnounceFails ==
    /\ pc = "announce"
    /\ EndRun("failed")
    /\ UNCHANGED <<sigvars, group, serve, cliroute, loop, given, tty, late>>

\* Slip: end of file is taken for "nothing more to read".
SessionOverNever == FALSE

SessionOver == readable /\ session = "ended"

\* Session::drain on a readable stream: false at end of file.
DrainSession ==
    /\ pc = "loop_route"
    /\ mode = "local"
    /\ IF SessionOver
         THEN EndRun("failed") /\ UNCHANGED <<session, timed>>
         ELSE /\ session' = IF readable /\ session = "notified" THEN "quiet" ELSE session
              /\ pc' = "wait"
              /\ timed' = FALSE
              /\ UNCHANGED exit
    /\ readable' = FALSE
    /\ UNCHANGED <<sigvars, group, route, cli, cliroute, ready, given, tty, late>>

\* CliRoute::step: a retry that is due starts the CLI again.
CliRestart ==
    /\ pc = "loop_route"
    /\ mode = "cli"
    /\ retry_at = "due"
    /\ retry_at' = "none"
    /\ cli' = "starting"
    /\ attempts' = attempts + 1
    /\ UNCHANGED <<sigvars, main, group, route, session, loop, given, tty, late>>

CliRestartFails ==
    /\ pc = "loop_route"
    /\ mode = "cli"
    /\ retry_at = "due"
    /\ retry_at' = "none"
    /\ EndRun("failed")
    /\ UNCHANGED <<sigvars, group, serve, attempts, loop, given, tty, late>>

\* Slip: the last attempt is retried too.
RecoverableOnceMore == ~ready /\ attempts <= MAX_SERVE_ATTEMPTS /\ cli = "etag"

\* An exit worth another attempt.
Recoverable == ~ready /\ attempts < MAX_SERVE_ATTEMPTS /\ cli = "etag"

\* poll_exit: the CLI stopped.  A lost race for the config is tried again.
CliExited ==
    /\ pc = "loop_route"
    /\ mode = "cli"
    /\ retry_at # "due"
    /\ cli \in {"etag", "dead"}
    /\ cli' = "none"
    /\ IF Recoverable
         THEN /\ retry_at' = "set"
              /\ pc' = "wait"
              /\ timed' = TRUE
              /\ UNCHANGED exit
         ELSE EndRun("failed") /\ UNCHANGED <<retry_at, timed>>
    /\ UNCHANGED <<sigvars, group, route, session, attempts, ready, readable, given, tty, late>>

CliBackoff ==
    /\ pc = "loop_route"
    /\ mode = "cli"
    /\ cli = "none"
    /\ retry_at = "set"
    /\ pc' = "wait"
    /\ timed' = TRUE
    /\ UNCHANGED <<sigvars, group, serve, cliroute, ready, readable, exit, given, tty, late>>

\* A ready route needs no polling: sleep until something happens.
CliReady ==
    /\ pc = "loop_route"
    /\ mode = "cli"
    /\ CliRunning
    /\ ready
    /\ pc' = "wait"
    /\ timed' = FALSE
    /\ UNCHANGED <<sigvars, group, serve, cliroute, ready, readable, exit, given, tty, late>>

\* Slip: the deadline is not looked at while the CLI runs.
StartTimedOutNever == FALSE

StartTimedOut == late

\* The start timed out.
CliLate ==
    /\ pc = "loop_route"
    /\ mode = "cli"
    /\ CliRunning
    /\ ~ready /\ StartTimedOut
    /\ EndRun("failed")
    /\ UNCHANGED <<sigvars, group, serve, cliroute, loop, given, tty, late>>

\* Slip: any route in the config is taken for the one asked for.
OwnsAnyRoute == TRUE

OwnsRoute == route = "held"

\* read_serve_config and owns_route: announce the route once the config has it.
CliStatus ==
    /\ pc = "loop_route"
    /\ mode = "cli"
    /\ CliRunning
    /\ ~ready /\ ~StartTimedOut
    /\ IF OwnsRoute
         THEN pc' = "announce" /\ UNCHANGED timed
         ELSE pc' = "wait" /\ timed' = TRUE
    /\ UNCHANGED <<sigvars, group, serve, cliroute, ready, readable, exit, given, tty, late>>

CliStatusFails ==
    /\ pc = "loop_route"
    /\ mode = "cli"
    /\ CliRunning
    /\ ~ready /\ ~StartTimedOut
    /\ EndRun("failed")
    /\ UNCHANGED <<sigvars, group, serve, cliroute, loop, given, tty, late>>

-----------------------------------------------------------------------------
(* Events::wait_with                                                        *)

AfterWait == IF pc = "discover_wait" THEN "discover_signal" ELSE "loop_signal"

\* poll(2) reports the pipe, and perhaps the session.
WaitWakes ==
    /\ pc \in {"wait", "discover_wait"}
    /\ pipe > 0
    /\ timed' = FALSE
    /\ readable' = (pc = "wait" /\ SessionReadable)
    /\ pc' = IF pc = "wait" THEN "drain" ELSE "discover_drain"
    /\ UNCHANGED <<sigvars, group, serve, cliroute, ready, exit, given, tty, late>>

\* poll(2) reports the session alone.
WaitReadable ==
    /\ pc = "wait"
    /\ pipe = 0
    /\ SessionReadable
    /\ timed' = FALSE
    /\ readable' = TRUE
    /\ pc' = AfterWait
    /\ UNCHANGED <<sigvars, group, serve, cliroute, ready, exit, given, tty, late>>

\* The timeout passes, or a handler on this thread interrupts poll(2), whose
\* byte stays queued for the next call.
WaitReturnsEmpty ==
    /\ pc \in {"wait", "discover_wait"}
    /\ timed \/ \E h \in Handler : hpc[h] # "idle"
    /\ timed' = FALSE
    /\ readable' = FALSE
    /\ pc' = AfterWait
    /\ UNCHANGED <<sigvars, group, serve, cliroute, ready, exit, given, tty, late>>

DrainPipe ==
    /\ pc \in {"drain", "discover_drain"}
    /\ drain
    /\ pc' = IF pc = "drain" THEN "loop_signal" ELSE "discover_signal"
    /\ UNCHANGED <<group, serve, cliroute, loop, exit, given, tty, late>>

-----------------------------------------------------------------------------
(* supervise(): the command is stopped first, the route is removed last      *)

\* terminate_child waits for its own child; stop_remaining_group has no child left.
AfterGroup == IF exit = "child" THEN "terminal" ELSE "reap"

\* terminate_child signals the group whether or not it still runs;
\* stop_remaining_group asks first.
SignalGroup ==
    /\ pc = "cleanup"
    /\ command
    /\ exit = "child" => GroupAlive
    /\ pc' = "grace"
    /\ UNCHANGED <<sigvars, group, serve, cliroute, loop, exit, given, tty, late>>

NothingToSignal ==
    /\ pc = "cleanup"
    /\ ~command \/ (exit = "child" /\ ~GroupAlive)
    /\ pc' = "terminal"
    /\ UNCHANGED <<sigvars, group, serve, cliroute, loop, exit, given, tty, late>>

\* wait_group_exit sees the group gone.
GroupGone ==
    /\ pc = "grace"
    /\ ~GroupAlive
    /\ pc' = AfterGroup
    /\ UNCHANGED <<sigvars, group, serve, cliroute, loop, exit, given, tty, late>>

\* Slip: the rest of the group is left when the grace period ends.
GraceExpiresUnkilled ==
    /\ pc = "grace"
    /\ GroupAlive
    /\ pc' = AfterGroup
    /\ UNCHANGED <<sigvars, group, serve, cliroute, loop, exit, given, tty, late>>

\* TERMINATE_GRACE has passed and the group is still there.  A leader nobody has
\* reaped counts as there: terminate_child always gets here.
GraceExpires ==
    /\ pc = "grace"
    /\ GroupAlive
    /\ killed' = TRUE
    /\ pc' = "kill_wait"
    /\ UNCHANGED <<sigvars, leader, others, serve, cliroute, loop, exit, given, tty, late>>

\* The group is gone, or one more second has passed.
KillWaitOver ==
    /\ pc = "kill_wait"
    /\ pc' = AfterGroup
    /\ UNCHANGED <<sigvars, group, serve, cliroute, loop, exit, given, tty, late>>

\* Child::wait blocks until the command is dead.
Reap ==
    /\ pc = "reap"
    /\ leader = "zombie"
    /\ leader' = "reaped"
    /\ pc' = "terminal"
    /\ UNCHANGED <<sigvars, others, killed, serve, cliroute, loop, exit, given, tty, late>>

\* Slip: the terminal goes back only after an ordinary exit of the command.
given_back_on_exit == IF tty = "command" /\ exit = "child" THEN "own" ELSE tty

given_back == IF tty = "command" THEN "own" ELSE tty

HandTerminal ==
    /\ pc = "terminal"
    /\ tty' = given_back
    /\ pc' = "stop_route"
    /\ UNCHANGED <<sigvars, group, serve, cliroute, loop, exit, given, late>>

\* Route::stop: drop the session, or SIGINT and then SIGKILL the CLI; tailscaled
\* deletes the route of either.
StopRoute ==
    /\ pc = "stop_route"
    /\ route' = IF route = "held" THEN "removed" ELSE route
    /\ session' = "none"
    /\ cli' = "none"
    /\ pc' = "exited"
    /\ UNCHANGED <<sigvars, group, cliroute, loop, exit, given, tty, late>>

-----------------------------------------------------------------------------
(* The environment                                                          *)

\* Once cleanup has begun a signal is recorded but never read again.
RaiseTerm(sig) ==
    /\ pc \notin Stopping \cup {"exited"}
    /\ raise(sig)
    /\ UNCHANGED <<main, group, serve, cliroute, loop, given, tty, late>>

CommandExits ==
    /\ leader = "running"
    /\ leader' = "zombie"
    /\ raise(CHLD)
    /\ UNCHANGED <<main, others, killed, serve, cliroute, loop, given, tty, late>>

CommandForks ==
    /\ leader = "running"
    /\ ~killed /\ ~others
    /\ others' = TRUE
    /\ UNCHANGED <<sigvars, main, leader, killed, serve, cliroute, loop, given, tty, late>>

OthersExit ==
    /\ others
    /\ others' = FALSE
    /\ UNCHANGED <<sigvars, main, leader, killed, serve, cliroute, loop, given, tty, late>>

\* `tailscale serve` has set its foreground route.
CliRegisters ==
    /\ cli = "starting"
    /\ cli' = "serving"
    /\ route' = "held"
    /\ UNCHANGED <<sigvars, main, group, session, cliroute, loop, given, tty, late>>

\* It stops: "etag mismatch" while starting, anything else at any time.
CliExits ==
    /\ CliRunning
    /\ cli' \in IF cli = "starting" THEN {"etag", "dead"} ELSE {"dead"}
    /\ route' = IF route = "held" THEN "removed" ELSE route
    /\ raise(CHLD)
    /\ UNCHANGED <<main, group, session, cliroute, loop, given, tty, late>>

SessionNotifies ==
    /\ session = "quiet"
    /\ session' = "notified"
    /\ UNCHANGED <<sigvars, main, group, route, cli, cliroute, loop, given, tty, late>>

SessionEnds ==
    /\ session \in {"quiet", "notified"}
    /\ session' = "ended"
    /\ route' = "removed"
    /\ UNCHANGED <<sigvars, main, group, cli, cliroute, loop, given, tty, late>>

DeadlinePasses ==
    /\ ~late /\ ~ready
    /\ pc \notin Stopping \cup {"exited"}
    /\ late' = TRUE
    /\ UNCHANGED <<sigvars, main, group, serve, cliroute, loop, given, tty>>

RetryFallsDue ==
    /\ retry_at = "set"
    /\ pc \notin Stopping \cup {"exited"}
    /\ retry_at' = "due"
    /\ UNCHANGED <<sigvars, main, group, serve, attempts, loop, given, tty, late>>

HandlerRuns(h) ==
    /\ Handle(h)
    /\ UNCHANGED <<main, group, serve, cliroute, loop, given, tty, late>>

-----------------------------------------------------------------------------
(* The whole program                                                        *)

Start ==
    \/ PrepareFails \/ SpawnFails \/ SpawnChild
    \/ BindBridge \/ ExecuteFails \/ OpenRoute \/ StartServe

Discover == DiscoverFound \/ DiscoverFails \/ DiscoverPending

CliStep ==
    \/ CliRestart \/ CliRestartFails \/ CliExited \/ CliBackoff
    \/ CliReady \/ CliLate \/ CliStatus \/ CliStatusFails

Supervise == TakeSignal \/ ChildExitCode \/ Announce \/ AnnounceFails \/ DrainSession \/ CliStep

Wait == WaitWakes \/ WaitReadable \/ WaitReturnsEmpty \/ DrainPipe

Cleanup ==
    \/ SignalGroup \/ NothingToSignal \/ GroupGone \/ GraceExpires \/ KillWaitOver
    \/ Reap \/ HandTerminal \/ StopRoute

MainThread == Start \/ Discover \/ Supervise \/ Wait \/ Cleanup

Environment ==
    \/ \E sig \in TermSig : RaiseTerm(sig)
    \/ CommandExits \/ CommandForks \/ OthersExit
    \/ CliRegisters \/ CliExits
    \/ SessionNotifies \/ SessionEnds
    \/ DeadlinePasses \/ RetryFallsDue

Next ==
    \/ MainThread
    \/ \E h \in Handler : HandlerRuns(h)
    \/ Environment

Spec == Init /\ [][Next]_vars

\* The main thread and the handlers run; time passes; what SIGKILL hit dies.
\* Nothing else in the environment has to happen.
Fairness ==
    /\ WF_vars(MainThread)
    /\ \A h \in Handler : WF_vars(HandlerRuns(h))
    /\ WF_vars(DeadlinePasses)
    /\ WF_vars(RetryFallsDue)
    /\ WF_vars(killed /\ CommandExits)
    /\ WF_vars(killed /\ OthersExit)

FairSpec == Spec /\ Fairness

-----------------------------------------------------------------------------
(* Properties                                                               *)

\* The main thread never sleeps on a signal that was recorded: either a byte is
\* in the pipe or a handler is about to write it.
NoLostSignal ==
    pc \in {"wait", "discover_wait"} /\ pending # NoSig => WakeComing

\* Nor on the end of the command or of the CLI: try_wait and poll(2) are two
\* steps, and a SIGCHLD between them is not lost.
NoLostExit ==
    pc \in {"wait", "discover_wait"} /\ (leader = "zombie" \/ cli \in {"etag", "dead"})
        => ChldComing

\* "Stop the dev command first, then remove its route": when the route goes, the
\* command has been waited for and the rest of its group is gone or was killed.
CommandStoppedFirst ==
    pc \in {"terminal", "stop_route"} =>
        /\ leader \in {"none", "reaped"}
        /\ others => killed

\* However a run ends, it leaves no command it did not kill, no CLI and no route;
\* and a run whose command was started, or that got no further than its checks,
\* leaves no terminal with a dead process group.  Excepted is the command whose exec
\* failed: "Porthmeus takes the terminal back once the command is gone"
\* (runner.rs:28-29) is not so of it, because supervise returns at line 282.
NothingLeftBehind ==
    pc = "exited" =>
        /\ leader \in {"none", "reaped"} /\ (others => killed)
        /\ cli = "none"
        /\ route # "held"
        /\ exit # "unstarted" => tty # "command"

\* An announced URL had its route in tailscaled.
AnnouncedWasPublished == ready => route # "never"

\* "Normal command exit or Ctrl-C stops the child processes and removes only that
\* invocation's sharing session": a signal ends the run, whatever it is doing.
SignalEndsRun == pending # NoSig ~> pc = "exited"

\* The end of the command ends the run.
CommandEndsRun == leader = "zombie" ~> pc = "exited"

\* So does the loss of the route, unless the CLI is still retrying its start.
RouteLossEndsRun == ready /\ route = "removed" ~> pc = "exited"

\* A start never hangs: with a deadline a run has a URL or is over.
StartDecides == pc = "prepare" ~> (ready \/ pc = "exited")
=============================================================================
