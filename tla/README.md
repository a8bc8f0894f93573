# Porthmeus, modelled in TLA+

Porthmeus (`porthmeus <command>`) starts a dev server, finds the port it listens
on, puts a small HTTP bridge in front of it and publishes the bridge on a
Tailscale Serve HTTPS port for as long as the command runs. `porthmeus dashboard`
lists the listening servers of the user and stops them.

The program is small, but it runs between processes it does not control: the
kernel's signals, the dev server's process group, tailscaled and its other
clients, browsers that keep connections open, a terminal that must be handed
back. This directory models those parts, checks them with TLC and proves the
most important properties with TLAPS.

Paths below are relative to the repository (`src/src/runner.rs` is the file
`src/runner.rs` of the crate).

## 1. Inventory

| part | source | state | operations | who it talks to |
|---|---|---|---|---|
| bridge worker pool | `proxy.rs` 18-122 | `Pool.idle`, the threads, the listener's queue | `start`, `spawn_worker`, `worker` | tailscaled opens connections; threads share one atomic |
| bridge connection handling | `proxy.rs` 124-632 | per connection: two sockets, head buffers, a `Pipe` per direction | `handle_connection`, `read_request_head`, Host and Origin checks, `relay_http`, `relay_exact`, `relay_upgrade` | tailscaled's proxy on one side, the dev server on the other |
| Serve route by LocalAPI | `localapi.rs`, `tailscale.rs`, `serve.rs` | the Serve config in tailscaled, its ETag, the watch connection (`Session`) | `watch`, `serve_config`, `open_route`, `drain`, drop | tailscaled, every other client of it |
| signals | `signal.rs` | `PENDING_SIGNAL`, `LAST_SIGNAL`, the self-pipe | `on_signal`, `take_signal`, `wait_with`, `drain` | kernel, any thread |
| run supervision | `runner.rs` | `Run` (child, deadline), `Route`, the terminal's foreground group | `run_config`, `supervise`, `execute`, `discover`, `terminate_child`, `stop_remaining_group` | all of the above, the command's process group |
| CLI fallback | `runner.rs` 42-100 and 458-512, `tailscale.rs` | `ServeProcess`, `attempts`, `retry_at` | `start`, `poll_exit`, `step`, `stop`, `read_serve_config` | the `tailscale` executable |
| helper program capture | `tailscale.rs` 208-267, `discovery/fallback_scan.rs` 219-254 | a child, its pipes, a reader thread | `run_capture`, `wait_with_timeout`, `capture` | the tailscale CLI; ps, lsof, netstat |
| dashboard | `dashboard.rs` | `State`: rows, selection, routes and their key, signature, pending question, stopped pids | `refresh`, `build_rows`, `handle`, `stop` | /proc or ps and lsof, Tailscale, other processes |
| discovery | `discovery.rs`, `discovery/*`, `Run::discover` | none between polls; within one the process set, the listeners, the probes | `discover`, `discover_target`, `owned_processes`, `loopback_listeners`, `shallowest`, `probe` | kernel, the command's processes |
| command line | `cli.rs`, `main.rs` | none | `parse_config` | the user |
| netlink, ps, lsof parsing | `discovery/proc_scan.rs`, `discovery/fallback_scan.rs` | none | parsers | kernel, external tools |
| installer, packaging, releases | `install.sh`, `nix/`, `docs/` | none | | |

What is hard, and what makes each part correct:

* **Pool.** Lock-free: a counter and decisions taken from its old value. The count
  must stay exact when a thread cannot be started; a connection that lasts for
  hours must not block the port; the pool must neither die out nor grow.
* **Connection.** Two directions with half-closes, resets and timeouts, handled by
  one loop or in turn: bytes arrive in order and once, the end of one direction
  does not cut the other, a request is forwarded whole and nothing is taken from
  the client after it, the worker comes back.
* **Route.** Optimistic concurrency on somebody else's state: no route of another
  client is replaced, no two runs take one port, a route never survives its run
  even when its POST is applied after the run gave up or was killed, a lost route
  is noticed, the retry loop ends.
* **Signals.** The classic self-pipe question: between the check of a flag and
  poll(2) a signal must not be lost, with a full pipe, with handlers on other
  threads, with EINTR.
* **Run.** About twenty ways to end: each must stop the command before the
  route goes, wait for it, give the terminal back and leave nothing behind.
* **CLI fallback.** Retries that are counted, a start that is bounded by the
  deadline, an announced route whose loss ends the run.
* **Dashboard.** A table read in four steps of a world that changes between them,
  and keys that kill processes named in an older table.
* **Discovery.** Which of several listeners is the dev server, when the process
  table, the sockets and the answers are read one after the other while the
  processes fork, detach, listen and exit.
* **Capture.** A pipe holds less than a program may print, and a child of the
  program may hold it open: the whole output, and no wait without an end.

## 2. Modules

| module | models | state and actions against the code |
|---|---|---|
| `BridgePool` | `Bridge::start`, `spawn_worker`, `worker` | `pc` is the place of a thread between two atomic operations; `ClaimSlot`, `SpawnCount`, `SpawnUndo`, `ReturnSlot` and `Leave` are the five operations on `Pool.idle`. `handle_connection` is one step, `HandleConnection`, that a long-lived connection never takes. |
| `Channel` | one direction of a relayed connection | the abstract specification: pieces are sent, delivered in order and once, and the sink is told of the end only when it has everything, or with an excuse |
| `Connection` | `handle_connection` to its return | `pc` is the place of the worker; one action per read, write, early return and turn of a loop. `held`, `eof` and `done` are the fields of the two `Pipe`s (and the buffers of `relay_http`); `sent`, `taken` and `fin` are the peers; what lies between is the two socket buffers. Implements `Channel` in both directions. |
| `PortOwnership` | what README.md promises of the Serve config ("each invocation owns a separate HTTPS port") | the abstract specification: claims, releases, clears, edits of others |
| `ServeRoute` | `open_route`, `watch`, `Session`, the port check of `supervise` | one action per request sent, answer read, `?` taken and drop; `bg`, `fg`, `Apply`, `RejectStale`, `NoticeHangup`, `Restart` and `Reset` are tailscaled, which is not in the repository and is modelled from how `localapi.rs` uses it. Implements `PortOwnership`. |
| `SignalPipe` | `signal.rs` | each atomic operation of `on_signal`, with several activations at a time |
| `Runner` | `runner.rs`: the whole life of one run; extends `SignalPipe` | `pc` is the place of the main thread. The early returns of `execute`, `discover` and `CliRoute::step` are actions or disjuncts; those of `supervise` are two, `PrepareFails` for the checks and a failed fork, which change nothing, and `SpawnFails` for a failed exec, after the child has handed over the terminal; the command, the rest of its group, the CLI, tailscaled, the deadline and signals are the environment. |
| `Dashboard` | `State::refresh`, `build_rows`, `State::handle`, `stop` | `pc` is the place inside a refresh; `rows`, `selected`, `routes`, `routes_key`, `pending`, `stopped`, `signature` are the fields of `State`; processes, sockets and the Serve config are the world. `consumed` is the set `build_rows` keeps while it goes through the sessions by pid, `sorted` its sort by port and pid. |
| `Discovery` | `Run::discover`, `discover_target`, `shallowest`, the probes, both `owned_processes` | `pc` is the place in a poll; `owned`, `ppid` and `holder` are the tables it has read; `queue`, `ready` and `unready` the listeners it still has to probe and has probed. The command's processes fork, detach, exit, listen, close and change their answers in between. |
| `Capture` | `run_capture` with `wait_with_timeout`; `capture` | `pc` is the caller, `reader` the thread of `capture`; `written` and `got` are the ends of the two pipes, `holders` who has them open |
| `MC*` | instances | constants and symmetry for TLC |
| `*Proofs` | | theorems, see section 5 |
| `FiniteOrders` | | lemmas of the proofs that are about no program: least and greatest numbers, induction and recursion over an interval, walks in a forest, sorting |

`BridgePool` takes a connection as one that ends or may last for ever; `Connection`
is what goes on in it, and its `WorkerReturns` is why a connection whose peers end
gives its worker back. `Runner` takes a poll of discovery as found, failed or
pending; `Discovery` is what decides it. `Runner` takes the LocalAPI session as an object that is quiet, has
notifications, or is over; `ServeRoute` is the protocol behind it, with several
runs at once. `Dashboard` takes a run as a process that binds its bridge, publishes
and exits, in the order `Runner` shows.

A definition whose comment starts with **Slip** is a deliberately wrong version of
the one below it: a plausible mistake (a dropped guard, an off-by-one, a missing
byte). No specification uses them. They show that each property of the passing
runs fails when the code is wrong in that way, and so that it says something.

## 3. Runs

| run | instance | shows |
|---|---|---|
| `pool` | 4 threads, 2 connections that may last for ever, fair | `IdleCount`: the counter is exact through failed accepts and failed thread starts; `ServedBesideLongLived`: the replacement comes before the long connection, and `SlotIsReplaced`, its part without fairness |
| `pool_stranded` | 3 threads, 3 connections, fair | counterexample to `NeverStranded` (finding 1) |
| `pool_quiet` | 4 threads, 3 connections, symmetric | counterexample to `QuietPoolIsSmall` (finding 2) |
| `connection` | 13 requests that take every path; 3 and 2 pieces, reads of up to 2, a window of 1, heads up to 1, bodies up to 2; peers that may never read; fair | the refinement `Streams` of `Channel` in both directions, `EverythingArrives`, `WorkerReturns`, `RequestIsWhole` |
| `route` | 2 runs, a free and a Funnel port, 2 attempts, fair | `OnePerPort`, `SessionHoldsRoute`, the refinement `Ownership_Spec`, `NoOrphanRoute` and its part without fairness, `EndedRunGetsNoRoute`, `LostRouteIsSeen`, `OpenReturns` |
| `runner` | all twelve settings, 1 termination signal and SIGCHLD, 2 handler activations, a pipe of 1 byte, 2 CLI attempts | `NoLostSignal`, `NoLostExit`, `CommandStoppedFirst`, `NothingLeftBehind`, `AnnouncedWasPublished` |
| `runner_live` | the settings without a terminal, LocalAPI and CLI, 1 handler activation, fair | `SignalEndsRun`, `CommandEndsRun`, `RouteLossEndsRun`, `StartDecides` |
| `discovery` | 3 pids, the command's the second; 2 addresses; 5 changes of the world; Linux and other systems | `QuietPollIsRight`, `NoRivalMissed`, `HelpersAreLeftAlone` |
| `capture` | outputs of 0 to 4 pieces on each stream, pipes of 2; both captures; fair | `WholeOutput`, `CaptureEnds` |
| `dashboard` | a run, its dev server, a helper sharing a socket; fair | `OneRowPerProcess` and `PortListedOnce`: a process and a port have one row each; `QuestionHasRow`, `KillFollowsStop`, `CursorStays`, `ListSettles` |
| `dashboard_kill` | the same | counterexample to `SessionNotKilled` (finding 3) |
| `dashboard_group` | a run in a shell pipeline, `porthmeus ... \| tee`: its dev server in a group of its own, another process in the run's group | counterexample to `OnlyAskedKilled` (finding 4) |

Why the bounds are enough. The pool needs three threads for three workers that
leave together and a fourth for a replacement on top of a full pool; two long
connections occupy the two threads that a pool keeps. One port that two runs want,
and one they may not have but other clients use, is every conflict of two runs;
that two runs on different ports do not meet is proved for all ports; two attempts are one retry and
one exhausted loop (`SET_ATTEMPTS` and `MAX_SERVE_ATTEMPTS` are larger in the
code; the safety theorems hold for every value). A pipe of one byte makes the full
pipe frequent, two handler activations make one signal interrupt another. A
connection needs a window smaller than a read, so that a write stops in the
middle with bytes in hand and the other direction goes on; heads of one piece at the
limit and beyond it, bodies that are missing, half in the head's chunk, exact and
too long are among its requests. Three processes are a command, its server and a helper
of it, and two addresses are a server and its rival; the command's pid
is in the middle, because pids wrap and the holder of a shared socket is the
lowest. Five changes are fork, fork, listen, listen and one more in the middle of
a poll; an address counts as steady through all of them that leave its holders, its
answer and the depth of its server alone, so that a server stays while its helpers
come and go. A pipe of two pieces and outputs of up to four are a program
that fits, one that fills the pipe, and one that needs its reader. The
dashboard's three processes give a session with its tree, a group with a leader
and a member, and an inherited socket; those of the pipeline, a run that leads
a group whose other member is not below it, which is where a stop of the run and a stop of
the group differ. Deadlock is not checked: runs end, a
dashboard quits and a pool without connections waits.

### Findings

1. **A pool can die out** (`pool_stranded`, `proxy.rs:117`). A worker leaves on the
   old value of `fetch_add` and takes itself out of the count one operation later.
   A worker that is still between the two counts for the others: with three, the
   first sees two idle ones and is preempted there, and the other two, serving a
   connection in turn, each see two as well. All exit. The next connection is queued for a listener that nobody
   accepts from. The comment in `worker` says connections "are only delayed, never
   stranded".
2. **A quiet pool may be larger than the constant says** (`pool_quiet`). The claim of
   the last slot and the count of its replacement are two operations; workers
   that return in between stay, and the replacement is on top of them.
3. **A published run can be force-killed from the dashboard** (`dashboard_kill`,
   `dashboard.rs:247`), against the comment that says it must not. The routes are
   loaded again only when the listeners change ("Serve status only changes when
   listeners do", line 245), and a run binds its bridge before it publishes: a scan in
   between fixes the row as a plain server. For the same reason the URL of that run is not
   shown, not even after the 30 s scan, until some listener changes.
4. **A force-kill may reach what was never asked to stop** (`dashboard_group`,
   `dashboard.rs:457`). The first stop of a session signals the run only. Its dev server
   exits, the run is still there, and the next table lists it as a server, by its bridge,
   with its group if it leads one. Its pid is remembered as stopped, so the next stop is
   SIGKILL for the group, with the rest of a pipeline in it. The README offers a
   force-kill of what was stopped.

Two comments are contradicted by a single step of the model, and have no run:

* *A command that cannot be executed takes the terminal with it* (`SpawnFails`,
  `runner.rs:575`). Between fork and exec the child makes itself a group and that group
  the terminal's foreground group. When exec fails, `spawn` returns an error, and
  `supervise` returns at line 282, before the lines that take the terminal back (310-312): its
  foreground group no longer exists. `runner.rs:28-29` promises that Porthmeus "takes the
  terminal back once the command is gone". `NothingLeftBehind` excepts this end
  (`exit = "unstarted"`) and no other.
* *Equal fingerprints do not mean equal listeners* (`Exits`, `proc_scan.rs:156-157`). A
  socket keeps its inode when its owner exits and a child that inherited it goes on, so
  the fingerprint is the same and the row names a dead process. `ListSettles` shows that
  the 30 s scan repairs it.

Things seen while modelling that contradict no statement of the repository:
`terminate_child` waits for the group without reaping the leader, so when a
signal or a failure ends a run, an unreaped leader keeps its group alive and the
whole grace period, a SIGKILL and one more second pass even if the command
stopped at once; a second
Ctrl-C during the cleanup is recorded and never read.

In `Connection`: when one direction of a WebSocket fails to write, the function
returns and drops what the other direction holds, although its sink may be alive;
an error of `io::copy` is not told from its end, so a response cut off by
the dev server looks complete if it has no length; a body is written to its end
before the response is read, so that a dev server that answers first and closes
is not heard, and one that answers first and reads later stops both. These are
the clauses of `Excused` and the assumption `Reader` of `WorkerReturns`. Bytes that
came with the head and lie beyond its `Content-Length` are sent to the dev server with
the body (`proxy.rs:448`), which `RequestIsWhole` allows and bounds.

In `Discovery`: the comment on `shallowest` says depth counts owned ancestors, and
the walk stops at the first parent that is not owned, which is the same unless
a member of the group has a parent that has left the group on a system without
the descendant scan. A helper that listens before the dev server does is, until
then, the shallowest listener, is probed, and is chosen if it answers 2xx; the
comment speaks of helpers of the same process only. An address is probed some
time after it was found: another program may have it by then. The target
of an IPv6 listener is kept without its brackets, so its printed URL and the
Host header of the bridge lack them.

In `Capture`: the CLI's output is read after its exit, so a Serve status larger than
a pipe (64 KiB on Linux) makes the CLI wait for its reader until the timeout and
is reported as one; and a child that holds the pipe keeps both captures of a
program that has exited, and `capture` even after its deadline and the kill.

## 4. Fairness

* `BridgePool`: a thread that can run eventually runs (weak, on every step inside
  `worker`); a connection that is not long-lived ends (its peers or the relay's
  timeouts end it); accept(2) does not fail for ever while connections are queued
  (strong, on `Accept`): EMFILE passes and the loop retries every 100 ms.
* `ServeRoute`: a run takes its next step, every exchange ends by the socket
  timeouts (`PostFails` is always possible), tailscaled notices closed
  connections. Nothing forces it to answer, and nothing stops other clients.
* `Runner`: the main thread and the handlers run, the deadline and the retry time
  pass, and what was sent SIGKILL dies. The command, the CLI and tailscaled need
  not do anything: `StartDecides` holds with a CLI that hangs. Blocking calls
  (a scan, `open_route`, a CLI query) are single steps because each is bounded by
  its own timeout.
* `Connection`: the worker runs, which includes the timeout of a read from the
  client. No peer has to send, to read, to end or to answer. Where a property needs a
  peer that reads what it is sent as long as it has not gone, it says so (`Reader`):
  `EverythingArrives` of the sink alone, so the other sink may be blocked for ever;
  `WorkerReturns` of the dev server for a body, and of both for the end, because no
  write has a timeout.
* `Capture`: the caller and its thread run, the program writes what the pipe takes
  and exits when it has written everything. A child it left need not end, and the
  deadline need not pass: what ends before it is said without it.
* `Discovery` is checked for safety; that a start ends by its deadline is
  `StartDecides` of `Runner`.
* `Dashboard`: a refresh goes on, the 30 s interval passes, and scans do not fail
  for ever. Users and processes need not do anything.

## 5. Theorems

All hold for every value of the constants that satisfies the modules' named
assumptions.

* `BridgePoolProofs`: `PoolTypeCorrect` (`idle` never wraps below zero),
  `PoolIdleCount`, `PoolSlotIsReplaced`, `PoolNeverUnattended`.
  Invariant: types and
  `idle = Cardinality(Counted)`. Three lemmas say what happens to the cardinality
  when a worker enters the counted set, leaves it, or hands its unit to a new
  thread; every action is one of them or changes neither side. The last two are the
  safety half of `ServedBesideLongLived`: if nobody else waits, claims or starts, the
  claiming worker is the only one counted, so by exactness it reads 1.
  Assumes finitely many worker identities and a positive floor.
* `ServeRouteProofs`: `RouteTypeCorrect`, `RouteOnePerPort`, `RouteSessionHolds`,
  `RouteOwnership` (the refinement). `OnePerPort` alone is not inductive: it must be
  known that the config a POST on its way was computed from leaves the port free
  and that its run holds nothing (`PostIsSafe`), and what an unread 200 means
  (`AnswerIsTrue`). `Apply` then needs that the snapshot is the current config, which
  is the compare-and-set, and the refinement step is a `Claim`.
  `RouteEndedGetsNone` is the safety half of `NoOrphanRoute`: a route needs a stream
  that the daemon has not seen closed (`HeldByStream`), and a run that is over has none.
* `ConnectionProofs`: `ConnectionTypeCorrect`, `ConnectionRequestIsWhole`,
  `ConnectionStreams` (the refinement of `Channel`, twice). The invariant has three
  parts. `NoFurther` bounds what is read of a request: less than one read beyond the
  head, and nothing beyond the body once a read of the body was needed. `FlowInv` says of each direction that what was written, followed by what is
  held, is the numbered prefix that was read, and that no more was read than sent.
  `StageInv` says, for each place of the worker, what has been forwarded
  by then, which pipe is over, and which side was shut down. A step then delivers the
  next pieces or none; a step that shuts a side down has either an end of file with
  empty hands or one of the excuses, which are shown to hold at each `return` of the
  code one by one.
* `DiscoveryProofs`: `DiscoveryTypeCorrect`, `DiscoveryTargetIsShallowest`,
  `DiscoveryNoRivalMissed`, `DiscoveryHelpersAreLeftAlone`, `DiscoveryQuietPollIsRight`.
  A poll starts with nothing left of the one before (`FreshPoll`), so that what is
  queued and probed comes from its own tables. `Forest` says that the process tree has
  no cycle, as: no set of processes is closed under taking the parent. With it the
  number of steps of the code's walk is the number of processes above
  (`DepthIsLevel`, from `StepsAreAncestors`). `SteadyTables` and `SteadyAnswers` say how
  far the tables and the probes agree with the addresses that were left alone since the
  poll began, whatever other processes forked, exited or listened (`Placed`: such an
  address has the depth in the tables that it has in the world), and `RivalInv` and `PollInv` what that means for the queue.
* `CaptureProofs`: `CaptureTypeCorrect`, `CaptureWholeOutput`. Invariant: a pipe seen at
  its end stays there, because a program that has exited forks no more, and a
  successful program has written everything.
* `RunnerProofs`: `RunnerTypeCorrect`, `RunnerNoLostSignal`, `RunnerNoLostExit`,
  `RunnerCommandStoppedFirst`, `RunnerNothingLeftBehind`,
  `RunnerAnnouncedWasPublished`. The wake-up properties speak
  of the moment of poll(2); the invariant extends them back to the check they
  depend on (`SignalChecked` from `take_signal`, `ExitChecked` from `try_wait` or
  `poll_exit`). `NothingLeftBehind` excepts the terminal after a failed exec (section 3). `GroupShape`, `RouteShape`, `CliInMode` and `AttemptLeft` say what
  exists at each place of the main thread.
* `DashboardProofs`: `DashboardKillFollowsStop`: the history variable `asked` records each
  confirmed stop with the pid of the row and whom it signalled. The invariant says that
  `stopped` holds only processes whose stop was confirmed and a force-kill question is
  only about one of them (`KillInv`), and that a stop that was sent to the process
  alone was of a process that leads no group or is dead, since a table is read from the world
  and groups do not change (`AskedInv`, from `ScanInv` and `KindInv`; `Groupless`). So a
  force-kill of a group follows a stop of the group, or of the run that leads it.
  `DashboardTypeCorrect`, `DashboardOneRowPerProcess`, `DashboardPortListedOnce` rest on
  what `build_rows` returns (`BuildRows`): the set of consumed pids grows from one pid to the
  next (`ConsumedGrows`), a session is in it and whom it shows was not in it before
  (`RowOrigin`), so no two rows share a pid or a port; first port and pid therefore
  order them strictly and the sorted list exists (`RowsAreSorted`).
  `PortListedOnce` also needs that a scan names one owner of a port (`OneOwner`), which is
  so for the `/proc` scan; the `lsof` scan of other systems lists every holder.
  `DashboardQuestionHasRow` and `DashboardCursorStays` follow from the fact that the
  rows change only at the end of a refresh (`RowsComeFromShow`).
  `DashboardWholeTree`: the rounds of `descendants` give the least set that holds a
  process and the children of its members, in any process table.
* `FiniteOrders` holds the lemmas that need an induction. The library's induction
  theorems take the property as an operator; here it is the set of the numbers that have
  it, and a least number outside that set is taken, which exists because inclusion is
  well-founded on the subsets of a finite set. `RecursionExists` then shows that a
  recursive function of an interval exists, which its CHOOSE needs to mean anything;
  `SortedListExists` gives each member its rank, the number of those before it.

Every invariant and action property of the passing runs is proved. Only model-checked is what
needs fairness: `ServedBesideLongLived`, `EverythingArrives`, `WorkerReturns`,
`NoOrphanRoute`, `LostRouteIsSeen`, `OpenReturns`, `SignalEndsRun`, `CommandEndsRun`,
`RouteLossEndsRun`, `StartDecides`, `CaptureEnds` and `ListSettles`: liveness is out of
the prover's reach. Only proved: `TypeOK` of `Discovery` and of `Capture`,
`TargetIsShallowest`, and the two statements without a run, `PoolNeverUnattended` and
`DashboardWholeTree`.

## 6. Abstractions

* tailscaled and the `tailscale` CLI are external. Assumed: the ETag names the
  content of the config, a POST is applied atomically if it matches, a foreground
  entry lives as long as its watch connection, and an ended session is given
  none. An ETag collision is not modelled.
* HTTP framing, JSON, chunked decoding and header handling of the LocalAPI are
  "answered" or "failed", in the order the code sends and reads.
* `Connection` numbers pieces and counts heads in pieces. Rewriting a head (Host,
  hop-by-hop and forwarded headers, Location) changes its text and not the order or
  the end of the streams, and is left out: a head's pieces go through. Host and
  Origin are classes of values. EINTR repeats a call and is left out. The 3 s
  of the connect and the 10 s of a read are choices of the environment.
* `Discovery` reads each table in one step, keeps one address per loopback or
  wildcard socket, and reduces an answer to none, ready (2xx or 3xx) or other. A
  socket without a holder answers nothing. That an address is taken over by another process
  after it was found is possible, and then the process that took it over is asked.
* `Capture` takes the pieces of stdout and stderr to be written in any order.
* `LAST_SIGNAL` only suppresses an error message and is left out.
* `Runner` has one flag for all other members of the command's group; a process
  that leaves the group is nobody's child any more. Termination signals that
  arrive after the cleanup has begun are not generated, since nothing reads them.
  Time is one deadline that passes at any point (every run has one: `Config.timeout`
  must be positive) and one retry time.
* In `Dashboard` a scan names one owner of a socket, the lowest pid, as that of `/proc` does.
  A pid and a port are used once; the port names the socket's inode.
  A row keeps the fields that `handle` and `stop` read; names, directories, layout,
  scrolling and key decoding are left out. The refusal to signal the dashboard's
  own pid is left out, since it has no listener and so no row. What happens after
  the dashboard quits is not followed.
* Not modelled: argument parsing (its result is the constant `Setting`), wire and
  text formats of netlink, ps and lsof, `find_cli`, the contents
  of HTTP heads, rendering, the installer and packaging, the tests (read as
  statements of intent).

## 7. Plan

Done: `BridgePool`, `PortOwnership` and `ServeRoute`, `SignalPipe` and `Runner`,
`Dashboard`, `Channel` and `Connection`, `Discovery`, `Capture`, with the proofs of
section 5. Next, in this order:

1. `ServeConfig`: `uses_port`, `owns_route`, `with_foreground_route` and
   `loopback_routes` as functions over small configs, checked against a definition
   of what a port's owner is, so that `ServeRoute`'s abstraction of a config is
   itself checked.
2. Pid reuse in `Dashboard`, and the key decoding of `interact`, where an escape
   sequence that arrives in two reads is taken for the Escape key.
3. Proofs of the safety half of the remaining liveness properties: what a step of a
   connection or of a capture uses up.
