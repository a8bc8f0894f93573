------------------------------ MODULE Dashboard ------------------------------
(***************************************************************************)
(* `porthmeus dashboard` (src/src/dashboard.rs): a table of the listening   *)
(* servers of one user that is refreshed in steps while processes start,    *)
(* fork, listen, publish routes and die, and keys that stop them.  A stop    *)
(* asks first; a second stop of the same process offers SIGKILL, except for  *)
(* a Porthmeus session, which must stop its own dev server.                  *)
(*                                                                         *)
(* The kernel's processes and sockets and the Serve config are the world.    *)
(* Every process starts once and listens on one port of its own; a child may *)
(* inherit its parent's socket.  Pids are not reused.                        *)
(***************************************************************************)
EXTENDS Integers, Sequences, FiniteSets, FiniteSetsExt

CONSTANTS
    Pid,        \* process ids
    Session,    \* those that are `porthmeus` runs
    Parent,     \* the parent of each process, 0 for one started elsewhere
    Leader,     \* the leader of its process group
    PortOf      \* the port it listens on, if it does

ASSUME DashboardAssumption ==
    /\ IsFiniteSet(Pid) /\ Pid \subseteq Nat \ {0}
    /\ Session \subseteq Pid
    /\ Parent \in [Pid -> Pid \cup {0}]
    /\ Leader \in [Pid -> Pid]
    /\ PortOf \in [Pid -> Nat]

Port == {PortOf[p] : p \in Pid}

LastPid == Max(Pid \cup {0})

\* A row of the table; what a server of it listens on is `endpoints`.
Row == [pid : Pid, session : BOOLEAN, group : BOOLEAN,
        endpoints : SUBSET Port, urls : SUBSET Port]

VARIABLES
    life,       \* each process: "unborn", "alive" or "dead"
    holders,    \* the processes that hold the listening socket of a port
    opened,     \* ports whose socket has been opened
    served,     \* ports that Tailscale Serve proxies to
    termed,     \* processes the dashboard sent SIGTERM, themselves or as a group
    asked,      \* the stops it confirmed: the pid of the row and whom it signalled
    killed,     \* processes it sent SIGKILL
    pc,         \* where refresh() is; "keys" between refreshes
    scan,       \* what the refresh under way has read
    rows,       \* State.rows
    selected,   \* State.selected, from 1
    routes,     \* State.routes
    routes_key, \* State.routes_key
    note,       \* State.tailscale_note is set
    pending,    \* State.pending
    stopped,    \* State.stopped
    signature,  \* State.signature
    fresh,      \* State.scanned_at is younger than FULL_SCAN_INTERVAL
    force_scan  \* State.force_scan

world == <<life, holders, opened, served, termed, asked, killed>>
table == <<rows, selected, routes, routes_key, note>>
stops == <<pending, stopped>>
cache == <<signature, fresh, force_scan>>
vars == <<world, pc, scan, table, stops, cache>>

NoPending == [pid |-> 0, kind |-> "none"]
NoScan == [signature |-> {}, listeners |-> {}, processes |-> {}]

Alive == {p \in Pid : life[p] = "alive"}

\* socket_owners: of several holders of an inode the first in /proc.
Listeners == {<<Min(holders[n]), n>> : n \in {m \in Port : holders[m] # {}}}

\* listen_signature: the open sockets, whoever holds them.
ListenSignature == {n \in Port : holders[n] # {}}

RowPids == {rows[i].pid : i \in 1..Len(rows)}

SelectedPid == IF selected \in 1..Len(rows) THEN rows[selected].pid ELSE 0

TypeOK ==
    /\ life \in [Pid -> {"unborn", "alive", "dead"}]
    /\ holders \in [Port -> SUBSET Pid]
    /\ opened \subseteq Port /\ served \subseteq Port
    /\ termed \subseteq Pid /\ killed \subseteq Pid
    /\ asked \subseteq Pid \X {"group", "session", "process"}
    /\ pc \in {"keys", "listeners", "processes", "routes", "quit"}
    /\ scan \in [signature : SUBSET Port, listeners : SUBSET (Pid \X Port), processes : SUBSET Pid]
    /\ rows \in Seq(Row)
    /\ IF rows = <<>> THEN selected = 1 ELSE selected \in 1..Len(rows)
    /\ routes \subseteq Port
    /\ routes_key \subseteq Pid \X Port
    /\ stopped \subseteq Pid
    /\ pending \in [pid : Pid \cup {0}, kind : {"none", "stop", "kill"}]
    /\ signature \subseteq Port
    /\ note \in BOOLEAN /\ fresh \in BOOLEAN /\ force_scan \in BOOLEAN

\* run(): an empty state whose first refresh is due.
Init ==
    /\ life = [p \in Pid |-> "unborn"]
    /\ holders = [n \in Port |-> {}]
    /\ opened = {} /\ served = {} /\ termed = {} /\ asked = {} /\ killed = {}
    /\ pc = "keys" /\ scan = NoScan
    /\ rows = <<>> /\ selected = 1
    /\ routes = {} /\ routes_key = {} /\ note = FALSE
    /\ pending = NoPending /\ stopped = {}
    /\ signature = {} /\ fresh = FALSE /\ force_scan = TRUE

-----------------------------------------------------------------------------
(* build_rows                                                               *)

\* Processes below p.  One whose parent is gone has been left to init.
descendants(processes, p) ==
    LET reach[n \in 0..Cardinality(Pid)] ==
            IF n = 0 THEN {p} \cap processes
            ELSE reach[n - 1] \cup {q \in processes : Parent[q] \in reach[n - 1]}
    IN  reach[Cardinality(Pid)] \ {p}

row_of(p, session, group, ports, urls) ==
    [pid |-> p, session |-> session, group |-> group, endpoints |-> ports, urls |-> urls]

\* first_port, then pid.
row_before(a, b) ==
    LET m == Min(a.endpoints) n == Min(b.endpoints)
    IN  m < n \/ (m = n /\ a.pid < b.pid)

sorted(S) ==
    CHOOSE list \in [1..Cardinality(S) -> S] :
        \A i, j \in DOMAIN list : i < j => row_before(list[i], list[j])

owners_of(listeners) == {l[1] : l \in listeners}

ports_of(listeners, p) == {l[2] : l \in {k \in listeners : k[1] = p}}

urls_for(listeners, loaded, p) == ports_of(listeners, p) \cap loaded

\* The listening processes below p that no other session has taken.
below(processes, listeners, taken, p) ==
    (descendants(processes, p) \cap owners_of(listeners)) \ taken

\* Slip: the session's own listener is left to be a row of its own.
consumes_below(p, children) == children

\* Slip: the listeners below it are left to be rows of their own.
consumes_itself(p, children) == {p}

consumes(p, children) == {p} \cup children

\* A served listener with listeners below it is a session.
is_session(processes, listeners, loaded, taken, p) ==
    urls_for(listeners, loaded, p) # {} /\ below(processes, listeners, taken, p) # {}

\* What the sessions with a pid up to n have consumed: they are taken in this order.
consumed(processes, listeners, loaded) ==
    LET taken[n \in 0..LastPid] ==
            IF n = 0 THEN {}
            ELSE IF is_session(processes, listeners, loaded, taken[n - 1], n)
                   THEN taken[n - 1] \cup consumes(n, below(processes, listeners, taken[n - 1], n))
                   ELSE taken[n - 1]
    IN  taken

\* Sessions first: one row for the whole tree.
session_rows(processes, listeners, loaded, taken) ==
    {row_of(p, TRUE, FALSE,
            UNION {ports_of(listeners, q) : q \in below(processes, listeners, taken[p - 1], p)},
            urls_for(listeners, loaded, p)) :
        p \in {q \in owners_of(listeners) :
                  is_session(processes, listeners, loaded, taken[q - 1], q)}}

\* Every other listening process is a row of its own.
server_rows(processes, listeners, loaded, taken) ==
    {row_of(p, FALSE, p \in processes /\ Leader[p] = p,
            ports_of(listeners, p), urls_for(listeners, loaded, p)) :
        p \in owners_of(listeners) \ taken[LastPid]}

build_rows(processes, listeners, loaded) ==
    LET taken == consumed(processes, listeners, loaded)
    IN  sorted(session_rows(processes, listeners, loaded, taken)
                 \cup server_rows(processes, listeners, loaded, taken))

-----------------------------------------------------------------------------
(* State::refresh                                                           *)

\* Slip: no safety net.
UpToDateBySignature == ~force_scan /\ ListenSignature = signature

\* Nothing asks for a scan, the last one is recent and the fingerprint is its own.
UpToDate == ~force_scan /\ fresh /\ ListenSignature = signature

\* A refresh is due.  An equal fingerprint ends it at once.
ReadSignature ==
    /\ pc = "keys"
    /\ ~UpToDate
    /\ scan' = [scan EXCEPT !.signature = ListenSignature]
    /\ pc' = "listeners"
    /\ UNCHANGED <<world, table, stops, cache>>

\* A failed scan keeps the last rows.
ScanFails ==
    /\ pc = "listeners"
    /\ pc' = "keys"
    /\ scan' = NoScan
    /\ UNCHANGED <<world, table, stops, cache>>

ReadListeners ==
    /\ pc = "listeners"
    /\ scan' = [scan EXCEPT !.listeners = Listeners]
    /\ signature' = scan.signature
    /\ fresh' = TRUE
    /\ force_scan' = FALSE
    /\ pc' = "processes"
    /\ UNCHANGED <<world, table, stops>>

PidsOf(list) == {list[i].pid : i \in 1..Len(list)}

\* Slip: the cursor keeps its line, whatever is on it now.
reselect_line(list) == IF selected <= Len(list) THEN selected ELSE 1

\* Slip: the cursor is not brought back onto a shorter table.
reselect_unclamped(list) ==
    IF SelectedPid \in PidsOf(list)
      THEN CHOOSE i \in 1..Len(list) : list[i].pid = SelectedPid
      ELSE selected

\* The selection stays on its process; without it, on its line.
reselect(list) ==
    IF SelectedPid \in PidsOf(list)
      THEN CHOOSE i \in 1..Len(list) : list[i].pid = SelectedPid
      ELSE IF list = <<>> THEN 1 ELSE Min({selected, Len(list)})

\* Slip: the question outlives its row.
keep_pending(list) == pending

\* A question about a row that is gone is dropped.
still_pending(list) == IF pending.pid \in PidsOf(list) THEN pending ELSE NoPending

\* The end of a refresh: the new rows, and what they mean for cursor and stops.
Show(processes, loaded) ==
    /\ rows' = build_rows(processes, scan.listeners, loaded)
    /\ routes' = loaded
    /\ routes_key' = scan.listeners
    /\ selected' = reselect(rows')
    /\ pending' = still_pending(rows')
    /\ stopped' = stopped \cap processes
    /\ pc' = "keys"
    /\ scan' = NoScan
    /\ UNCHANGED <<world, cache>>

RoutesWanted == scan.listeners # routes_key \/ note

\* process_table; unless the listeners changed the routes stay what they were.
ReadProcesses ==
    /\ pc = "processes"
    /\ ~RoutesWanted
    /\ Show(Alive, routes)
    /\ UNCHANGED note

ReadProcessesFirst ==
    /\ pc = "processes"
    /\ RoutesWanted
    /\ scan' = [scan EXCEPT !.processes = Alive]
    /\ pc' = "routes"
    /\ UNCHANGED <<world, table, stops, cache>>

\* load_routes asks Tailscale, or fails and leaves a note.
LoadRoutes ==
    /\ pc = "routes"
    /\ Show(scan.processes, served)
    /\ note' = FALSE

LoadRoutesFails ==
    /\ pc = "routes"
    /\ Show(scan.processes, {})
    /\ note' = TRUE

\* FULL_SCAN_INTERVAL passes.
Age ==
    /\ fresh /\ pc # "quit"
    /\ fresh' = FALSE
    /\ UNCHANGED <<world, pc, scan, table, stops, signature, force_scan>>

-----------------------------------------------------------------------------
(* State::handle                                                            *)

Line(key) ==
    CASE key = "Up"   -> IF selected > 1 THEN selected - 1 ELSE 1
      [] key = "Down" -> IF selected < Len(rows) THEN selected + 1 ELSE selected
      [] key = "Home" -> 1
      [] key = "End"  -> IF rows = <<>> THEN 1 ELSE Len(rows)

Move(key) ==
    /\ pc = "keys"
    /\ pending = NoPending
    /\ selected' = Line(key)
    /\ UNCHANGED <<world, pc, scan, rows, routes, routes_key, note, stops, cache>>

\* Slip: any stop that was confirmed makes the next one a SIGKILL.
kind_after_any(row) == IF stopped # {} /\ ~row.session THEN "kill" ELSE "stop"

\* The second stop of a process offers SIGKILL, except for a Porthmeus session.
kind_for(row) == IF row.pid \in stopped /\ ~row.session THEN "kill" ELSE "stop"

AskStop ==
    /\ pc = "keys"
    /\ pending = NoPending
    /\ selected \in 1..Len(rows)
    /\ pending' = [pid |-> rows[selected].pid, kind |-> kind_for(rows[selected])]
    /\ UNCHANGED <<world, pc, scan, table, stopped, cache>>

\* Any key but `y` cancels.
Cancel ==
    /\ pc = "keys"
    /\ pending # NoPending
    /\ pending' = NoPending
    /\ UNCHANGED <<world, pc, scan, table, stopped, cache>>

\* A process that dies closes its sockets.
Die(S) ==
    /\ life' = [p \in Pid |-> IF p \in S THEN "dead" ELSE life[p]]
    /\ holders' = [n \in Port |-> holders[n] \ S]

\* stop(): the group of a listener that leads one, else the process.
targets(row) == {p \in Alive : IF row.group THEN Leader[p] = row.pid ELSE p = row.pid}

\* Whom stop() signals for a row: its group, or the process alone, which of a
\* session is the Porthmeus run.
sent_to(row) == IF row.group THEN "group" ELSE IF row.session THEN "session" ELSE "process"

\* `y`: the row of the pid asked about is looked up again and signalled.
Confirm ==
    /\ pc = "keys"
    /\ pending # NoPending
    /\ \E i \in 1..Len(rows) :
         /\ rows[i].pid = pending.pid
         /\ IF pending.kind = "kill"
              THEN /\ killed' = killed \cup targets(rows[i])
                   /\ Die(targets(rows[i]))
                   /\ UNCHANGED <<termed, asked>>
              ELSE /\ termed' = termed \cup targets(rows[i]) \cup {pending.pid}
                   /\ asked' = asked \cup {<<pending.pid, sent_to(rows[i])>>}
                   /\ UNCHANGED <<life, holders, killed>>
    /\ stopped' = stopped \cup {pending.pid}
    /\ pending' = NoPending
    /\ force_scan' = TRUE
    /\ UNCHANGED <<opened, served, pc, scan, table, signature, fresh>>

\* `r`
Refresh ==
    /\ pc = "keys"
    /\ pending = NoPending
    /\ force_scan' = TRUE
    /\ UNCHANGED <<world, pc, scan, table, stops, signature, fresh>>

\* `q`, Escape, end of input or a signal.
Quit ==
    /\ pc = "keys"
    /\ pc' = "quit"
    /\ UNCHANGED <<world, scan, table, stops, cache>>

-----------------------------------------------------------------------------
(* The world                                                                *)

\* A process starts, into a group that exists, perhaps with sockets of its parent.  Porthmeus passes none
\* on, and starts nothing once it was asked to stop.
Starts(p) ==
    /\ life[p] = "unborn"
    /\ Leader[p] # p => life[Leader[p]] # "unborn"
    /\ Parent[p] # 0 => Parent[p] \in Alive \ (Session \cap termed)
    /\ life' = [life EXCEPT ![p] = "alive"]
    /\ \E S \in SUBSET {n \in Port : Parent[p] \in holders[n] \ Session} :
         holders' = [n \in Port |-> IF n \in S THEN holders[n] \cup {p} ELSE holders[n]]
    /\ UNCHANGED <<opened, served, termed, asked, killed, pc, scan, table, stops, cache>>

\* A Porthmeus run that was not asked to stop, with its command listening.
Discovered(p) ==
    /\ p \notin termed
    /\ \E q \in descendants(Alive, p), n \in Port : q \in holders[n]

\* A process listens; a Porthmeus run binds its bridge only now.
Listens(p) ==
    /\ p \in Alive
    /\ p \in Session => Discovered(p)
    /\ PortOf[p] \notin opened
    /\ holders' = [holders EXCEPT ![PortOf[p]] = {p}]
    /\ opened' = opened \cup {PortOf[p]}
    /\ UNCHANGED <<life, served, termed, asked, killed, pc, scan, table, stops, cache>>

\* A Porthmeus run whose bridge listens publishes its route.
Publishes(p) ==
    /\ p \in (Session \cap Alive) \ termed
    /\ PortOf[p] \notin served
    /\ p \in holders[PortOf[p]]
    /\ served' = served \cup {PortOf[p]}
    /\ UNCHANGED <<life, holders, opened, termed, asked, killed, pc, scan, table, stops, cache>>

Exits(p) ==
    /\ p \in Alive \ Session
    /\ Die({p})
    /\ UNCHANGED <<opened, served, termed, asked, killed, pc, scan, table, stops, cache>>

\* A Porthmeus run ends by itself only when its command is gone, and then takes
\* its route away.
SessionExits(p) ==
    /\ p \in Alive \cap Session
    /\ descendants(Alive, p) = {}
    /\ Die({p})
    /\ served' = served \ {PortOf[p]}
    /\ UNCHANGED <<opened, termed, asked, killed, pc, scan, table, stops, cache>>

\* tailscaled drops the route of a run that was killed.
RouteGoes(p) ==
    /\ p \in Session \ Alive
    /\ PortOf[p] \in served
    /\ served' = served \ {PortOf[p]}
    /\ UNCHANGED <<life, holders, opened, termed, asked, killed, pc, scan, table, stops, cache>>

-----------------------------------------------------------------------------

RefreshStep == ReadSignature \/ ReadListeners \/ ReadProcesses \/ ReadProcessesFirst \/ LoadRoutes

Keys ==
    \/ \E key \in {"Up", "Down", "Home", "End"} : Move(key)
    \/ AskStop \/ Cancel \/ Confirm \/ Refresh \/ Quit

\* What happens after the dashboard is gone is not followed.
World ==
    pc # "quit" /\ \E p \in Pid :
        \/ Starts(p) \/ Listens(p) \/ Publishes(p)
        \/ Exits(p) \/ SessionExits(p) \/ RouteGoes(p)

Next == RefreshStep \/ ScanFails \/ LoadRoutesFails \/ Age \/ Keys \/ World

Spec == Init /\ [][Next]_vars

\* The timers of interact() fire; a scan does not fail for ever.
Fairness ==
    /\ WF_vars(RefreshStep)
    /\ WF_vars(Age)
    /\ SF_vars(ReadListeners)
    /\ SF_vars(LoadRoutes)

FairSpec == Spec /\ Fairness

-----------------------------------------------------------------------------
(* Properties                                                               *)

\* The process named in the question has a row for as long as it is asked about.
QuestionHasRow == pending # NoPending /\ pc # "quit" => pending.pid \in RowPids

\* A process is listed once, as a session, as a server or under a session, whatever
\* sockets and routes it has: a stop looks its row up by the pid, and what it
\* signals depends on the kind of row it finds.
OneRowPerProcess ==
    \A i, j \in 1..Len(rows) : rows[i].pid = rows[j].pid => i = j

\* Of the /proc scan, which names one owner of a socket (the lsof scan of macOS
\* lists every holder): a port is listed once.  What a session shows of the processes
\* below it is not shown again under another session or as a server of its own.
PortListedOnce ==
    \A i, j \in 1..Len(rows) : rows[i].endpoints \cap rows[j].endpoints # {} => i = j

\* However rows and groups change between two stops, SIGKILL reaches only a process
\* that was sent SIGTERM, a member of a group that was, or a member of the group of
\* a Porthmeus run that was asked to stop as a session, which OnlyAskedKilled is about.
KillFollowsStop ==
    \A p \in killed :
        p \in termed \/ \E whom \in {"group", "session"} : <<Leader[p], whom>> \in asked

\* "press `x` then `y` to stop it; `x` again offers a force-kill" (README.md:30-31):
\* what the force-kill reaches was sent SIGTERM, itself or as a group.
OnlyAskedKilled ==
    \A p \in killed : p \in termed \/ <<Leader[p], "group">> \in asked

\* A refresh never moves the cursor to another process while the one under it
\* is still listed: the next `x` asks about what the user was looking at.
CursorStays ==
    [][\A p \in RowPids :
         rows' # rows /\ p = SelectedPid /\ p \in {rows'[i].pid : i \in 1..Len(rows')}
            => SelectedPid' = p]_vars

\* Whatever happened while it was being read, the table is of the listeners that
\* are there once processes stop coming and going.
ListSettles == <>[](pc = "quit" \/ routes_key = Listeners)

\* "A Porthmeus session escalates to SIGKILL for its own children and removes its
\* Serve route; killing it outright would orphan both" (dashboard.rs:312-314): a
\* run whose route is published is never sent SIGKILL.
SessionNotKilled ==
    [][\A p \in Session : PortOf[p] \in served => p \notin killed' \ killed]_vars
=============================================================================
