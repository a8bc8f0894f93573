----------------------------- MODULE Discovery -----------------------------
(***************************************************************************)
(* How a run finds its dev server: discover (src/src/runner.rs) polls       *)
(* discover_target (src/src/discovery.rs), which reads the process table,   *)
(* then the listening sockets, then asks one listener after the other for   *)
(* its status, while the processes of the command fork, detach, exit, open   *)
(* and close sockets and change their answers.  Runner has the signals that *)
(* end discover and its waiting; here is what its discover_scan decides.     *)
(*                                                                         *)
(* Each of the two tables is read in one step.  An address stands for one   *)
(* loopback or wildcard socket in LISTEN; sockets bound elsewhere are        *)
(* skipped by the scan and left out.                                        *)
(***************************************************************************)
EXTENDS Integers, FiniteSets, FiniteSetsExt

CONSTANTS
    Proc,       \* pids, given to processes in any order: they wrap
    Root,       \* the command's own pid, leader of its group
    Address,    \* where a process may listen
    CHANGES     \* bound: changes of the world

ASSUME DiscoveryAssumption ==
    /\ Proc \subseteq Nat \ {0} /\ IsFiniteSet(Proc)
    /\ Root \in Proc
    /\ Address \subseteq Nat /\ IsFiniteSet(Address)
    /\ CHANGES \in Nat

VARIABLES
    linux,      \* proc_scan is compiled in, not fallback_scan
    alive,      \* processes that run
    parent,     \* ppid, 0 for a process of init
    group,      \* members of the command's process group
    holds,      \* sockets each process has open
    answer,     \* what a listener answers to GET /
    changes,    \* of the world so far
    late,       \* the deadline has passed
    pc,         \* where discover is
    owned,      \* the poll's process set
    ppid,       \* and its parents
    holder,     \* the process found to hold each listening address, 0 if none
    queue,      \* addresses still to probe
    ready,      \* probed: they answered 2xx or 3xx
    unready,    \* probed: they answered anything else
    outcome,    \* how discover ended
    chosen,     \* the target, if it was found
    steady      \* history: addresses that were left alone since the poll began

world == <<linux, alive, parent, group, holds, answer, changes>>
poll == <<owned, ppid, holder, queue, ready, unready>>
result == <<outcome, chosen>>
vars == <<world, late, pc, poll, result, steady>>

\* The sets of a poll stay apart and within what the scan found.
TypeOK ==
    /\ linux \in BOOLEAN
    /\ alive \subseteq Proc
    /\ parent \in [Proc -> Proc \cup {0}]
    /\ group \subseteq Proc
    /\ holds \in [Proc -> SUBSET Address]
    /\ answer \in [Address -> {"silent", "other", "ready"}]
    /\ changes \in 0..CHANGES
    /\ late \in BOOLEAN
    /\ pc \in {"table", "sockets", "probe", "done"}
    /\ owned \subseteq Proc
    /\ ppid \in [Proc -> Proc \cup {0}]
    /\ holder \in [Address -> owned \cup {0}]
    /\ queue \subseteq {a \in Address : holder[a] # 0}
    /\ ready \subseteq {a \in Address : holder[a] # 0} \ queue
    /\ unready \subseteq {a \in Address : holder[a] # 0} \ (queue \cup ready)
    /\ outcome \in {"none", "found", "ambiguous", "timeout", "failed", "exited"}
    /\ chosen \in Address \cup {-1}
    /\ chosen = -1 <=> outcome # "found"
    /\ pc = "done" <=> outcome # "none"
    /\ steady \subseteq Address

\* The command was just spawned, in a group of its own.
Init ==
    /\ linux \in BOOLEAN
    /\ alive = {Root}
    /\ parent = [p \in Proc |-> 0]
    /\ group = {Root}
    /\ holds = [p \in Proc |-> {}]
    /\ answer = [a \in Address |-> "silent"]
    /\ changes = 0
    /\ late = FALSE
    /\ pc = "table"
    /\ owned = {}
    /\ ppid = [p \in Proc |-> 0]
    /\ holder = [a \in Address |-> 0]
    /\ queue = {}
    /\ ready = {}
    /\ unready = {}
    /\ outcome = "none"
    /\ chosen = -1
    /\ steady = {}

-----------------------------------------------------------------------------
(* The processes of the command                                             *)

\* The command that has exited is a zombie until discover asks for its exit code.
Table == alive \cup {Root}

\* The least set with the group that has every child of its members.
Descendants ==
    {p \in Table : \A S \in SUBSET Table :
        group \subseteq S /\ (\A q \in Table : parent[q] \in S => q \in S) => p \in S}

\* What is in the tree of the command now, defined by its shape and not by a walk.
Tree == IF linux THEN Descendants ELSE group \cap Table

Above(p) ==
    LET tree == Tree
    IN  {q \in tree \ {p} : \A S \in SUBSET tree :
            p \in S /\ (\A r \in S : parent[r] \in tree => parent[r] \in S) => q \in S}

Server(a) == \E p \in Tree : a \in holds[p]

ServerOf(a) == Min({p \in Tree : a \in holds[p]})

Level(a) == Cardinality(Above(ServerOf(a)))

Listening(a) == \E p \in alive : a \in holds[p]

Changes ==
    /\ pc # "done"
    /\ changes < CHANGES
    /\ changes' = changes + 1
    /\ UNCHANGED <<linux, late, pc, poll, result>>

\* Its server, if it has one, is the one it had, and as far from the command.
KeepsItsPlace(a) ==
    /\ Server(a)' <=> Server(a)
    /\ Server(a) => ServerOf(a)' = ServerOf(a) /\ Level(a)' = Level(a)

\* Whoever came and went, the same processes hold a, its answer is the same, and its
\* server is where it was.
LeftAlone(a) ==
    /\ \A p \in Proc : a \in holds'[p] <=> a \in holds[p]
    /\ answer'[a] = answer[a]
    /\ UNCHANGED <<linux, alive, parent, group>> \/ KeepsItsPlace(a)

Remembers == steady' = {a \in steady : LeftAlone(a)}

\* A socket that is open in no process answers nothing.
SocketsGo ==
    answer' = [a \in Address |-> IF \E p \in Proc : a \in holds'[p] THEN answer[a] ELSE "silent"]

\* A child inherits the sockets, unless it is another program.
Fork(p, q) ==
    /\ Changes
    /\ p \in alive /\ q \notin alive \cup {Root}
    /\ alive' = alive \cup {q}
    /\ parent' = [parent EXCEPT ![q] = p]
    /\ group' = IF p \in group THEN group \cup {q} ELSE group
    /\ \E inherited \in {holds[p], {}} : holds' = [holds EXCEPT ![q] = inherited]
    /\ UNCHANGED answer
    /\ Remembers

\* setsid
Detach(p) ==
    /\ Changes
    /\ p \in (alive \cap group) \ {Root}
    /\ group' = group \ {p}
    /\ UNCHANGED <<alive, parent, holds, answer>>
    /\ Remembers

\* Its children become init's.
Exit(p) ==
    /\ Changes
    /\ p \in alive
    /\ alive' = alive \ {p}
    /\ parent' = [q \in Proc |-> IF q = p \/ parent[q] = p THEN 0 ELSE parent[q]]
    /\ group' = IF p = Root THEN group ELSE group \ {p}
    /\ holds' = [holds EXCEPT ![p] = {}]
    /\ SocketsGo
    /\ Remembers

Listen(p, a) ==
    /\ Changes
    /\ p \in alive
    /\ ~Listening(a)
    /\ holds' = [holds EXCEPT ![p] = @ \cup {a}]
    /\ \E what \in {"silent", "other", "ready"} : answer' = [answer EXCEPT ![a] = what]
    /\ UNCHANGED <<alive, parent, group>>
    /\ Remembers

Close(p, a) ==
    /\ Changes
    /\ p \in alive /\ a \in holds[p]
    /\ holds' = [holds EXCEPT ![p] = @ \ {a}]
    /\ SocketsGo
    /\ UNCHANGED <<alive, parent, group>>
    /\ Remembers

\* A server starts to answer, or answers something else.
AnswerChanges(a) ==
    /\ Changes
    /\ Listening(a)
    /\ \E what \in {"silent", "other", "ready"} \ {answer[a]} :
          answer' = [answer EXCEPT ![a] = what]
    /\ UNCHANGED <<alive, parent, group, holds>>
    /\ Remembers

\* self.deadline
DeadlinePasses ==
    /\ pc # "done"
    /\ ~late
    /\ late' = TRUE
    /\ UNCHANGED <<world, pc, poll, result, steady>>

-----------------------------------------------------------------------------
(* discover and discover_target                                             *)

\* Slip: only the group is owned, on every platform.
owned_group == group \cap Table

\* fallback_scan takes the group only.
owned_processes == IF linux THEN Descendants ELSE group \cap Table

End(how, target) ==
    /\ outcome' = how
    /\ chosen' = target
    /\ pc' = "done"
    /\ UNCHANGED <<world, late, poll, steady>>

\* child_exit_code
ChildExited ==
    /\ pc = "table"
    /\ Root \notin alive
    /\ End("exited", -1)

\* A new poll.  Where ps fails, it finds no process and is pending.
ReadTable ==
    /\ pc = "table"
    /\ Root \in alive
    /\ \/ owned' = owned_processes
       \/ ~linux /\ owned' = {}
    /\ ppid' = [p \in Proc |-> IF p \in owned' THEN parent[p] ELSE 0]
    /\ steady' = Address
    /\ pc' = IF owned' = {} THEN "probe" ELSE "sockets"
    /\ UNCHANGED <<world, late, holder, queue, ready, unready, result>>

\* The socket queries fail: discover does, too.
SocketsFail ==
    /\ pc = "sockets"
    /\ End("failed", -1)

Holders(a) == {p \in owned : a \in holds[p]}

\* The pids are read in ascending order and the first one found with a socket is kept.
first_holder(a) == IF Holders(a) = {} THEN 0 ELSE Min(Holders(a))

loopback_listeners == [a \in Address |-> first_holder(a)]

\* The walk of depth from p: its k-th owned ancestor, or the topmost one.
Walk(p) ==
    LET up[k \in 0..Cardinality(owned)] ==
            IF k = 0 THEN p ELSE IF ppid[up[k - 1]] \in owned THEN ppid[up[k - 1]] ELSE up[k - 1]
    IN  up

depth(p) == Cardinality({k \in 1..Cardinality(owned) : Walk(p)[k] # Walk(p)[k - 1]})

\* Slip: every listener of the tree is probed.
shallowest_all(found) == {a \in Address : found[a] # 0}

shallowest(found) ==
    LET listening == {a \in Address : found[a] # 0}
    IN  {a \in listening : \A b \in listening : depth(found[a]) <= depth(found[b])}

ReadSockets ==
    /\ pc = "sockets"
    /\ holder' = loopback_listeners
    /\ queue' = shallowest(holder')
    /\ pc' = "probe"
    /\ UNCHANGED <<world, late, owned, ppid, ready, unready, result, steady>>

\* probe: no connection or no byte within PROBE_TIMEOUT is no answer.
Probe(a) ==
    /\ pc = "probe"
    /\ a \in queue /\ \A b \in queue : a <= b
    /\ queue' = queue \ {a}
    /\ ready' = IF Listening(a) /\ answer[a] = "ready" THEN ready \cup {a} ELSE ready
    /\ unready' = IF Listening(a) /\ answer[a] = "other" THEN unready \cup {a} ELSE unready
    /\ UNCHANGED <<world, late, pc, owned, ppid, holder, result, steady>>

\* Slip: the poll stops at the first ready listener.
ProbedSome == pc = "probe" /\ (queue = {} \/ ready # {})

Probed == pc = "probe" /\ queue = {}

Found ==
    /\ Probed
    /\ \E a \in ready : ready = {a} /\ End("found", a)

Ambiguous ==
    /\ Probed
    /\ Cardinality(ready) > 1
    /\ End("ambiguous", -1)

\* At the deadline a sole listener is taken whatever it answered.
Settles ==
    /\ Probed
    /\ ready = {}
    /\ late
    /\ \E a \in unready : unready = {a} /\ End("found", a)

\* None of the listeners, or several of them, when the deadline has passed.
TimesOut ==
    /\ Probed
    /\ ready = {}
    /\ late
    /\ Cardinality(unready) # 1
    /\ End(IF unready = {} THEN "timeout" ELSE "ambiguous", -1)

\* Discovery::Pending: the next poll comes after POLL_INTERVAL, and knows nothing of this one.
Pending ==
    /\ Probed
    /\ ready = {}
    /\ ~late
    /\ pc' = "table"
    /\ owned' = {}
    /\ ppid' = [p \in Proc |-> 0]
    /\ holder' = [a \in Address |-> 0]
    /\ queue' = {} /\ ready' = {} /\ unready' = {}
    /\ steady' = {}
    /\ UNCHANGED <<world, late, result>>

Discover ==
    \/ ChildExited
    \/ ReadTable
    \/ SocketsFail
    \/ ReadSockets
    \/ \E a \in Address : Probe(a)
    \/ Found
    \/ Ambiguous
    \/ Settles
    \/ TimesOut
    \/ Pending

WorldChanges ==
    \/ \E p, q \in Proc : Fork(p, q)
    \/ \E p \in Proc : Detach(p)
    \/ \E p \in Proc : Exit(p)
    \/ \E p \in Proc : \E a \in Address : Listen(p, a) \/ Close(p, a)
    \/ \E a \in Address : AnswerChanges(a)

Next == Discover \/ DeadlinePasses \/ WorldChanges

Spec == Init /\ [][Next]_vars

-----------------------------------------------------------------------------
(* Properties                                                               *)

\* The servers nothing of the tree listens above.
Top == {a \in Address : Server(a) /\ \A b \in Address : Server(b) => Level(a) <= Level(b)}

TopAnswering(what) == {a \in Top : answer[a] = what}

\* In a poll during which no listener is touched, discover ends with a target exactly if
\* one listener at the top is ready, or, after the deadline, answers alone; it
\* rejects several ready ones, and keeps polling while there are none.
QuietPollIsRight ==
    [][ steady = Address /\ owned # {} /\ Probed /\ pc' # "probe" =>
          outcome' = CASE Cardinality(TopAnswering("ready")) = 1 -> "found"
                       [] Cardinality(TopAnswering("ready")) > 1 -> "ambiguous"
                       [] TopAnswering("ready") = {} /\ ~late -> "none"
                       [] OTHER ->
                            CASE Cardinality(TopAnswering("other")) = 1 -> "found"
                              [] Cardinality(TopAnswering("other")) > 1 -> "ambiguous"
                              [] OTHER -> "timeout" ]_vars

\* Whatever else changes between the reads of a poll, the target is never one of
\* two: no other listener, as near to the command, answered as well all the time.
NoRivalMissed ==
    outcome = "found" =>
        \A b \in steady \ {chosen} :
            Server(b) /\ Level(b) <= depth(holder[chosen]) =>
                answer[b] \notin (IF chosen \in ready THEN {"ready"} ELSE {"ready", "other"})

\* A server that is there throughout a poll keeps its helpers from being asked,
\* whatever they do meanwhile: an address that is sent a request was found at a process
\* that is no further from the command than that server is now.  (A helper that takes
\* over the address of another server after it was found is asked in its place.)
HelpersAreLeftAlone ==
    [][ \A a \in queue \ queue' : \A b \in steady :
          Server(b) => depth(holder[a]) <= Level(b) ]_vars
=============================================================================
