--------------------------- MODULE DiscoveryProofs ---------------------------
(***************************************************************************)
(* What a poll of discover keeps, whatever the processes of the command do   *)
(* between its reads and however many there are.                            *)
(*                                                                         *)
(* The target is one of the shallowest listeners the poll found.  That is    *)
(* said of the moment of the decision; FreshPoll makes it inductive: a poll   *)
(* starts with nothing left of the one before, so that what was probed was   *)
(* found in the tables of the same poll.                                     *)
(***************************************************************************)
EXTENDS Discovery, FiniteOrders

FreshPoll ==
    pc \in {"table", "sockets"} =>
        /\ \A a \in Address : holder[a] = 0
        /\ queue = {} /\ ready = {} /\ unready = {}

OnlyShallowest == queue \cup ready \cup unready \subseteq shallowest(holder)

Decided ==
    outcome = "found" =>
        \/ ready = {chosen}
        \/ ready = {} /\ unready = {chosen} /\ late

DiscoveryInv == TypeOK /\ FreshPoll /\ OnlyShallowest /\ Decided

\* The target answered the probe, as one of the listeners nearest to the command, and
\* with a 2xx or 3xx unless the deadline had passed.
TargetIsShallowest ==
    outcome = "found" =>
        /\ chosen \in shallowest(holder)
        /\ holder[chosen] \in owned
        /\ chosen \in ready \/ (chosen \in unready /\ late)

-----------------------------------------------------------------------------

\* The socket table names owned processes only.
LEMMA HoldersOwned ==
  ASSUME TypeOK
  PROVE  loopback_listeners \in [Address -> owned \cup {0}]
<1>1. ASSUME NEW a \in Address, Holders(a) # {} PROVE Min(Holders(a)) \in owned
  <2>1. Holders(a) \subseteq owned /\ owned \subseteq Proc
    BY DEF Holders, TypeOK
  <2>2. IsFiniteSet(Holders(a)) /\ Holders(a) \subseteq Nat
    BY <2>1, FS_Subset, DiscoveryAssumption
  <2> QED
    BY <1>1, <2>1, <2>2, MinIsLeast
<1> QED
  BY <1>1 DEF loopback_listeners, first_holder

LEMMA ShallowestFound ==
  ASSUME NEW found
  PROVE  shallowest(found) \subseteq {a \in Address : found[a] # 0}
  BY DEF shallowest

\* Which listeners are the shallowest depends on nothing but the tables of the poll.
LEMMA SamePoll ==
  ASSUME UNCHANGED <<owned, ppid, holder>>
  PROVE  shallowest(holder)' = shallowest(holder)
<1>1. owned' = owned /\ ppid' = ppid /\ holder' = holder
  OBVIOUS
<1> QED
  BY <1>1 DEF shallowest, depth, Walk

LEMMA InitDiscovery == Init => DiscoveryInv
<1> SUFFICES ASSUME Init PROVE DiscoveryInv
  OBVIOUS
<1>1. TypeOK
  <2>1. /\ alive \subseteq Proc /\ group \subseteq Proc /\ owned \subseteq Proc
    BY DiscoveryAssumption DEF Init
  <2>4. changes \in 0..CHANGES
    BY DiscoveryAssumption DEF Init
  <2>2. /\ parent \in [Proc -> Proc \cup {0}] /\ ppid \in [Proc -> Proc \cup {0}]
        /\ holds \in [Proc -> SUBSET Address]
    BY DEF Init
  <2>3. /\ answer \in [Address -> {"silent", "other", "ready"}]
        /\ holder \in [Address -> owned \cup {0}]
    BY DEF Init
  <2> QED
    BY <2>1, <2>2, <2>3, <2>4 DEF Init, TypeOK
<1>2. FreshPoll /\ OnlyShallowest /\ Decided
  BY DEF Init, FreshPoll, OnlyShallowest, Decided
<1> QED
  BY <1>1, <1>2 DEF DiscoveryInv

\* What the rest of the world does leaves the poll alone.
LEMMA PollKept ==
  ASSUME DiscoveryInv, TypeOK', UNCHANGED <<pc, poll, result>>, late => late'
  PROVE  DiscoveryInv'
<1>1. shallowest(holder)' = shallowest(holder)
  BY SamePoll DEF poll
<1> QED
  BY <1>1 DEF DiscoveryInv, FreshPoll, OnlyShallowest, Decided, poll, result

\* The types of the processes; of the poll nothing changes.
LEMMA WorldTypes ==
  ASSUME TypeOK, UNCHANGED <<linux, late, pc, poll, result>>,
         alive' \subseteq Proc,
         parent' \in [Proc -> Proc \cup {0}],
         group' \subseteq Proc,
         holds' \in [Proc -> SUBSET Address],
         answer' \in [Address -> {"silent", "other", "ready"}],
         changes' \in 0..CHANGES,
         steady' \subseteq Address
  PROVE  TypeOK'
  BY DEF TypeOK, poll, result

LEMMA OneMoreChange ==
  ASSUME TypeOK, Changes
  PROVE  changes' \in 0..CHANGES
  BY DiscoveryAssumption DEF TypeOK, Changes

\* A change of the world makes nothing steady.
LEMMA LessSteady ==
  ASSUME WorldChanges
  PROVE  steady' \subseteq steady
  BY DEF WorldChanges, Fork, Detach, Exit, Listen, Close, AnswerChanges, Remembers

LEMMA WorldKeeps ==
  ASSUME DiscoveryInv, WorldChanges
  PROVE  DiscoveryInv'
<1> USE DEF DiscoveryInv
<1>1. Changes
  BY DEF WorldChanges, Fork, Detach, Exit, Listen, Close, AnswerChanges
<1>2. changes' \in 0..CHANGES /\ UNCHANGED <<linux, late, pc, poll, result>>
  BY <1>1, OneMoreChange DEF Changes
<1>4. steady' \subseteq Address
  BY LessSteady DEF TypeOK
<1>3. TypeOK'
  <2>1. ASSUME NEW p \in Proc, NEW q \in Proc, Fork(p, q) PROVE TypeOK'
    <3>1. /\ alive' \subseteq Proc /\ parent' \in [Proc -> Proc \cup {0}]
          /\ group' \subseteq Proc /\ UNCHANGED answer
      BY <2>1 DEF Fork, TypeOK
    <3>2. holds' \in [Proc -> SUBSET Address]
      BY <2>1 DEF Fork, TypeOK
    <3> QED
      BY <1>2, <1>4, <3>1, <3>2, WorldTypes DEF TypeOK
  <2>2. ASSUME NEW p \in Proc, Detach(p) PROVE TypeOK'
    BY <1>2, <1>4, <2>2, WorldTypes DEF Detach, TypeOK
  <2>3. ASSUME NEW p \in Proc, Exit(p) PROVE TypeOK'
    <3>1. /\ alive' \subseteq Proc /\ parent' \in [Proc -> Proc \cup {0}]
          /\ group' \subseteq Proc
      BY <2>3 DEF Exit, TypeOK
    <3>2. holds' \in [Proc -> SUBSET Address]
      BY <2>3 DEF Exit, TypeOK
    <3>3. answer' \in [Address -> {"silent", "other", "ready"}]
      BY <2>3 DEF Exit, SocketsGo, TypeOK
    <3> QED
      BY <1>2, <1>4, <3>1, <3>2, <3>3, WorldTypes
  <2>4. ASSUME NEW p \in Proc, NEW a \in Address, Listen(p, a) PROVE TypeOK'
    <3>1. UNCHANGED <<alive, parent, group>>
      BY <2>4 DEF Listen, TypeOK
    <3>2. holds' \in [Proc -> SUBSET Address]
      BY <2>4 DEF Listen, TypeOK
    <3>3. answer' \in [Address -> {"silent", "other", "ready"}]
      BY <2>4 DEF Listen, TypeOK
    <3> QED
      BY <1>2, <1>4, <3>1, <3>2, <3>3, WorldTypes DEF TypeOK
  <2>5. ASSUME NEW p \in Proc, NEW a \in Address, Close(p, a) PROVE TypeOK'
    <3>1. UNCHANGED <<alive, parent, group>>
      BY <2>5 DEF Close, TypeOK
    <3>2. holds' \in [Proc -> SUBSET Address]
      BY <2>5 DEF Close, TypeOK
    <3>3. answer' \in [Address -> {"silent", "other", "ready"}]
      BY <2>5 DEF Close, SocketsGo, TypeOK
    <3> QED
      BY <1>2, <1>4, <3>1, <3>2, <3>3, WorldTypes DEF TypeOK
  <2>6. ASSUME NEW a \in Address, AnswerChanges(a) PROVE TypeOK'
    <3>1. UNCHANGED <<alive, parent, group, holds>>
      BY <2>6 DEF AnswerChanges, TypeOK
    <3>2. answer' \in [Address -> {"silent", "other", "ready"}]
      BY <2>6 DEF AnswerChanges, TypeOK
    <3> QED
      BY <1>2, <1>4, <3>1, <3>2, WorldTypes DEF TypeOK
  <2> QED
    BY <2>1, <2>2, <2>3, <2>4, <2>5, <2>6 DEF WorldChanges
<1> QED
  BY <1>2, <1>3, PollKept

\* The types of a poll; of the processes nothing changes.
LEMMA PollTypes ==
  ASSUME TypeOK, UNCHANGED <<world, late>>,
         pc' \in {"table", "sockets", "probe", "done"},
         owned' \subseteq Proc,
         ppid' \in [Proc -> Proc \cup {0}],
         holder' \in [Address -> owned' \cup {0}],
         queue' \subseteq {a \in Address : holder'[a] # 0},
         ready' \subseteq {a \in Address : holder'[a] # 0} \ queue',
         unready' \subseteq {a \in Address : holder'[a] # 0} \ (queue' \cup ready'),
         outcome' \in {"none", "found", "ambiguous", "timeout", "failed", "exited"},
         chosen' \in Address \cup {-1},
         chosen' = -1 <=> outcome' # "found",
         pc' = "done" <=> outcome' # "none",
         steady' \subseteq Address
  PROVE  TypeOK'
  BY DEF TypeOK, world

\* An end of discover: the poll stays as it was when it was decided.
LEMMA EndKeeps ==
  ASSUME DiscoveryInv, NEW how, NEW target, End(how, target),
         \/ how \in {"ambiguous", "timeout", "failed", "exited"} /\ target = -1
         \/ /\ how = "found" /\ target \in Address
            /\ ready = {target} \/ (ready = {} /\ unready = {target} /\ late)
  PROVE  DiscoveryInv'
<1>1. UNCHANGED <<world, late, poll, steady>> /\ pc' = "done" /\ outcome' = how /\ chosen' = target
  BY DEF End
<1>2. -1 \notin Address
  BY DiscoveryAssumption
<1>3. TypeOK'
  BY <1>1, <1>2 DEF DiscoveryInv, TypeOK, world, poll
<1>4. shallowest(holder)' = shallowest(holder)
  BY <1>1, SamePoll DEF poll
<1>5. FreshPoll' /\ OnlyShallowest' /\ Decided'
  BY <1>1, <1>4 DEF DiscoveryInv, FreshPoll, OnlyShallowest, Decided, poll
<1> QED
  BY <1>3, <1>5 DEF DiscoveryInv

LEMMA DiscoverKeeps ==
  ASSUME DiscoveryInv, Discover
  PROVE  DiscoveryInv'
<1>1. CASE ChildExited \/ SocketsFail
  BY <1>1, EndKeeps DEF ChildExited, SocketsFail
<1>2. CASE Ambiguous
  BY <1>2, EndKeeps DEF Ambiguous
<1>3. CASE Found
  BY <1>3, EndKeeps DEF Found, DiscoveryInv, TypeOK
<1>4. CASE Settles
  BY <1>4, EndKeeps DEF Settles, DiscoveryInv, TypeOK
<1>5. CASE TimesOut
  BY <1>5, EndKeeps DEF TimesOut
<1>6. CASE ReadTable
  <2>1. owned' \subseteq Proc
    BY <1>6 DEF ReadTable, owned_processes, Descendants, Table, DiscoveryInv, TypeOK,
                DiscoveryAssumption
  <2>2. /\ \A a \in Address : holder[a] = 0
        /\ queue = {} /\ ready = {} /\ unready = {}
        /\ UNCHANGED <<world, late, holder, queue, ready, unready, result>>
    BY <1>6 DEF ReadTable, DiscoveryInv, FreshPoll
  <2>3. ppid' \in [Proc -> Proc \cup {0}]
    BY <1>6 DEF ReadTable, DiscoveryInv, TypeOK
  <2>4. holder' \in [Address -> owned' \cup {0}]
    BY <2>2 DEF DiscoveryInv, TypeOK
  <2>5. pc = "table" /\ pc' \in {"probe", "sockets"} /\ steady' = Address
    BY <1>6 DEF ReadTable
  <2>6. TypeOK'
    BY <2>1, <2>2, <2>3, <2>4, <2>5, PollTypes DEF DiscoveryInv, TypeOK, result
  <2>7. FreshPoll' /\ OnlyShallowest' /\ Decided'
    BY <2>2, <2>5 DEF FreshPoll, OnlyShallowest, Decided, DiscoveryInv, TypeOK, result
  <2> QED
    BY <2>6, <2>7 DEF DiscoveryInv
<1>7. CASE ReadSockets
  <2>1. /\ UNCHANGED <<world, late, owned, ppid, ready, unready, result, steady>>
        /\ holder' = loopback_listeners /\ queue' = shallowest(holder')
        /\ pc = "sockets" /\ pc' = "probe" /\ ready = {} /\ unready = {}
    BY <1>7 DEF ReadSockets, DiscoveryInv, FreshPoll
  <2>2. holder' \in [Address -> owned' \cup {0}]
    BY <2>1, HoldersOwned DEF DiscoveryInv
  <2>3. queue' \subseteq {a \in Address : holder'[a] # 0}
    BY <2>1, ShallowestFound
  <2>4. TypeOK'
    BY <2>1, <2>2, <2>3, PollTypes DEF DiscoveryInv, TypeOK, result
  <2>5. shallowest(holder)' = shallowest(holder')
    BY <2>1 DEF shallowest, depth, Walk
  <2>6. FreshPoll' /\ OnlyShallowest' /\ Decided'
    BY <2>1, <2>5 DEF FreshPoll, OnlyShallowest, Decided, DiscoveryInv, TypeOK, result
  <2> QED
    BY <2>4, <2>6 DEF DiscoveryInv
<1>8. ASSUME NEW a \in Address, Probe(a) PROVE DiscoveryInv'
  <2>1. /\ UNCHANGED <<world, late, pc, owned, ppid, holder, result, steady>>
        /\ pc = "probe" /\ a \in queue /\ queue' = queue \ {a}
        /\ ready' \in {ready, ready \cup {a}} /\ unready' \in {unready, unready \cup {a}}
        /\ ready' = ready \/ unready' = unready
    BY <1>8 DEF Probe
  <2>2. /\ holder' = holder /\ owned' = owned
        /\ queue' \subseteq {b \in Address : holder[b] # 0}
        /\ ready' \subseteq {b \in Address : holder[b] # 0} \ queue'
        /\ unready' \subseteq {b \in Address : holder[b] # 0} \ (queue' \cup ready')
    BY <2>1 DEF DiscoveryInv, TypeOK
  <2>3. TypeOK'
    BY <2>1, <2>2, PollTypes DEF DiscoveryInv, TypeOK, result
  <2>4. shallowest(holder)' = shallowest(holder)
    BY <2>1, SamePoll
  <2>5. FreshPoll' /\ OnlyShallowest' /\ Decided'
    BY <2>1, <2>4 DEF FreshPoll, OnlyShallowest, Decided, DiscoveryInv, TypeOK, result
  <2> QED
    BY <2>3, <2>5 DEF DiscoveryInv
<1>9. CASE Pending
  <2>1. /\ UNCHANGED <<world, late, result>> /\ pc = "probe" /\ pc' = "table"
        /\ owned' = {} /\ ppid' = [p \in Proc |-> 0] /\ holder' = [a \in Address |-> 0]
        /\ queue' = {} /\ ready' = {} /\ unready' = {} /\ steady' = {}
    BY <1>9 DEF Pending, Probed
  <2>2. TypeOK'
    BY <2>1, PollTypes DEF DiscoveryInv, TypeOK, result
  <2>3. FreshPoll' /\ OnlyShallowest' /\ Decided'
    BY <2>1 DEF FreshPoll, OnlyShallowest, Decided, DiscoveryInv, TypeOK, result
  <2> QED
    BY <2>2, <2>3 DEF DiscoveryInv
<1> QED
  BY <1>1, <1>2, <1>3, <1>4, <1>5, <1>6, <1>7, <1>8, <1>9 DEF Discover

\* The inductive invariant itself.
LEMMA DiscoveryInvariant == Spec => []DiscoveryInv
<1>1. ASSUME DiscoveryInv, [Next]_vars PROVE DiscoveryInv'
  <2>1. CASE DeadlinePasses
    <3>1. TypeOK'
      BY <1>1, <2>1 DEF DeadlinePasses, DiscoveryInv, TypeOK, world, poll, result
    <3> QED
      BY <1>1, <2>1, <3>1, PollKept DEF DeadlinePasses
  <2>2. CASE UNCHANGED vars
    <3>1. TypeOK'
      BY <1>1, <2>2 DEF vars, DiscoveryInv, TypeOK, world, poll, result
    <3> QED
      BY <1>1, <2>2, <3>1, PollKept DEF vars
  <2> QED
    BY <1>1, <2>1, <2>2, DiscoverKeeps, WorldKeeps DEF Next
<1> QED
  BY InitDiscovery, <1>1, PTL DEF Spec

\* The sets of a poll stay apart and within what its scan found.
THEOREM DiscoveryTypeCorrect == Spec => []TypeOK
  BY DiscoveryInvariant, PTL DEF DiscoveryInv

\* Whatever the processes do while a poll reads them, its target is one of the
\* shallowest listeners of its tables, and answered.
THEOREM DiscoveryTargetIsShallowest == Spec => []TargetIsShallowest
<1>1. DiscoveryInv => TargetIsShallowest
  BY DEF DiscoveryInv, OnlyShallowest, Decided, TargetIsShallowest, TypeOK
<1> QED
  BY DiscoveryInvariant, <1>1, PTL

-----------------------------------------------------------------------------
(* The tree of a poll                                                       *)

\* A parent runs, so that the parents make no cycle; a process that is over has no
\* sockets and no parent.
Forest ==
    /\ \A q \in Proc : parent[q] # 0 => parent[q] \in alive
    /\ \A q \in Proc \ alive : parent[q] = 0 /\ holds[q] = {}
    /\ \A S \in SUBSET Proc : (\A q \in S : parent[q] \in S) => S = {}

LEMMA ForkKeepsForest ==
  ASSUME TypeOK, Forest, NEW p \in Proc, NEW q \in Proc, Fork(p, q)
  PROVE  Forest'
<1>1. /\ p \in alive /\ q \notin alive /\ alive' = alive \cup {q}
      /\ parent' = [parent EXCEPT ![q] = p]
      /\ \A r \in Proc \ {q} : holds'[r] = holds[r]
  BY DEF Fork, TypeOK
<1>2. \A r \in Proc : parent'[r] = IF r = q THEN p ELSE parent[r]
  BY <1>1 DEF TypeOK
<1>3. ASSUME NEW S \in SUBSET Proc, \A r \in S : parent'[r] \in S PROVE S = {}
  <2>1. \A r \in S \ {q} : parent[r] \in S \ {q}
    <3> SUFFICES ASSUME NEW r \in S \ {q} PROVE parent[r] \in S \ {q}
      OBVIOUS
    <3>1. parent[r] \in S
      BY <1>2, <1>3
    <3>2. parent[r] # 0
      BY <3>1, DiscoveryAssumption
    <3> QED
      BY <1>1, <3>1, <3>2 DEF Forest
  <2>2. S \ {q} = {}
    BY <2>1 DEF Forest
  <2>3. q \notin S
    <3>1. SUFFICES ASSUME q \in S PROVE FALSE
      OBVIOUS
    <3>2. p \in S
      BY <1>2, <1>3, <3>1
    <3> QED
      BY <1>1, <2>2, <3>2
  <2> QED
    BY <2>2, <2>3
<1> QED
  BY <1>1, <1>2, <1>3 DEF Forest

LEMMA ExitKeepsForest ==
  ASSUME TypeOK, Forest, NEW p \in Proc, Exit(p)
  PROVE  Forest'
<1>1. /\ alive' = alive \ {p}
      /\ \A r \in Proc : parent'[r] = IF r = p \/ parent[r] = p THEN 0 ELSE parent[r]
      /\ \A r \in Proc : holds'[r] = IF r = p THEN {} ELSE holds[r]
  BY DEF Exit, TypeOK
<1>2. ASSUME NEW S \in SUBSET Proc, \A r \in S : parent'[r] \in S PROVE S = {}
  <2>1. \A r \in S : parent'[r] # 0
    BY <1>2, DiscoveryAssumption
  <2>2. \A r \in S : parent[r] \in S
    BY <1>1, <1>2, <2>1
  <2> QED
    BY <2>2 DEF Forest
<1> QED
  BY <1>1, <1>2 DEF Forest

\* Sockets come and go in processes that run.
LEMMA SocketsKeepForest ==
  ASSUME Forest, UNCHANGED <<alive, parent>>,
         \A q \in Proc \ alive : holds'[q] = holds[q]
  PROVE  Forest'
  BY DEF Forest

LEMMA WorldKeepsForest ==
  ASSUME TypeOK, Forest, WorldChanges
  PROVE  Forest'
<1>1. ASSUME NEW p \in Proc, Detach(p) PROVE Forest'
  BY <1>1, SocketsKeepForest DEF Detach
<1>2. ASSUME NEW p \in Proc, NEW a \in Address, Listen(p, a) PROVE Forest'
  BY <1>2, SocketsKeepForest DEF Listen, TypeOK
<1>3. ASSUME NEW p \in Proc, NEW a \in Address, Close(p, a) PROVE Forest'
  BY <1>3, SocketsKeepForest DEF Close, TypeOK
<1>4. ASSUME NEW a \in Address, AnswerChanges(a) PROVE Forest'
  BY <1>4, SocketsKeepForest DEF AnswerChanges
<1> QED
  BY <1>1, <1>2, <1>3, <1>4, ForkKeepsForest, ExitKeepsForest DEF WorldChanges

\* What a poll that has read the whole tree knows of it.
WholeTree ==
    /\ owned = Tree
    /\ ppid = [p \in Proc |-> IF p \in owned THEN parent[p] ELSE 0]

\* The walk of `depth` arrives at the top of the tree: it takes one step for each
\* process above.
LEMMA DepthIsLevel ==
  ASSUME TypeOK, Forest, WholeTree, NEW p \in owned
  PROVE  depth(p) = Cardinality(Above(p))
<1> DEFINE N == Cardinality(owned)
<1>1. owned \subseteq Proc /\ IsFiniteSet(owned)
  BY FS_Subset, DiscoveryAssumption DEF TypeOK
<1>2. N \in Nat
  BY <1>1, FS_CardinalityType
<1>3. \E w : IsWalk(w, ppid, owned, N, p)
  <2> HIDE DEF N
  <2> QED
    BY <1>2, WalkExists
<1>4. IsWalk(Walk(p), ppid, owned, N, p)
  BY <1>3 DEF Walk, IsWalk
<1>5. \A q \in owned : ppid[q] = parent[q]
  BY <1>1 DEF WholeTree
<1>6. ASSUME NEW S \in SUBSET owned, \A x \in S : ppid[x] \in S PROVE S = {}
  BY <1>1, <1>5, <1>6 DEF Forest
<1>7. Above(p) =
        {q \in owned \ {p} :
            \A S \in SUBSET owned :
               p \in S /\ (\A r \in S : ppid[r] \in owned => ppid[r] \in S) => q \in S}
  <2>1. \A S \in SUBSET owned :
          (\A r \in S : parent[r] \in owned => parent[r] \in S)
            <=> (\A r \in S : ppid[r] \in owned => ppid[r] \in S)
    BY <1>5
  <2>2. Tree = owned
    BY DEF WholeTree
  <2> QED
    BY <2>1, <2>2 DEF Above
<1>8. depth(p) = Cardinality({k \in 1..N : Walk(p)[k] # Walk(p)[k - 1]})
  BY DEF depth
<1> HIDE DEF N
<1> QED
  BY <1>1, <1>4, <1>6, <1>7, <1>8, StepsAreAncestors DEF N

LEMMA DepthNat == ASSUME TypeOK, NEW p PROVE depth(p) \in Nat
<1>1. IsFiniteSet(owned)
  BY FS_Subset, DiscoveryAssumption DEF TypeOK
<1>2. Cardinality(owned) \in Nat
  BY <1>1, FS_CardinalityType
<1>3. IsFiniteSet(1..Cardinality(owned))
  BY <1>2, FS_Interval
<1> QED
  BY <1>3, FS_Subset, FS_CardinalityType DEF depth

\* The tables of the poll have a where it is: they give it the server it has, at the
\* level it has.
Placed(a) ==
    /\ Server(a) <=> Holders(a) # {}
    /\ Server(a) => ServerOf(a) = Min(Holders(a)) /\ Level(a) = depth(Min(Holders(a)))

\* The lowest holder is one of them.
LEMMA LowestHolds ==
  ASSUME TypeOK, NEW a, Holders(a) # {}
  PROVE  Min(Holders(a)) \in Holders(a) /\ Min(Holders(a)) \in owned /\ Min(Holders(a)) # 0
<1>1. Holders(a) \subseteq owned /\ owned \subseteq Proc
  BY DEF Holders, TypeOK
<1>2. IsFiniteSet(Holders(a)) /\ Holders(a) \subseteq Nat
  BY <1>1, FS_Subset, DiscoveryAssumption
<1>3. Min(Holders(a)) \in Holders(a)
  BY <1>2, MinIsLeast
<1> QED
  BY <1>1, <1>3, DiscoveryAssumption

\* A process table of the whole tree has everything where it is.
LEMMA WholeTreeIsPlaced ==
  ASSUME TypeOK, Forest, WholeTree, NEW a \in Address
  PROVE  Placed(a)
<1>1. Holders(a) = {p \in Tree : a \in holds[p]}
  BY DEF Holders, WholeTree
<1>2. Server(a) <=> Holders(a) # {}
  BY <1>1 DEF Server
<1>3. ServerOf(a) = Min(Holders(a))
  BY <1>1 DEF ServerOf
<1>4. Server(a) => Level(a) = depth(Min(Holders(a)))
  BY <1>2, <1>3, LowestHolds, DepthIsLevel DEF Level
<1> QED
  BY <1>2, <1>3, <1>4 DEF Placed

\* The same of the state after a step.
LEMMA WholeTreeIsPlacedNext ==
  TypeOK' /\ Forest' /\ WholeTree' => (\A a \in Address : Placed(a))'
<1>1. TypeOK /\ Forest /\ WholeTree => \A a \in Address : Placed(a)
  BY WholeTreeIsPlaced
<1> QED
  BY <1>1, PTL

\* A socket table of where everything is says who listens, and how far from the command.
LEMMA TableIsRight ==
  ASSUME TypeOK, Forest, NEW a \in Address, Placed(a), holder[a] = first_holder(a)
  PROVE  /\ Server(a) <=> holder[a] # 0
         /\ Server(a) => Level(a) = depth(holder[a]) /\ Listening(a)
<1>1. Holders(a) # {} => holder[a] = Min(Holders(a)) /\ holder[a] # 0
  BY LowestHolds DEF first_holder
<1>2. Holders(a) = {} => holder[a] = 0
  BY DEF first_holder
<1>3. Server(a) => Listening(a)
  <2>1. Tree \subseteq alive \cup {Root}
    BY DEF Tree, Descendants, Table
  <2>2. \A p \in Tree : p \in alive \/ holds[p] = {}
    BY <2>1, DiscoveryAssumption DEF Forest
  <2> QED
    BY <2>2 DEF Server, Listening
<1> QED
  BY <1>1, <1>2, <1>3 DEF Placed

-----------------------------------------------------------------------------
(* What is steady during a poll                                             *)

\* The tables have the steady addresses where they still are, whoever came, went or
\* left the group since.
SteadyTables ==
    /\ pc = "table" => steady = {}
    /\ owned = {} \/ \A a \in steady : Placed(a)
    /\ pc = "probe" => \A a \in steady : holder[a] = first_holder(a)

\* What a steady listener was found to answer is what it answers.
SteadyAnswers ==
    pc = "probe" =>
        \A a \in (steady \cap shallowest(holder)) \ queue :
            /\ a \in ready <=> (Listening(a) /\ answer[a] = "ready")
            /\ a \in unready <=> (Listening(a) /\ answer[a] = "other")

RivalInv == Forest /\ SteadyTables /\ SteadyAnswers /\ NoRivalMissed

PollInv == DiscoveryInv /\ RivalInv

\* What the tree is made of.
LEMMA SameTree ==
  ASSUME UNCHANGED <<linux, alive, parent, group>>
  PROVE  Tree' = Tree
  BY DEF Tree, Descendants, Table

LEMMA SameLevels ==
  ASSUME UNCHANGED <<world, owned, ppid>>
  PROVE  /\ \A b : Server(b)' = Server(b) /\ Level(b)' = Level(b)
         /\ \A b : first_holder(b)' = first_holder(b) /\ Listening(b)' = Listening(b)
         /\ \A p : depth(p)' = depth(p)
         /\ \A b : Placed(b) => Placed(b)'
<1>1. /\ linux' = linux /\ alive' = alive /\ parent' = parent /\ group' = group
      /\ holds' = holds /\ owned' = owned /\ ppid' = ppid
  BY DEF world
<1>2. Tree' = Tree
  BY <1>1, SameTree
<1>3. \A p : Above(p)' = Above(p)
  BY <1>1, <1>2 DEF Above
<1>4. \A b : Server(b)' = Server(b) /\ ServerOf(b)' = ServerOf(b)
  BY <1>1, <1>2 DEF Server, ServerOf
<1>5. \A b : Level(b)' = Level(b)
  BY <1>3, <1>4 DEF Level
<1>6. \A b : Holders(b)' = Holders(b)
  BY <1>1 DEF Holders
<1>7. \A b : first_holder(b)' = first_holder(b) /\ Listening(b)' = Listening(b)
  BY <1>1, <1>6 DEF first_holder, Listening
<1>8. \A p : depth(p)' = depth(p)
  BY <1>1 DEF depth, Walk
<1>9. \A b : Placed(b) => Placed(b)'
  BY <1>4, <1>5, <1>6, <1>8 DEF Placed
<1> QED
  BY <1>4, <1>5, <1>7, <1>8, <1>9

\* A change of the world that leaves an address alone leaves it in its place.
LEMMA AloneStaysPlaced ==
  ASSUME TypeOK, TypeOK', Forest, Forest', UNCHANGED poll,
         NEW a \in Address, LeftAlone(a)
  PROVE  /\ Placed(a) => Placed(a)'
         /\ first_holder(a)' = first_holder(a)
         /\ Listening(a)' <=> Listening(a)
<1>1. owned' = owned /\ ppid' = ppid
  BY DEF poll
<1>2. \A p \in owned : a \in holds'[p] <=> a \in holds[p]
  BY DEF LeftAlone, TypeOK
<1>3. Holders(a)' = Holders(a)
  BY <1>1, <1>2 DEF Holders
<1>4. \A p : depth(p)' = depth(p)
  BY <1>1 DEF depth, Walk
<1>5. Placed(a) => Placed(a)'
  <2>1. KeepsItsPlace(a)
    <3>1. SUFFICES ASSUME UNCHANGED <<linux, alive, parent, group>>
                   PROVE  KeepsItsPlace(a)
      BY DEF LeftAlone
    <3>2. Tree' = Tree /\ Tree \subseteq Proc
      <4>1. Table' = Table /\ Table \subseteq Proc
        BY <3>1, DiscoveryAssumption DEF Table, TypeOK
      <4>2. Descendants' = Descendants /\ Descendants \subseteq Table
        BY <3>1, <4>1 DEF Descendants
      <4> QED
        BY <3>1, <4>1, <4>2 DEF Tree
    <3>3. \A p \in Tree : a \in holds'[p] <=> a \in holds[p]
      BY <3>2 DEF LeftAlone
    <3>4. \A p : Above(p)' = Above(p)
      BY <3>1, <3>2 DEF Above
    <3>5. Server(a)' <=> Server(a)
      BY <3>2, <3>3 DEF Server
    <3>6. ServerOf(a)' = ServerOf(a)
      <4>1. {p \in Tree : a \in holds'[p]} = {p \in Tree : a \in holds[p]}
        BY <3>3
      <4> QED
        BY <3>2, <4>1 DEF ServerOf
    <3>7. Level(a)' = Level(a)
      BY <3>4, <3>6 DEF Level
    <3> QED
      BY <3>5, <3>6, <3>7 DEF KeepsItsPlace
  <2> QED
    BY <1>3, <1>4, <2>1 DEF Placed, KeepsItsPlace
<1>6. first_holder(a)' = first_holder(a)
  BY <1>3 DEF first_holder
<1>7. Listening(a)' <=> Listening(a)
  <2>1. alive \subseteq Proc /\ alive' \subseteq Proc
    BY DEF TypeOK
  <2>2. /\ \A p \in Proc : a \in holds[p] => p \in alive
        /\ \A p \in Proc : a \in holds'[p] => p \in alive'
    BY DEF Forest
  <2> QED
    BY <2>1, <2>2 DEF Listening, LeftAlone
<1> QED
  BY <1>5, <1>6, <1>7

LEMMA WorldKeepsRival ==
  ASSUME PollInv, WorldChanges
  PROVE  RivalInv'
<1> USE DEF PollInv, RivalInv
<1>1. Forest'
  BY WorldKeepsForest DEF DiscoveryInv
<1>2. Changes /\ Remembers
  BY DEF WorldChanges, Fork, Detach, Exit, Listen, Close, AnswerChanges
<1>3. pc # "done" /\ UNCHANGED <<linux, late, pc, poll, result>>
  BY <1>2 DEF Changes
<1>4. /\ pc' = pc /\ owned' = owned /\ ppid' = ppid /\ holder' = holder
      /\ queue' = queue /\ ready' = ready /\ unready' = unready
      /\ outcome' = outcome
  BY <1>3 DEF poll, result
<1>5. steady' \subseteq steady /\ \A a \in steady' : LeftAlone(a)
  BY <1>2 DEF Remembers
<1>6. TypeOK'
  BY WorldKeeps DEF DiscoveryInv
<1>7. ASSUME NEW a \in steady'
      PROVE  /\ Placed(a) => Placed(a)'
             /\ first_holder(a)' = first_holder(a)
             /\ Listening(a)' <=> Listening(a)
             /\ answer'[a] = answer[a]
  <2>1. a \in Address /\ UNCHANGED poll /\ LeftAlone(a)
    BY <1>3, <1>5 DEF DiscoveryInv, TypeOK
  <2> QED
    BY <1>1, <1>6, <2>1, AloneStaysPlaced DEF DiscoveryInv, LeftAlone
<1>8. SteadyTables'
  BY <1>4, <1>5, <1>7 DEF SteadyTables
<1>9. shallowest(holder)' = shallowest(holder)
  BY <1>4, SamePoll
<1>10. SteadyAnswers'
  <2> SUFFICES ASSUME pc' = "probe",
                      NEW a \in (steady' \cap shallowest(holder)) \ queue
               PROVE  /\ a \in ready <=> (Listening(a)' /\ answer'[a] = "ready")
                      /\ a \in unready <=> (Listening(a)' /\ answer'[a] = "other")
    BY <1>4, <1>9 DEF SteadyAnswers
  <2>1. /\ a \in ready <=> (Listening(a) /\ answer[a] = "ready")
        /\ a \in unready <=> (Listening(a) /\ answer[a] = "other")
    BY <1>4, <1>5 DEF SteadyAnswers
  <2> QED
    BY <1>7, <2>1
<1>11. NoRivalMissed'
  BY <1>3, <1>4 DEF NoRivalMissed, DiscoveryInv, TypeOK
<1> QED
  BY <1>1, <1>8, <1>10, <1>11

-----------------------------------------------------------------------------
(* The decision of a poll                                                   *)

\* When everything was probed, a steady server of the tree that is no deeper than a
\* probed one was probed too, and its answer is known.
LEMMA RivalWasProbed ==
  ASSUME PollInv, Probed, NEW c \in ready \cup unready, NEW b \in Address,
         b \in steady, Server(b), Level(b) <= depth(holder[c])
  PROVE  (b \in ready <=> answer[b] = "ready") /\ (b \in unready <=> answer[b] = "other")
<1> USE DEF PollInv, RivalInv
<1>1. pc = "probe" /\ queue = {}
  BY DEF Probed
<1>2. c \in shallowest(holder) /\ holder[c] \in owned
  BY DEF DiscoveryInv, OnlyShallowest, TypeOK
<1>3. Placed(b) /\ holder[b] = first_holder(b)
  BY <1>1, <1>2 DEF SteadyTables
<1>4. holder[b] # 0 /\ Level(b) = depth(holder[b]) /\ Listening(b)
  BY <1>3, TableIsRight DEF DiscoveryInv
<1>5. \A a \in Address : depth(holder[a]) \in Nat
  BY DepthNat DEF DiscoveryInv
<1>6. b \in shallowest(holder)
  <2>1. c \in Address /\ \A a \in Address : holder[a] # 0 => depth(holder[c]) <= depth(holder[a])
    BY <1>2 DEF shallowest
  <2>2. depth(holder[b]) <= depth(holder[c])
    BY <1>4
  <2>3. \A a \in Address : holder[a] # 0 => depth(holder[b]) <= depth(holder[a])
    <3> SUFFICES ASSUME NEW a \in Address, holder[a] # 0
                 PROVE  depth(holder[b]) <= depth(holder[a])
      OBVIOUS
    <3>1. depth(holder[c]) <= depth(holder[a])
      BY <2>1
    <3> QED
      BY <1>5, <2>1, <2>2, <3>1
  <2> QED
    BY <1>4, <2>3 DEF shallowest
<1> QED
  BY <1>1, <1>4, <1>6 DEF SteadyAnswers

\* Whatever discover ends with, what the poll knew stays.
LEMMA EndKeepsRival ==
  ASSUME PollInv, NEW how, NEW target, End(how, target), pc # "done",
         how = "found" =>
            /\ Probed /\ target \in ready \cup unready
            /\ ready = {target} \/ (ready = {} /\ unready = {target})
  PROVE  RivalInv'
<1> USE DEF PollInv, RivalInv
<1>1. /\ UNCHANGED <<world, late, poll, steady>> /\ pc' = "done" /\ outcome' = how
      /\ chosen' = target
  BY DEF End
<1>2. /\ alive' = alive /\ parent' = parent /\ holds' = holds /\ answer' = answer
      /\ owned' = owned /\ ppid' = ppid /\ holder' = holder
      /\ ready' = ready /\ unready' = unready
  BY <1>1 DEF world, poll
<1>3. /\ \A b : Server(b)' = Server(b) /\ Level(b)' = Level(b)
      /\ \A b : first_holder(b)' = first_holder(b) /\ Listening(b)' = Listening(b)
      /\ \A p : depth(p)' = depth(p)
      /\ \A b : Placed(b) => Placed(b)'
  BY <1>1, <1>2, SameLevels
<1>4. Forest' /\ SteadyTables' /\ SteadyAnswers'
  BY <1>1, <1>2, <1>3 DEF Forest, SteadyTables, SteadyAnswers
<1>5. ASSUME how = "found", NEW b \in steady \ {target}, Server(b),
             Level(b) <= depth(holder[target])
      PROVE  answer[b] \notin (IF target \in ready THEN {"ready"} ELSE {"ready", "other"})
  <2>1. b \in Address
    BY DEF DiscoveryInv, TypeOK
  <2>2. (b \in ready <=> answer[b] = "ready") /\ (b \in unready <=> answer[b] = "other")
    BY <1>5, <2>1, RivalWasProbed
  <2> QED
    BY <1>5, <2>2
<1>6. NoRivalMissed'
  BY <1>1, <1>2, <1>3, <1>5 DEF NoRivalMissed
<1> QED
  BY <1>4, <1>6

LEMMA DiscoverKeepsRival ==
  ASSUME PollInv, Discover
  PROVE  RivalInv'
<1> USE DEF PollInv, RivalInv
<1>1. CASE ChildExited \/ SocketsFail
  BY <1>1, EndKeepsRival DEF ChildExited, SocketsFail
<1>2. CASE Ambiguous \/ TimesOut
  <2>1. PICK how \in {"ambiguous", "timeout"} : End(how, -1)
    BY <1>2 DEF Ambiguous, TimesOut
  <2>2. pc # "done" /\ how # "found"
    BY <1>2, <2>1 DEF Ambiguous, TimesOut, Probed
  <2> QED
    BY <2>1, <2>2, EndKeepsRival
<1>3. CASE Found \/ Settles
  <2>1. PICK a \in ready \cup unready :
          /\ ready = {a} \/ (ready = {} /\ unready = {a})
          /\ End("found", a)
    BY <1>3 DEF Found, Settles
  <2>2. Probed /\ pc # "done"
    BY <1>3 DEF Found, Settles, Probed
  <2> QED
    BY <2>1, <2>2, EndKeepsRival
<1>4. CASE ReadTable
  <2>1. /\ UNCHANGED <<world, holder, queue, ready, unready, outcome>>
        /\ pc = "table" /\ pc' = IF owned' = {} THEN "probe" ELSE "sockets"
        /\ owned' = owned_processes \/ owned' = {}
        /\ ppid' = [p \in Proc |-> IF p \in owned' THEN parent[p] ELSE 0]
    BY <1>4 DEF ReadTable, result
  <2>2. /\ alive' = alive /\ parent' = parent /\ holds' = holds /\ linux' = linux
        /\ group' = group /\ holder' = holder
    BY <2>1 DEF world
  <2>3. Tree' = Tree /\ owned_processes = Tree
    BY <2>2, SameTree DEF owned_processes, Tree
  <2>4. owned' = {} \/ WholeTree'
    BY <2>1, <2>2, <2>3 DEF WholeTree
  <2>5. \A a \in Address : holder[a] = 0
    BY <2>1 DEF DiscoveryInv, FreshPoll
  <2>6. owned' = {} => \A a \in Address : first_holder(a)' = 0
    BY DEF first_holder, Holders
  <2>7. steady' = Address
    BY <1>4 DEF ReadTable
  <2>12. Forest'
    BY <2>2 DEF Forest
  <2>13. owned' = {} \/ \A a \in Address : Placed(a)'
    BY <2>4, <2>12, DiscoverKeeps, WholeTreeIsPlacedNext DEF DiscoveryInv
  <2>8. SteadyTables'
    BY <2>1, <2>2, <2>5, <2>6, <2>7, <2>13 DEF SteadyTables
  <2>9. shallowest(holder)' = {}
    BY <2>2, <2>5 DEF shallowest
  <2>10. SteadyAnswers'
    BY <2>9 DEF SteadyAnswers
  <2>11. NoRivalMissed'
    BY <2>1 DEF NoRivalMissed, DiscoveryInv, TypeOK
  <2> QED
    BY <2>8, <2>10, <2>11, <2>12
<1>5. CASE ReadSockets
  <2>1. /\ UNCHANGED <<world, owned, ppid, outcome, steady>>
        /\ holder' = loopback_listeners /\ queue' = shallowest(holder')
        /\ pc = "sockets" /\ pc' = "probe"
    BY <1>5 DEF ReadSockets, result
  <2>2. /\ alive' = alive /\ parent' = parent /\ holds' = holds /\ linux' = linux
        /\ group' = group /\ owned' = owned /\ ppid' = ppid
    BY <2>1 DEF world
  <2>3. \A a : Placed(a) => Placed(a)'
    BY <2>1, SameLevels
  <2>4. \A a \in Address : holder'[a] = first_holder(a)'
    BY <2>1, <2>2 DEF loopback_listeners, first_holder, Holders
  <2>5. SteadyTables'
    BY <2>1, <2>2, <2>3, <2>4 DEF SteadyTables, DiscoveryInv, TypeOK
  <2>6. shallowest(holder)' = shallowest(holder')
    BY <2>2 DEF shallowest, depth, Walk
  <2>7. SteadyAnswers'
    BY <2>1, <2>6 DEF SteadyAnswers
  <2>8. Forest' /\ NoRivalMissed'
    BY <2>1, <2>2 DEF Forest, NoRivalMissed, DiscoveryInv, TypeOK
  <2> QED
    BY <2>5, <2>7, <2>8
<1>6. ASSUME NEW c \in Address, Probe(c) PROVE RivalInv'
  <2>1. /\ UNCHANGED <<world, owned, ppid, holder, outcome, steady>>
        /\ pc = "probe" /\ pc' = "probe" /\ c \in queue /\ queue' = queue \ {c}
        /\ ready' = IF Listening(c) /\ answer[c] = "ready" THEN ready \cup {c} ELSE ready
        /\ unready' = IF Listening(c) /\ answer[c] = "other" THEN unready \cup {c} ELSE unready
    BY <1>6 DEF Probe, result
  <2>2. /\ alive' = alive /\ parent' = parent /\ holds' = holds /\ answer' = answer
        /\ holder' = holder /\ owned' = owned /\ ppid' = ppid
    BY <2>1 DEF world
  <2>3. /\ \A b : first_holder(b)' = first_holder(b) /\ Listening(b)' = Listening(b)
        /\ \A b : Placed(b) => Placed(b)'
    BY <2>1, <2>2, SameLevels
  <2>4. SteadyTables'
    BY <2>1, <2>2, <2>3 DEF SteadyTables
  <2>5. shallowest(holder)' = shallowest(holder)
    BY <2>2, SamePoll
  <2>6. SteadyAnswers'
    <3> SUFFICES ASSUME NEW a \in (steady \cap shallowest(holder)) \ queue'
                 PROVE  /\ a \in ready' <=> (Listening(a) /\ answer[a] = "ready")
                        /\ a \in unready' <=> (Listening(a) /\ answer[a] = "other")
      BY <2>1, <2>2, <2>3, <2>5 DEF SteadyAnswers
    <3>1. CASE a = c
      <4>1. c \notin ready /\ c \notin unready
        BY <2>1 DEF DiscoveryInv, TypeOK
      <4> QED
        BY <2>1, <3>1, <4>1
    <3>2. CASE a # c
      <4>1. /\ a \in ready <=> (Listening(a) /\ answer[a] = "ready")
            /\ a \in unready <=> (Listening(a) /\ answer[a] = "other")
        BY <2>1, <3>2 DEF SteadyAnswers
      <4> QED
        BY <2>1, <3>2, <4>1
    <3> QED
      BY <3>1, <3>2
  <2>7. Forest' /\ NoRivalMissed'
    BY <2>1, <2>2 DEF Forest, NoRivalMissed, DiscoveryInv, TypeOK
  <2> QED
    BY <2>4, <2>6, <2>7
<1>7. CASE Pending
  <2>1. /\ UNCHANGED <<world, outcome>> /\ pc = "probe" /\ pc' = "table" /\ steady' = {}
    BY <1>7 DEF Pending, Probed, result
  <2>2. Forest'
    BY <2>1 DEF Forest, world
  <2>3. SteadyTables' /\ SteadyAnswers' /\ NoRivalMissed'
    BY <2>1 DEF SteadyTables, SteadyAnswers, NoRivalMissed, DiscoveryInv, TypeOK
  <2> QED
    BY <2>2, <2>3
<1> QED
  BY <1>1, <1>2, <1>3, <1>4, <1>5, <1>6, <1>7 DEF Discover

-----------------------------------------------------------------------------
(* The theorems about rivals                                                *)

LEMMA PollInvariant == Spec => []PollInv
<1>1. Init => RivalInv
  <2> SUFFICES ASSUME Init PROVE RivalInv
    OBVIOUS
  <2>1. Forest
    <3>1. ASSUME NEW S \in SUBSET Proc, \A q \in S : parent[q] \in S PROVE S = {}
      BY <3>1, DiscoveryAssumption DEF Init
    <3> QED
      BY <3>1 DEF Init, Forest
  <2> QED
    BY <2>1 DEF Init, RivalInv, SteadyTables, SteadyAnswers, NoRivalMissed
<1>2. ASSUME PollInv, [Next]_vars PROVE RivalInv'
  <2>1. CASE UNCHANGED <<world, pc, poll, result, steady>>
    <3>1. /\ alive' = alive /\ parent' = parent /\ holds' = holds /\ answer' = answer
          /\ owned' = owned /\ ppid' = ppid /\ holder' = holder
          /\ queue' = queue /\ ready' = ready /\ unready' = unready
          /\ pc' = pc /\ steady' = steady /\ outcome' = outcome /\ chosen' = chosen
      BY <2>1 DEF world, poll, result
    <3>2. /\ \A b : Server(b)' = Server(b) /\ Level(b)' = Level(b)
          /\ \A b : first_holder(b)' = first_holder(b) /\ Listening(b)' = Listening(b)
          /\ \A p : depth(p)' = depth(p)
          /\ \A b : Placed(b) => Placed(b)'
      BY <2>1, <3>1, SameLevels
    <3>3. shallowest(holder)' = shallowest(holder)
      BY <3>1, SamePoll
    <3>4. Forest' /\ SteadyTables'
      BY <1>2, <3>1, <3>2 DEF PollInv, RivalInv, Forest, SteadyTables
    <3>5. SteadyAnswers'
      BY <1>2, <3>1, <3>2, <3>3 DEF PollInv, RivalInv, SteadyAnswers
    <3>6. NoRivalMissed'
      BY <1>2, <3>1, <3>2 DEF PollInv, RivalInv, NoRivalMissed
    <3> QED
      BY <3>4, <3>5, <3>6 DEF RivalInv
  <2> QED
    BY <1>2, <2>1, DiscoverKeepsRival, WorldKeepsRival DEF Next, DeadlinePasses, vars
<1> QED
  BY DiscoveryInvariant, <1>1, <1>2, PTL DEF Spec, PollInv

\* However the processes of the command fork, leave, open and close sockets while a
\* poll reads one table after the other, the target has no rival that was there all
\* the time.
THEOREM DiscoveryNoRivalMissed == Spec => []NoRivalMissed
  BY PollInvariant, PTL DEF PollInv, RivalInv

\* Whatever forks, exits, opens or closes meanwhile, a probe goes to an address found at
\* a process that is no further from the command than any server that stayed.
THEOREM DiscoveryHelpersAreLeftAlone == Spec => HelpersAreLeftAlone
<1> DEFINE Spared ==
      \A a \in queue \ queue' : \A b \in steady :
        Server(b) => depth(holder[a]) <= Level(b)
<1>1. ASSUME PollInv, [Next]_vars PROVE Spared
  <2> SUFFICES ASSUME NEW a \in queue, a \notin queue', NEW b \in steady, Server(b)
               PROVE  depth(holder[a]) <= Level(b)
    OBVIOUS
  <2> USE <1>1 DEF PollInv, RivalInv
  <2>1. pc = "probe"
    <3>1. pc \notin {"table", "sockets"}
      BY DEF DiscoveryInv, FreshPoll
    <3>2. pc # "done"
      <4>1. CASE Discover
        BY <4>1 DEF Discover, ChildExited, ReadTable, SocketsFail, ReadSockets, Probe, Found,
                    Ambiguous, Settles, TimesOut, Pending, Probed
      <4>2. CASE ~Discover
        BY <4>2 DEF Next, DeadlinePasses, WorldChanges, Fork, Detach, Exit, Listen, Close,
                    AnswerChanges, Changes, poll, vars
      <4> QED
        BY <4>1, <4>2
    <3> QED
      BY <3>1, <3>2 DEF DiscoveryInv, TypeOK
  <2>2. a \in shallowest(holder) /\ a \in Address /\ holder[a] # 0 /\ holder[a] \in owned
    BY DEF DiscoveryInv, OnlyShallowest, TypeOK
  <2>3. b \in Address /\ Placed(b) /\ holder[b] = first_holder(b)
    BY <2>1, <2>2 DEF SteadyTables, DiscoveryInv, TypeOK
  <2>4. Level(b) = depth(holder[b]) /\ holder[b] # 0
    BY <2>3, TableIsRight DEF DiscoveryInv
  <2> QED
    BY <2>2, <2>3, <2>4 DEF shallowest
<1> QED
  BY PollInvariant, <1>1, PTL DEF HelpersAreLeftAlone, Spec

\* In a poll during which no listener was touched, what was probed is the top of the tree, and
\* what was found to answer is what answers there.
LEMMA QuietTop ==
  ASSUME PollInv, Probed, steady = Address, owned # {}
  PROVE  TopAnswering("ready") = ready /\ TopAnswering("other") = unready
<1> USE DEF PollInv, RivalInv
<1>1. pc = "probe" /\ queue = {}
  BY DEF Probed
<1>2. ASSUME NEW a \in Address
      PROVE  /\ Server(a) <=> holder[a] # 0
             /\ Server(a) => Level(a) = depth(holder[a]) /\ Listening(a)
  <2>1. Placed(a) /\ holder[a] = first_holder(a)
    BY <1>1 DEF SteadyTables
  <2> QED
    BY <2>1, TableIsRight DEF DiscoveryInv
<1>3. Top = shallowest(holder)
  BY <1>2 DEF Top, shallowest
<1>4. \A a \in Top : Listening(a)
  BY <1>2 DEF Top
<1>5. ready \subseteq Top /\ unready \subseteq Top
  BY <1>3 DEF DiscoveryInv, OnlyShallowest
<1>6. \A a \in Top : (a \in ready <=> answer[a] = "ready") /\ (a \in unready <=> answer[a] = "other")
  BY <1>1, <1>3, <1>4 DEF SteadyAnswers, Top
<1> QED
  BY <1>5, <1>6 DEF TopAnswering

\* The outcome of a quiet poll is the one its listeners call for.
THEOREM DiscoveryQuietPollIsRight == Spec => QuietPollIsRight
<1> DEFINE Right ==
      steady = Address /\ owned # {} /\ Probed /\ pc' # "probe" =>
          outcome' = CASE Cardinality(TopAnswering("ready")) = 1 -> "found"
                       [] Cardinality(TopAnswering("ready")) > 1 -> "ambiguous"
                       [] TopAnswering("ready") = {} /\ ~late -> "none"
                       [] OTHER ->
                            CASE Cardinality(TopAnswering("other")) = 1 -> "found"
                              [] Cardinality(TopAnswering("other")) > 1 -> "ambiguous"
                              [] OTHER -> "timeout"
<1>1. ASSUME PollInv, [Next]_vars PROVE Right
  <2> SUFFICES ASSUME steady = Address, owned # {}, Probed, pc' # "probe"
               PROVE  outcome' = CASE Cardinality(ready) = 1 -> "found"
                                   [] Cardinality(ready) > 1 -> "ambiguous"
                                   [] ready = {} /\ ~late -> "none"
                                   [] OTHER ->
                                        CASE Cardinality(unready) = 1 -> "found"
                                          [] Cardinality(unready) > 1 -> "ambiguous"
                                          [] OTHER -> "timeout"
    BY <1>1, QuietTop
  <2>1. IsFiniteSet(ready) /\ IsFiniteSet(unready)
    <3>1. ready \subseteq Address /\ unready \subseteq Address
      BY <1>1 DEF PollInv, DiscoveryInv, TypeOK
    <3> QED
      BY <3>1, DiscoveryAssumption, FS_Subset
  <2>2. /\ Cardinality(ready) \in Nat /\ Cardinality(unready) \in Nat
        /\ Cardinality(ready) = 0 <=> ready = {}
        /\ Cardinality(unready) = 0 <=> unready = {}
    BY <2>1, FS_CardinalityType, FS_EmptySet
  <2>3. /\ \A a : ready = {a} => Cardinality(ready) = 1
        /\ \A a : unready = {a} => Cardinality(unready) = 1
    BY FS_Singleton
  <2>4. Found \/ Ambiguous \/ Settles \/ TimesOut \/ Pending
    <3>1. Discover
      BY <1>1 DEF Next, DeadlinePasses, WorldChanges, Fork, Detach, Exit, Listen, Close,
                  AnswerChanges, Changes, poll, vars, Probed
    <3> QED
      BY <3>1 DEF Discover, ChildExited, ReadTable, SocketsFail, ReadSockets, Probe, Probed
  <2>5. CASE Found
    BY <2>3, <2>5 DEF Found, End
  <2>6. CASE Ambiguous
    BY <2>2, <2>6 DEF Ambiguous, End
  <2>7. CASE Settles
    BY <2>2, <2>3, <2>7 DEF Settles, End
  <2>8. CASE TimesOut
    BY <2>2, <2>8 DEF TimesOut, End
  <2>9. CASE Pending
    <3>1. outcome' = "none"
      BY <1>1, <2>9 DEF Pending, Probed, result, PollInv, DiscoveryInv, TypeOK
    <3> QED
      BY <2>2, <2>9, <3>1 DEF Pending
  <2> QED
    BY <2>4, <2>5, <2>6, <2>7, <2>8, <2>9
<1> QED
  BY PollInvariant, <1>1, PTL DEF QuietPollIsRight, Spec
=============================================================================
