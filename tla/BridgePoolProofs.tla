-------------------------- MODULE BridgePoolProofs --------------------------
(***************************************************************************)
(* The counter of the bridge's thread pool is exact for every set of        *)
(* workers and connections.  IdleCount is inductive together with TypeOK:    *)
(* each action moves at most one unit of idle, and moves exactly one worker  *)
(* into or out of Counted with it.                                          *)
(***************************************************************************)
EXTENDS BridgePool, FiniteSetTheorems, TLAPS

PoolInv == TypeOK /\ IdleCount

\* Counted is finite, so adding or removing one worker changes its size by one.
LEMMA CountedFinite == IsFiniteSet(Counted)
  BY PoolAssumption, FS_Subset DEF Counted

\* A unit of idle and the worker that holds it arrive together.
LEMMA CountUp ==
  ASSUME PoolInv, NEW w \in Worker, w \notin Counted,
         idle' = idle + 1, Counted' = Counted \cup {w}
  PROVE  IdleCount' /\ idle' \in Nat
<1>1. Cardinality(Counted \cup {w}) = Cardinality(Counted) + 1
  BY CountedFinite, FS_AddElement
<1> QED
  BY <1>1 DEF PoolInv, IdleCount, TypeOK

\* A worker that holds a unit takes it away when it stops being counted; there
\* is one to take, so the counter does not wrap.
LEMMA CountDown ==
  ASSUME PoolInv, NEW w \in Worker, w \in Counted,
         idle' = idle - 1, Counted' = Counted \ {w}
  PROVE  IdleCount' /\ idle' \in Nat
<1>1. Cardinality(Counted \ {w}) = Cardinality(Counted) - 1
  BY CountedFinite, FS_RemoveElement
<1>2. Cardinality(Counted) \in Nat
  BY CountedFinite, FS_CardinalityType
<1>3. Cardinality(Counted \ {w}) \in Nat
  BY CountedFinite, FS_CardinalityType, FS_RemoveElement
<1> QED
  BY <1>1, <1>2, <1>3 DEF PoolInv, IdleCount, TypeOK

\* Handing a unit from a spawning worker to the thread it started.
LEMMA CountMove ==
  ASSUME PoolInv, NEW w \in Worker, NEW v \in Worker, w \in Counted, v \notin Counted,
         idle' = idle, Counted' = (Counted \ {w}) \cup {v}
  PROVE  IdleCount' /\ idle' \in Nat
<1>1. /\ IsFiniteSet(Counted \ {w})
      /\ Cardinality(Counted \ {w}) = Cardinality(Counted) - 1
  BY CountedFinite, FS_RemoveElement
<1>2. Cardinality((Counted \ {w}) \cup {v}) = Cardinality(Counted \ {w}) + 1
  BY <1>1, FS_AddElement
<1>3. Cardinality(Counted) \in Nat
  BY CountedFinite, FS_CardinalityType
<1> QED
  BY <1>1, <1>2, <1>3 DEF PoolInv, IdleCount, TypeOK

LEMMA InitPool == Init => PoolInv
<1> SUFFICES ASSUME Init PROVE PoolInv
  OBVIOUS
<1>1. PICK w \in Worker : pc = [v \in Worker |-> IF v = w THEN "accept" ELSE "gone"]
  BY DEF Init
<1>2. TypeOK
  BY <1>1 DEF Init, TypeOK, Phase
<1>3. Counted = {w}
  BY <1>1 DEF Counted
<1>4. Cardinality({w}) = 1
  BY FS_Singleton
<1> QED
  BY <1>2, <1>3, <1>4 DEF Init, PoolInv, IdleCount

LEMMA NextPool == PoolInv /\ [Next]_vars => PoolInv'
<1> SUFFICES ASSUME PoolInv, [Next]_vars PROVE PoolInv'
  OBVIOUS
<1> USE DEF PoolInv
<1>1. ASSUME NEW c \in Conn, Connect(c) PROVE PoolInv'
  BY <1>1 DEF Connect, TypeOK, IdleCount, Counted
<1>2. ASSUME NEW w \in Worker, Accept(w) PROVE PoolInv'
  <2>1. Counted' = Counted
    BY <1>2 DEF Accept, TypeOK, Counted
  <2>2. TypeOK'
    BY <1>2 DEF Accept, TypeOK, Phase
  <2> QED
    BY <1>2, <2>1, <2>2 DEF Accept, IdleCount
<1>3. ASSUME NEW w \in Worker, AcceptAborted(w) PROVE PoolInv'
  <2>1. Counted' = Counted
    BY <1>3 DEF AcceptAborted, TypeOK, Counted
  <2>2. TypeOK'
    BY <1>3 DEF AcceptAborted, TypeOK, Phase
  <2> QED
    BY <1>3, <2>1, <2>2 DEF AcceptAborted, IdleCount
<1>4. ASSUME NEW w \in Worker, AcceptFails(w) PROVE PoolInv'
  <2>1. Counted' = Counted
    BY <1>4 DEF AcceptFails, TypeOK, Counted
  <2>2. TypeOK'
    BY <1>4 DEF AcceptFails, TypeOK, Phase
  <2> QED
    BY <1>4, <2>1, <2>2 DEF AcceptFails, IdleCount
<1>5. ASSUME NEW w \in Worker, ClaimSlot(w) PROVE PoolInv'
  <2>1. w \in Counted /\ Counted' = Counted \ {w}
    BY <1>5 DEF ClaimSlot, TookLast, TypeOK, Counted
  <2>2. IdleCount' /\ idle' \in Nat
    BY <1>5, <2>1, CountDown DEF ClaimSlot, TookLast
  <2>3. TypeOK'
    BY <1>5, <2>2 DEF ClaimSlot, TookLast, TypeOK, Phase
  <2> QED
    BY <2>2, <2>3
<1>6. ASSUME NEW w \in Worker, SpawnCount(w) PROVE PoolInv'
  <2>1. w \notin Counted /\ Counted' = Counted \cup {w}
    BY <1>6 DEF SpawnCount, TypeOK, Counted
  <2>2. IdleCount' /\ idle' \in Nat
    BY <1>6, <2>1, CountUp DEF SpawnCount
  <2>3. TypeOK'
    BY <1>6, <2>2 DEF SpawnCount, TypeOK, Phase
  <2> QED
    BY <2>2, <2>3
<1>7. ASSUME NEW w \in Worker, NEW new \in Worker, SpawnThread(w, new) PROVE PoolInv'
  <2>1. w \in Counted /\ new \notin Counted
    BY <1>7 DEF SpawnThread, Counted
  <2>2. Counted' = (Counted \ {w}) \cup {new}
    BY <1>7 DEF SpawnThread, TypeOK, Counted
  <2>3. IdleCount' /\ idle' \in Nat
    BY <1>7, <2>1, <2>2, CountMove DEF SpawnThread
  <2>4. TypeOK'
    BY <1>7, <2>3 DEF SpawnThread, TypeOK, Phase
  <2> QED
    BY <2>3, <2>4
<1>8. ASSUME NEW w \in Worker, SpawnFails(w) PROVE PoolInv'
  <2>1. Counted' = Counted
    BY <1>8 DEF SpawnFails, TypeOK, Counted
  <2>2. TypeOK'
    BY <1>8 DEF SpawnFails, TypeOK, Phase
  <2> QED
    BY <1>8, <2>1, <2>2 DEF SpawnFails, IdleCount
<1>9. ASSUME NEW w \in Worker, SpawnUndo(w) PROVE PoolInv'
  <2>1. w \in Counted /\ Counted' = Counted \ {w}
    BY <1>9 DEF SpawnUndo, undone, TypeOK, Counted
  <2>2. IdleCount' /\ idle' \in Nat
    BY <1>9, <2>1, CountDown DEF SpawnUndo, undone
  <2>3. TypeOK'
    BY <1>9, <2>2 DEF SpawnUndo, undone, TypeOK, Phase
  <2> QED
    BY <2>2, <2>3
<1>10. ASSUME NEW w \in Worker, HandleConnection(w) \/ HandleError(w) PROVE PoolInv'
  <2>1. Counted' = Counted
    BY <1>10 DEF HandleConnection, HandleError, TypeOK, Counted
  <2>2. TypeOK'
    BY <1>10 DEF HandleConnection, HandleError, TypeOK, Phase
  <2> QED
    BY <1>10, <2>1, <2>2 DEF HandleConnection, HandleError, IdleCount
<1>11. ASSUME NEW w \in Worker, ReturnSlot(w) PROVE PoolInv'
  <2>1. w \notin Counted /\ Counted' = Counted \cup {w}
    BY <1>11 DEF ReturnSlot, EnoughOthers, TypeOK, Counted
  <2>2. IdleCount' /\ idle' \in Nat
    BY <1>11, <2>1, CountUp DEF ReturnSlot
  <2>3. TypeOK'
    BY <1>11, <2>2 DEF ReturnSlot, EnoughOthers, TypeOK, Phase
  <2> QED
    BY <2>2, <2>3
<1>12. ASSUME NEW w \in Worker, Leave(w) PROVE PoolInv'
  <2>1. w \in Counted /\ Counted' = Counted \ {w}
    BY <1>12 DEF Leave, TypeOK, Counted
  <2>2. IdleCount' /\ idle' \in Nat
    BY <1>12, <2>1, CountDown DEF Leave
  <2>3. TypeOK'
    BY <1>12, <2>2 DEF Leave, TypeOK, Phase
  <2> QED
    BY <2>2, <2>3
<1>13. CASE UNCHANGED vars
  BY <1>13 DEF vars, TypeOK, IdleCount, Counted
<1> QED
  BY <1>1, <1>2, <1>3, <1>4, <1>5, <1>6, <1>7, <1>8, <1>9, <1>10, <1>11, <1>12, <1>13
     DEF Next, Step

\* Pool.idle never wraps and is never anything but a count, for every pool.
THEOREM PoolTypeCorrect == Spec => []TypeOK
  BY InitPool, NextPool, PTL DEF Spec, PoolInv

\* Pool.idle always equals the number of workers it stands for, for every number
\* of threads, whatever accepts and thread starts fail.
THEOREM PoolIdleCount == Spec => []IdleCount
  BY InitPool, NextPool, PTL DEF Spec, PoolInv

\* The worker that claims the last slot of a calm pool is the only one counted: it
\* reads 1 and starts a replacement.
LEMMA LastClaim ==
  ASSUME PoolInv, Calm, NEW w \in Worker, ClaimSlot(w),
         \A v \in Worker \ {w} : pc[v] \notin {"accept", "accepted", "spawn_add", "spawn_thread"}
  PROVE  pc'[w] = "spawn_add"
<1>1. Counted = {w}
  BY DEF ClaimSlot, TookLast, Counted, Calm
<1>2. idle = 1
  BY <1>1, FS_Singleton DEF PoolInv, IdleCount
<1> QED
  BY <1>2 DEF ClaimSlot, TookLast, PoolInv, TypeOK

LEMMA InHandStep ==
  ASSUME PoolInv, [Next]_vars, InHand, Calm, Calm'
  PROVE  InHand'
<1> USE DEF PoolInv, TypeOK, InHand
<1>1. ASSUME NEW c \in Conn, Connect(c) PROVE InHand'
  BY <1>1 DEF Connect
<1>2. ASSUME NEW w \in Worker, Accept(w) \/ AcceptAborted(w) \/ AcceptFails(w) PROVE InHand'
  BY <1>2 DEF Accept, AcceptAborted, AcceptFails
<1>3. ASSUME NEW w \in Worker, ClaimSlot(w) PROVE InHand'
  <2>1. CASE \E v \in Worker \ {w} : pc[v] \in {"accept", "accepted", "spawn_add", "spawn_thread"}
    BY <1>3, <2>1 DEF ClaimSlot, TookLast
  <2>2. CASE \A v \in Worker \ {w} : pc[v] \notin {"accept", "accepted", "spawn_add", "spawn_thread"}
    BY <1>3, <2>2, LastClaim
  <2> QED
    BY <2>1, <2>2
<1>4. ASSUME NEW w \in Worker, SpawnCount(w) PROVE InHand'
  BY <1>4 DEF SpawnCount
<1>5. ASSUME NEW w \in Worker, NEW new \in Worker, SpawnThread(w, new) PROVE InHand'
  BY <1>5 DEF SpawnThread
<1>6. ASSUME NEW w \in Worker, SpawnFails(w) PROVE FALSE
  BY <1>6 DEF SpawnFails, Calm
<1>7. ASSUME NEW w \in Worker, SpawnUndo(w) \/ Leave(w) PROVE FALSE
  BY <1>7 DEF SpawnUndo, Leave, Calm
<1>8. ASSUME NEW w \in Worker, HandleConnection(w) \/ HandleError(w) \/ ReturnSlot(w)
      PROVE  InHand'
  BY <1>8 DEF HandleConnection, HandleError, ReturnSlot, EnoughOthers
<1>9. CASE UNCHANGED vars
  BY <1>9 DEF vars
<1> QED
  BY <1>1, <1>2, <1>3, <1>4, <1>5, <1>6, <1>7, <1>8, <1>9 DEF Next, Step

\* In any pool, the worker that takes the last idle slot has started its
\* replacement before it is lost to a connection that never ends.
THEOREM PoolSlotIsReplaced == Spec => SlotIsReplaced
<1>1. PoolInv /\ [Next]_vars => [InHand /\ Calm /\ Calm' => InHand']_vars
  BY InHandStep
<1> QED
  BY <1>1, InitPool, NextPool, PTL DEF Spec, SlotIsReplaced

\* So a pool in which every thread starts and nobody leaves is never without a worker
\* that will look at the queue.
THEOREM PoolNeverUnattended == Spec => ([]Calm => []InHand)
<1>1. Init => InHand
  BY DEF Init, InHand
<1> QED
  BY <1>1, InHandStep, InitPool, NextPool, PTL DEF Spec
=============================================================================
