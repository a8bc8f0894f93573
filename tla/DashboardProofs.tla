--------------------------- MODULE DashboardProofs ---------------------------
(***************************************************************************)
(* The dashboard, for any processes, any tree, any groups and any sockets:   *)
(* SIGKILL follows a stop of the same process or group, the table lists a    *)
(* process once, and a question and the cursor stay on their process.        *)
(***************************************************************************)
EXTENDS Dashboard, SequenceTheorems, FiniteOrders

-----------------------------------------------------------------------------
(* The tree below a process                                                 *)

\* S holds p and, with a process, its children.
IsTree(processes, p, S) ==
    /\ {p} \cap processes \subseteq S
    /\ \A q \in processes : Parent[q] \in S => q \in S

\* Whatever is in every such set.
Below(processes, p) ==
    {q \in processes \ {p} : \A S \in SUBSET processes : IsTree(processes, p, S) => q \in S}

\* As many rounds as there are pids are enough: a round that finds nobody is the last
\* one, and every other round finds one process more.  So descendants() has the
\* whole tree, however deep it is, and nobody else.
THEOREM DashboardWholeTree ==
  ASSUME NEW processes \in SUBSET Pid, NEW p
  PROVE  descendants(processes, p) = Below(processes, p)
<1> DEFINE N == Cardinality(Pid)
<1> DEFINE D == SUBSET processes
<1> DEFINE d == {p} \cap processes
<1> DEFINE next(t) == t \cup {q \in processes : Parent[q] \in t}
<1> DEFINE grow == [t \in D |-> next(t)]
<1> DEFINE step == [n \in 1..N |-> grow]
<1>n. N \in Nat /\ IsFiniteSet(processes) /\ Cardinality(processes) <= N
  BY DashboardAssumption, FS_CardinalityType, FS_Subset
<1>i. \A n \in 0..N : /\ n # 0 => n \in 1..N /\ n - 1 \in 0..N /\ (n - 1) + 1 = n
                      /\ n < N => n + 1 \in 1..N /\ n + 1 \in 0..N /\ (n + 1) - 1 = n
  BY <1>n
<1>1. step \in [1..N -> [D -> D]] /\ d \in D
  OBVIOUS
<1>2. PICK f : IsRecursion(f, N, D, d, step)
  <2> HIDE DEF step, D, d, N
  <2> QED
    BY <1>n, <1>1, RecursionExists
<1>3. /\ f \in [0..N -> D] /\ f[0] = d
      /\ \A n \in 1..N : f[n] = step[n][f[n - 1]]
  BY <1>2 DEF IsRecursion
<1>4. ASSUME NEW n \in 1..N PROVE f[n] = next(f[n - 1])
  <2>1. n - 1 \in 0..N
    BY <1>n
  <2>2. f[n - 1] \in D
    BY <1>3, <2>1
  <2>3. f[n] = grow[f[n - 1]]
    BY <1>3
  <2> QED
    BY <2>2, <2>3
<1> DEFINE Body(g) == [n \in 0..N |-> IF n = 0 THEN d ELSE next(g[n - 1])]
<1> DEFINE reach == CHOOSE g : g = Body(g)
<1>5. f = Body(f)
  <2>1. f = [n \in 0..N |-> f[n]]
    BY <1>3
  <2> HIDE DEF N, next, step, d
  <2> QED
    BY <1>3, <1>4, <1>i, <2>1
<1>6. reach = Body(reach)
  <2> HIDE DEF Body
  <2> QED
    BY <1>5
<1>7. descendants(processes, p) = reach[N] \ {p}
  BY DEF descendants
<1>8. /\ reach[0] = d
      /\ \A n \in 0..N : n < N => reach[n + 1] = next(reach[n])
  <2> HIDE DEF reach, N, next, d
  <2>1. reach[0] = Body(reach)[0] /\ \A n \in 0..N : reach[n] = Body(reach)[n]
    BY <1>6
  <2>2. 0 \in 0..N
    BY <1>n
  <2>3. reach[0] = d
    BY <2>1, <2>2
  <2>4. ASSUME NEW n \in 0..N, n < N PROVE reach[n + 1] = next(reach[n])
    <3>1. n + 1 \in 0..N /\ n + 1 # 0 /\ (n + 1) - 1 = n
      BY <2>4, <1>i
    <3>2. reach[n + 1] = Body(reach)[n + 1]
      BY <2>1, <3>1
    <3> QED
      BY <3>1, <3>2
  <2> QED
    BY <2>3, <2>4
<1> HIDE DEF reach, N, Body
\* Each round is part of every tree.
<1>9. ASSUME NEW S \in SUBSET processes, IsTree(processes, p, S)
      PROVE  reach[N] \subseteq S
  <2> DEFINE U == {n \in 0..N : reach[n] \subseteq S}
  <2>1. 0 \in U
    BY <1>8, <1>9, <1>n DEF IsTree
  <2>2. ASSUME NEW n \in 0..N, n < N, n \in U PROVE n + 1 \in U
    BY <1>8, <1>9, <1>i, <2>2 DEF IsTree
  <2>3. \A n \in 0..N : n \in U
    <3> HIDE DEF U
    <3> QED
      BY <1>n, <2>1, <2>2, IntervalInduction
  <2> QED
    BY <1>n, <2>3
\* Either a round found nobody, or all of them together found more than there are.
<1> DEFINE Closed(t) == next(t) = t
<1> DEFINE V == {n \in 0..N : /\ reach[n] \in D /\ d \subseteq reach[n]
                              /\ Closed(reach[n]) \/ Cardinality(reach[n]) >= n + 1}
<1>10. 0 \in V
  <2>1. CASE d = {}
    <3>1. next({}) = {}
      OBVIOUS
    <3> QED
      BY <1>8, <1>n, <2>1, <3>1
  <2>2. CASE d # {}
    <3>1. d = {p} /\ Cardinality({p}) = 1
      BY <2>2, FS_Singleton
    <3> QED
      BY <1>8, <1>n, <3>1
  <2> QED
    BY <2>1, <2>2
<1>11. ASSUME NEW n \in 0..N, n < N, n \in V PROVE n + 1 \in V
  <2> DEFINE t == reach[n]
  <2> DEFINE u == next(t)
  <2>1. reach[n + 1] = u /\ n + 1 \in 0..N
    BY <1>8, <1>11, <1>i
  <2>2. t \in D /\ d \subseteq t /\ (Closed(t) \/ Cardinality(t) >= n + 1)
    BY <1>11
  <2> HIDE DEF t
  <2>3. u \in D /\ t \subseteq u /\ d \subseteq u
    BY <2>2
  <2>4. CASE Closed(t)
    <3>1. u = t
      BY <2>4
    <3> HIDE DEF u, d, D
    <3>2. Closed(u)
      BY <2>4, <3>1
    <3> QED
      BY <2>1, <2>3, <3>2
  <2>5. CASE ~Closed(t)
    <3>1. t \in SUBSET u /\ t # u /\ IsFiniteSet(u)
      BY <2>3, <2>5, <1>n, FS_Subset
    <3> HIDE DEF u
    <3>2. Cardinality(t) <= Cardinality(u) /\ Cardinality(t) # Cardinality(u)
      BY <3>1, FS_Subset
    <3>3. Cardinality(t) \in Nat /\ Cardinality(u) \in Nat
      BY <3>1, FS_Subset, FS_CardinalityType
    <3>4. Cardinality(t) >= n + 1
      BY <2>2, <2>5
    <3>5. Cardinality(u) >= (n + 1) + 1
      BY <3>2, <3>3, <3>4
    <3> HIDE DEF d, D, Closed
    <3> QED
      BY <2>1, <2>3, <3>5
  <2> QED
    BY <2>4, <2>5
<1>12. N \in V
  <2> HIDE DEF V
  <2>1. \A n \in 0..N : n \in V
    BY <1>n, <1>10, <1>11, IntervalInduction
  <2> QED
    BY <1>n, <2>1
<1>13. reach[N] \in SUBSET processes /\ IsTree(processes, p, reach[N])
  <2>1. reach[N] \in D /\ d \subseteq reach[N]
    BY <1>12
  <2>2. Closed(reach[N])
    <3>1. IsFiniteSet(reach[N]) /\ Cardinality(reach[N]) <= N
      <4>1. Cardinality(reach[N]) <= Cardinality(processes) /\ IsFiniteSet(reach[N])
        BY <2>1, <1>n, FS_Subset
      <4>2. Cardinality(reach[N]) \in Nat /\ Cardinality(processes) \in Nat
        BY <4>1, <1>n, FS_CardinalityType
      <4> QED
        BY <4>1, <4>2, <1>n
    <3>2. Cardinality(reach[N]) \in Nat
      BY <3>1, FS_CardinalityType
    <3>3. ~(Cardinality(reach[N]) >= N + 1)
      BY <1>n, <3>1, <3>2
    <3> HIDE DEF Closed
    <3> QED
      BY <1>12, <3>3
  <2> QED
    BY <2>1, <2>2 DEF IsTree
<1> QED
  BY <1>7, <1>9, <1>13 DEF Below

-----------------------------------------------------------------------------
(* The table                                                                *)

LEMMA PortIsFinite == Port \subseteq Nat /\ IsFiniteSet(Port)
<1> DEFINE f == [p \in Pid |-> PortOf[p]]
<1>1. f \in Surjection(Pid, Port)
  BY DEF Surjection, Port
<1>2. IsFiniteSet(Pid)
  BY DashboardAssumption
<1>3. IsFiniteSet(Port)
  <2> HIDE DEF f
  <2> QED
    BY <1>1, <1>2, FS_Surjection
<1> QED
  BY <1>3, DashboardAssumption DEF Port

LEMMA LastPidIsLast == LastPid \in Nat /\ \A p \in Pid : p \in 1..LastPid
<1>1. IsFiniteSet(Pid \cup {0})
  BY FS_AddElement, DashboardAssumption
<1>2. Pid \cup {0} \subseteq Nat /\ Pid \cup {0} # {}
  BY DashboardAssumption
<1>3. LastPid \in Pid \cup {0} /\ \A p \in Pid \cup {0} : p <= LastPid
  BY <1>1, <1>2, MaxIsGreatest DEF LastPid
<1> QED
  BY <1>2, <1>3, DashboardAssumption

\* socket_owners names a holder of the socket.
LEMMA ListenersTyped ==
  ASSUME holders \in [Port -> SUBSET Pid]
  PROVE  Listeners \subseteq Pid \X Port
<1>1. ASSUME NEW n \in Port, holders[n] # {} PROVE Min(holders[n]) \in Pid
  <2>1. holders[n] \subseteq Nat /\ IsFiniteSet(holders[n]) /\ holders[n] \subseteq Pid
    BY FS_Subset, DashboardAssumption
  <2> QED
    BY <1>1, <2>1, MinIsLeast
<1> QED
  BY <1>1 DEF Listeners

\* What is listed of a scan: its owners have ports, and a port is one of Port.
LEMMA OwnersHavePorts ==
  ASSUME NEW listeners \in SUBSET (Pid \X Port), NEW p
  PROVE  /\ owners_of(listeners) \subseteq Pid
         /\ ports_of(listeners, p) \subseteq Port
         /\ p \in owners_of(listeners) <=> ports_of(listeners, p) # {}
  BY DEF owners_of, ports_of

\* How consumed() goes on from one pid to the next.
Take(processes, listeners, loaded, n, t) ==
    IF is_session(processes, listeners, loaded, t, n)
      THEN t \cup consumes(n, below(processes, listeners, t, n))
      ELSE t

\* The sessions are looked at in the order of their pids, and what one of them has
\* consumed stays consumed.
LEMMA ConsumedGrows ==
  ASSUME NEW processes, NEW listeners \in SUBSET (Pid \X Port), NEW loaded
  PROVE  LET taken == consumed(processes, listeners, loaded)
         IN  /\ \A n \in 1..LastPid :
                   taken[n] = Take(processes, listeners, loaded, n, taken[n - 1])
             /\ \A m \in 0..LastPid : \A n \in 0..m : taken[n] \subseteq taken[m]
<1> DEFINE taken == consumed(processes, listeners, loaded)
<1> DEFINE N == LastPid
<1> DEFINE D == SUBSET Pid
<1> DEFINE take(n) == [t \in D |-> Take(processes, listeners, loaded, n, t)]
<1> DEFINE step == [n \in 1..N |-> take(n)]
<1>n. N \in Nat
  BY LastPidIsLast
<1>1. ASSUME NEW n \in 1..N, NEW t \in D PROVE Take(processes, listeners, loaded, n, t) \in D
  <2>1. CASE is_session(processes, listeners, loaded, t, n)
    <3>1. below(processes, listeners, t, n) \subseteq Pid
      BY OwnersHavePorts DEF below
    <3>2. ports_of(listeners, n) # {}
      BY <2>1 DEF is_session, urls_for
    <3>3. n \in Pid
      BY <3>2, OwnersHavePorts
    <3> QED
      BY <2>1, <3>1, <3>3 DEF Take, consumes
  <2>2. CASE ~is_session(processes, listeners, loaded, t, n)
    BY <2>2 DEF Take
  <2> QED
    BY <2>1, <2>2
<1>2. step \in [1..N -> [D -> D]] /\ {} \in D
  BY <1>1
<1>3. PICK f : IsRecursion(f, N, D, {}, step)
  <2> HIDE DEF step, D, N
  <2> QED
    BY <1>n, <1>2, RecursionExists
<1>4. /\ f \in [0..N -> D] /\ f[0] = {}
      /\ \A n \in 1..N : f[n] = step[n][f[n - 1]]
  BY <1>3 DEF IsRecursion
<1>5. ASSUME NEW n \in 1..N PROVE f[n] = Take(processes, listeners, loaded, n, f[n - 1])
  <2>1. n - 1 \in 0..N
    BY <1>n
  <2>2. f[n - 1] \in D
    BY <1>4, <2>1
  <2>3. f[n] = take(n)[f[n - 1]]
    BY <1>4
  <2> QED
    BY <2>2, <2>3
<1> DEFINE Body(g) == [n \in 0..N |->
               IF n = 0 THEN {} ELSE Take(processes, listeners, loaded, n, g[n - 1])]
<1>6. f = Body(f)
  <2>1. \A n \in 0..N : n # 0 => n \in 1..N
    BY <1>n
  <2>2. f = [n \in 0..N |-> f[n]]
    BY <1>4
  <2> HIDE DEF N, step
  <2> QED
    BY <1>4, <1>5, <2>1, <2>2
<1>7. taken = CHOOSE g : g = Body(g)
  BY DEF consumed, Take
<1>8. taken = Body(taken)
  <2> HIDE DEF Body, taken
  <2> QED
    BY <1>6, <1>7
<1>9. ASSUME NEW n \in 1..N
      PROVE  taken[n] = Take(processes, listeners, loaded, n, taken[n - 1])
  <2>1. n \in 0..N /\ n # 0
    BY <1>n
  <2>2. taken[n] = Body(taken)[n]
    BY <1>8
  <2> HIDE DEF taken, N
  <2> QED
    BY <2>1, <2>2
<1> HIDE DEF taken, N, Body
<1> DEFINE S == {m \in 0..N : \A n \in 0..m : taken[n] \subseteq taken[m]}
<1>10. 0 \in S
  BY <1>n
<1>11. ASSUME NEW m \in 0..N, m < N, m \in S PROVE m + 1 \in S
  <2>1. m + 1 \in 1..N /\ m + 1 \in 0..N /\ (m + 1) - 1 = m
    BY <1>n, <1>11
  <2>2. taken[m] \subseteq taken[m + 1]
    BY <1>9, <2>1 DEF Take
  <2>3. ASSUME NEW n \in 0..(m + 1) PROVE taken[n] \subseteq taken[m + 1]
    <3>1. CASE n = m + 1
      BY <3>1
    <3>2. CASE n # m + 1
      <4>1. n \in 0..m
        BY <3>2
      <4> QED
        BY <1>11, <2>2, <4>1
    <3> QED
      BY <3>1, <3>2
  <2> QED
    BY <2>1, <2>3
<1>12. \A m \in 0..N : m \in S
  <2> HIDE DEF S
  <2> QED
    BY <1>n, <1>10, <1>11, IntervalInduction
<1>13. \A m \in 0..N : \A n \in 0..m : taken[n] \subseteq taken[m]
  BY <1>12
<1> QED
  BY <1>9, <1>13 DEF N, taken

\* The rows before they are sorted.
AllRows(processes, listeners, loaded) ==
    LET taken == consumed(processes, listeners, loaded)
    IN  session_rows(processes, listeners, loaded, taken)
          \cup server_rows(processes, listeners, loaded, taken)

\* A row comes from a session or from a listener that no session has consumed.  It
\* lists a port, and whoever listens on it had not been consumed before.
LEMMA RowOrigin ==
  ASSUME NEW processes, NEW listeners \in SUBSET (Pid \X Port), NEW loaded \in SUBSET Port,
         NEW taken
  PROVE  /\ \A r \in session_rows(processes, listeners, loaded, taken) :
               /\ r \in Row /\ r.endpoints # {}
               /\ is_session(processes, listeners, loaded, taken[r.pid - 1], r.pid)
               /\ \A n \in r.endpoints :
                     \E q \in below(processes, listeners, taken[r.pid - 1], r.pid) :
                        <<q, n>> \in listeners
         /\ \A r \in server_rows(processes, listeners, loaded, taken) :
               /\ r \in Row /\ r.endpoints # {}
               /\ r.pid \notin taken[LastPid]
               /\ \A n \in r.endpoints : <<r.pid, n>> \in listeners
<1>p. \A q, n : n \in ports_of(listeners, q) => <<q, n>> \in listeners
  BY DEF ports_of
<1>1. ASSUME NEW r \in session_rows(processes, listeners, loaded, taken)
      PROVE  /\ r \in Row /\ r.endpoints # {}
             /\ is_session(processes, listeners, loaded, taken[r.pid - 1], r.pid)
             /\ \A n \in r.endpoints :
                   \E q \in below(processes, listeners, taken[r.pid - 1], r.pid) :
                      <<q, n>> \in listeners
  <2> DEFINE under(p) == below(processes, listeners, taken[p - 1], p)
  <2> DEFINE ports(p) == UNION {ports_of(listeners, q) : q \in under(p)}
  <2>1. PICK p \in owners_of(listeners) :
          /\ is_session(processes, listeners, loaded, taken[p - 1], p)
          /\ r = row_of(p, TRUE, FALSE, ports(p), urls_for(listeners, loaded, p))
    BY DEF session_rows
  <2>2. p \in Pid /\ ports(p) \subseteq Port /\ urls_for(listeners, loaded, p) \subseteq Port
    BY OwnersHavePorts DEF urls_for
  <2>3. PICK q \in under(p) : TRUE
    BY <2>1 DEF is_session
  <2>4. ports_of(listeners, q) # {}
    BY <2>3, OwnersHavePorts DEF below
  <2>5. ports(p) # {}
    <3> HIDE DEF under
    <3> QED
      BY <2>4
  <2>6. \A n \in ports(p) : \E u \in under(p) : <<u, n>> \in listeners
    <3> HIDE DEF under
    <3> QED
      BY <1>p
  <2> HIDE DEF ports, under
  <2>7. r \in Row /\ r.pid = p /\ r.endpoints = ports(p)
    BY <2>1, <2>2 DEF row_of, Row
  <2> QED
    BY <2>1, <2>5, <2>6, <2>7 DEF under
<1>2. ASSUME NEW r \in server_rows(processes, listeners, loaded, taken)
      PROVE  /\ r \in Row /\ r.endpoints # {}
             /\ r.pid \notin taken[LastPid]
             /\ \A n \in r.endpoints : <<r.pid, n>> \in listeners
  <2>1. PICK p \in owners_of(listeners) \ taken[LastPid] :
          r = row_of(p, FALSE, p \in processes /\ Leader[p] = p,
                     ports_of(listeners, p), urls_for(listeners, loaded, p))
    BY DEF server_rows
  <2>2. /\ p \in Pid /\ urls_for(listeners, loaded, p) \subseteq Port
        /\ ports_of(listeners, p) \subseteq Port /\ ports_of(listeners, p) # {}
    BY <2>1, OwnersHavePorts DEF urls_for
  <2>3. (p \in processes /\ Leader[p] = p) \in BOOLEAN
    OBVIOUS
  <2>4. r \in Row /\ r.pid = p /\ r.endpoints = ports_of(listeners, p)
    BY <2>1, <2>2, <2>3 DEF row_of, Row
  <2> QED
    BY <1>p, <2>1, <2>2, <2>4
<1> QED
  BY <1>1, <1>2

\* The kind of a row and what it lists depend on nothing but its pid.
LEMMA RowIsOfPid ==
  ASSUME NEW processes, NEW listeners, NEW loaded, NEW taken
  PROVE  /\ \A r, s \in session_rows(processes, listeners, loaded, taken) :
               r.pid = s.pid => r = s
         /\ \A r, s \in server_rows(processes, listeners, loaded, taken) :
               r.pid = s.pid => r = s
<1>1. ASSUME NEW r \in session_rows(processes, listeners, loaded, taken),
             NEW s \in session_rows(processes, listeners, loaded, taken), r.pid = s.pid
      PROVE  r = s
  <2> DEFINE of(p) == row_of(p, TRUE, FALSE,
                        UNION {ports_of(listeners, q) :
                                 q \in below(processes, listeners, taken[p - 1], p)},
                        urls_for(listeners, loaded, p))
  <2>1. PICK p, q : r = of(p) /\ s = of(q)
    BY DEF session_rows
  <2>2. r.pid = p /\ s.pid = q
    BY <2>1 DEF row_of
  <2> HIDE DEF of
  <2> QED
    BY <1>1, <2>1, <2>2
<1>2. ASSUME NEW r \in server_rows(processes, listeners, loaded, taken),
             NEW s \in server_rows(processes, listeners, loaded, taken), r.pid = s.pid
      PROVE  r = s
  <2> DEFINE of(p) == row_of(p, FALSE, p \in processes /\ Leader[p] = p,
                        ports_of(listeners, p), urls_for(listeners, loaded, p))
  <2>1. PICK p, q : r = of(p) /\ s = of(q)
    BY DEF server_rows
  <2>2. r.pid = p /\ s.pid = q
    BY <2>1 DEF row_of
  <2> HIDE DEF of
  <2> QED
    BY <1>2, <2>1, <2>2
<1> QED
  BY <1>1, <1>2

\* socket_owners names one owner of a port.
OneOwner(listeners) == \A k, l \in listeners : k[2] = l[2] => k[1] = l[1]

\* What a session has consumed includes itself and is not shown again.
LEMMA OneRowEach ==
  ASSUME NEW processes, NEW listeners \in SUBSET (Pid \X Port), NEW loaded \in SUBSET Port
  PROVE  LET S == AllRows(processes, listeners, loaded)
         IN  /\ \A r \in S : r \in Row /\ r.endpoints # {}
             /\ \A r, s \in S : r.pid = s.pid => r = s
             /\ OneOwner(listeners) =>
                   \A r, s \in S : r.endpoints \cap s.endpoints # {} => r = s
<1> DEFINE taken == consumed(processes, listeners, loaded)
<1> DEFINE A == session_rows(processes, listeners, loaded, taken)
<1> DEFINE B == server_rows(processes, listeners, loaded, taken)
<1> DEFINE under(p) == below(processes, listeners, taken[p - 1], p)
<1>t. /\ \A n \in 1..LastPid :
            taken[n] = Take(processes, listeners, loaded, n, taken[n - 1])
      /\ \A m \in 0..LastPid : \A n \in 0..m : taken[n] \subseteq taken[m]
  BY ConsumedGrows
<1>a. \A r \in A : /\ r \in Row /\ r.endpoints # {}
                   /\ is_session(processes, listeners, loaded, taken[r.pid - 1], r.pid)
                   /\ \A n \in r.endpoints : \E q \in under(r.pid) : <<q, n>> \in listeners
  <2> HIDE DEF taken
  <2> QED
    BY RowOrigin
<1>b. \A r \in B : /\ r \in Row /\ r.endpoints # {} /\ r.pid \notin taken[LastPid]
                   /\ \A n \in r.endpoints : <<r.pid, n>> \in listeners
  <2> HIDE DEF taken
  <2> QED
    BY RowOrigin
<1>3. /\ \A r, s \in A : r.pid = s.pid => r = s
      /\ \A r, s \in B : r.pid = s.pid => r = s
  BY RowIsOfPid
<1>4. AllRows(processes, listeners, loaded) = A \cup B
  BY DEF AllRows
<1>5. \A p : under(p) \cap taken[p - 1] = {}
  BY DEF below
<1> HIDE DEF taken, A, B
<1>6. ASSUME NEW r \in A
      PROVE  /\ r.pid \in 1..LastPid
             /\ r.pid \in taken[r.pid] /\ under(r.pid) \subseteq taken[r.pid]
             /\ taken[r.pid] \subseteq taken[LastPid]
  <2>1. r.pid \in Pid /\ is_session(processes, listeners, loaded, taken[r.pid - 1], r.pid)
    BY <1>a DEF Row
  <2>2. r.pid \in 1..LastPid /\ r.pid \in 0..LastPid /\ LastPid \in 0..LastPid
    BY <2>1, LastPidIsLast
  <2>3. taken[r.pid] = Take(processes, listeners, loaded, r.pid, taken[r.pid - 1])
    BY <1>t, <2>2
  <2>4. r.pid \in taken[r.pid] /\ under(r.pid) \subseteq taken[r.pid]
    BY <2>1, <2>3 DEF Take, consumes
  <2> QED
    BY <1>t, <2>2, <2>4
<1> HIDE DEF under
<1>7. \A r, s \in A \cup B : r.pid = s.pid => r = s
  BY <1>b, <1>3, <1>6
<1>8. ASSUME OneOwner(listeners), NEW r \in A \cup B, NEW s \in A \cup B,
             r.endpoints \cap s.endpoints # {}
      PROVE  r = s
  <2>1. PICK n : n \in r.endpoints /\ n \in s.endpoints
    BY <1>8
  <2>o. \A p, q : <<p, n>> \in listeners /\ <<q, n>> \in listeners => p = q
    BY <1>8 DEF OneOwner
  <2>2. ASSUME NEW x \in A, NEW y \in A, n \in x.endpoints, n \in y.endpoints, x.pid < y.pid
        PROVE  FALSE
    <3>1. PICK p \in under(x.pid), q \in under(y.pid) : <<p, n>> \in listeners /\ <<q, n>> \in listeners
      BY <1>a, <2>2
    <3>i. x.pid \in 1..LastPid /\ y.pid \in 1..LastPid /\ LastPid \in Nat
      BY <1>6, LastPidIsLast
    <3>2. y.pid - 1 \in 0..LastPid /\ x.pid \in 0..(y.pid - 1)
      BY <2>2, <3>i
    <3>4. p \in taken[x.pid]
      BY <1>6, <3>1
    <3>3. p \in taken[y.pid - 1]
      BY <1>t, <3>2, <3>4
    <3> QED
      BY <1>5, <2>o, <3>1, <3>3
  <2>3. ASSUME NEW x \in A, NEW y \in B, n \in x.endpoints, n \in y.endpoints
        PROVE  FALSE
    <3>1. PICK p \in under(x.pid) : <<p, n>> \in listeners
      BY <1>a, <2>3
    <3>2. p = y.pid
      BY <1>b, <2>o, <2>3, <3>1
    <3> QED
      BY <1>b, <1>6, <3>1, <3>2
  <2>4. CASE r \in A /\ s \in A
    <3>1. r.pid \in Nat /\ s.pid \in Nat
      BY <1>6, <2>4
    <3>2. r.pid = s.pid
      BY <2>1, <2>2, <2>4, <3>1
    <3> QED
      BY <1>7, <3>2
  <2>5. CASE r \in B /\ s \in B
    <3>1. r.pid = s.pid
      BY <1>b, <2>1, <2>o, <2>5
    <3> QED
      BY <1>7, <3>1
  <2> QED
    BY <2>1, <2>3, <2>4, <2>5
<1> QED
  BY <1>a, <1>b, <1>4, <1>7, <1>8

\* first_port and pid order the rows: no two of them tie.
LEMMA RowsAreSorted ==
  ASSUME NEW S,
         \A r \in S : r \in Row /\ r.endpoints # {},
         \A r, s \in S : r.pid = s.pid => r = s
  PROVE  /\ Cardinality(S) \in Nat
         /\ sorted(S) \in [1..Cardinality(S) -> S]
         /\ \A i, j \in 1..Cardinality(S) : i < j => row_before(sorted(S)[i], sorted(S)[j])
         /\ \A r \in S : ~row_before(r, r)
<1> DEFINE f == [r \in S |-> r.pid]
<1>1. IsFiniteSet(S)
  <2>1. f \in Injection(S, Pid)
    BY DEF Injection, IsInjective, Row
  <2>2. IsFiniteSet(Pid)
    BY DashboardAssumption
  <2> HIDE DEF f
  <2> QED
    BY <2>1, <2>2, FS_Injection
<1> HIDE DEF f
<1>2. \A r \in S : Min(r.endpoints) \in Nat /\ r.pid \in Nat
  <2> TAKE r \in S
  <2>1. r.endpoints \subseteq Nat /\ IsFiniteSet(r.endpoints) /\ r.endpoints # {}
    BY PortIsFinite, FS_Subset DEF Row
  <2>2. Min(r.endpoints) \in Nat
    BY <2>1, MinIsLeast
  <2> QED
    BY <2>2, DashboardAssumption DEF Row
<1> DEFINE R == {x \in S \X S : row_before(x[1], x[2])}
<1>3. \A x, y \in S : <<x, y>> \in R <=> row_before(x, y)
  OBVIOUS
<1>4. \A x, y \in S : row_before(x, y) <=>
         \/ Min(x.endpoints) < Min(y.endpoints)
         \/ Min(x.endpoints) = Min(y.endpoints) /\ x.pid < y.pid
  BY DEF row_before
<1> HIDE DEF R
<1>5. \A x \in S : ~row_before(x, x)
  BY <1>2, <1>4
<1>6. \A x, y, z \in S : row_before(x, y) /\ row_before(y, z) => row_before(x, z)
  BY <1>2, <1>4
<1>7. \A x, y \in S : x # y => row_before(x, y) \/ row_before(y, x)
  BY <1>2, <1>4
<1> DEFINE N == Cardinality(S)
<1> DEFINE Ordered(list) == \A i, j \in 1..N : i < j => row_before(list[i], list[j])
<1>8. \E list \in [1..N -> S] : Ordered(list)
  <2>1. PICK list \in [1..N -> S] : \A i, j \in 1..N : i < j => <<list[i], list[j]>> \in R
    <3>1. \A x \in S : <<x, x>> \notin R
      BY <1>3, <1>5
    <3>2. \A x, y, z \in S : <<x, y>> \in R /\ <<y, z>> \in R => <<x, z>> \in R
      BY <1>3, <1>6
    <3>3. \A x, y \in S : x # y => <<x, y>> \in R \/ <<y, x>> \in R
      BY <1>3, <1>7
    <3> QED
      BY <1>1, <3>1, <3>2, <3>3, SortedListExists
  <2>2. \A i \in 1..N : list[i] \in S
    BY <2>1
  <2>3. Ordered(list)
    BY <1>3, <2>1, <2>2
  <2> QED
    BY <2>1, <2>3
<1>9. sorted(S) = CHOOSE list \in [1..N -> S] : Ordered(list)
  <2>1. \A list \in [1..N -> S] :
          Ordered(list) <=> \A i, j \in DOMAIN list : i < j => row_before(list[i], list[j])
    OBVIOUS
  <2> QED
    BY <2>1 DEF sorted
<1>10. sorted(S) \in [1..N -> S] /\ Ordered(sorted(S))
  <2> HIDE DEF Ordered, N
  <2> QED
    BY <1>8, <1>9
<1> QED
  BY <1>1, <1>5, <1>10, FS_CardinalityType

\* A list over 1..n is a sequence.
LEMMA ListIsSeq ==
  ASSUME NEW n \in Nat, NEW S, NEW list \in [1..n -> S], S \subseteq Row
  PROVE  list \in Seq(Row) /\ Len(list) = n
<1>1. list = [i \in 1..n |-> list[i]]
  OBVIOUS
<1>2. \A i \in 1..n : list[i] \in Row
  OBVIOUS
<1> QED
  BY <1>1, <1>2

LEMMA BuildRows ==
  ASSUME NEW processes, NEW listeners \in SUBSET (Pid \X Port), NEW loaded \in SUBSET Port
  PROVE  LET list == build_rows(processes, listeners, loaded)
         IN  /\ list \in Seq(Row)
             /\ \A i \in 1..Len(list) : list[i] \in AllRows(processes, listeners, loaded)
             /\ \A i, j \in 1..Len(list) : list[i].pid = list[j].pid => i = j
             /\ OneOwner(listeners) =>
                   \A i, j \in 1..Len(list) :
                      list[i].endpoints \cap list[j].endpoints # {} => i = j
<1> DEFINE S == AllRows(processes, listeners, loaded)
<1> DEFINE list == sorted(S)
<1> DEFINE N == Cardinality(S)
<1>1. build_rows(processes, listeners, loaded) = list
  BY DEF build_rows, AllRows
<1>2. /\ \A r \in S : r \in Row /\ r.endpoints # {}
      /\ \A r, s \in S : r.pid = s.pid => r = s
      /\ OneOwner(listeners) =>
            \A r, s \in S : r.endpoints \cap s.endpoints # {} => r = s
  BY OneRowEach
<1>s. S = AllRows(processes, listeners, loaded)
  OBVIOUS
<1> HIDE DEF S
<1>3. /\ N \in Nat /\ list \in [1..N -> S]
      /\ \A i, j \in 1..N : i < j => row_before(list[i], list[j])
      /\ \A r \in S : ~row_before(r, r)
  BY <1>2, RowsAreSorted
<1> HIDE DEF list, N
<1>4. list \in Seq(Row) /\ Len(list) = N
  BY <1>2, <1>3, ListIsSeq
<1>5. ASSUME NEW i \in 1..N, NEW j \in 1..N, list[i] = list[j] PROVE i = j
  <2>1. list[i] \in S
    BY <1>3
  <2>2. ~(i < j) /\ ~(j < i)
    BY <1>3, <1>5, <2>1
  <2> QED
    BY <1>3, <2>2
<1>6. \A i \in 1..N : list[i] \in S
  BY <1>3
<1> QED
  BY <1>1, <1>2, <1>4, <1>5, <1>6, <1>s

-----------------------------------------------------------------------------
(* Type correctness                                                         *)

\* The parts of the state a refresh leaves alone, and those it writes.
WorldTyped ==
    /\ life \in [Pid -> {"unborn", "alive", "dead"}]
    /\ holders \in [Port -> SUBSET Pid]
    /\ opened \subseteq Port /\ served \subseteq Port
    /\ termed \subseteq Pid /\ killed \subseteq Pid
    /\ asked \subseteq Pid \X {"group", "session", "process"}

ScanTyped ==
    /\ pc \in {"keys", "listeners", "processes", "routes", "quit"}
    /\ scan \in [signature : SUBSET Port, listeners : SUBSET (Pid \X Port), processes : SUBSET Pid]
    /\ signature \subseteq Port
    /\ fresh \in BOOLEAN /\ force_scan \in BOOLEAN

TableTyped ==
    /\ rows \in Seq(Row)
    /\ IF rows = <<>> THEN selected = 1 ELSE selected \in 1..Len(rows)
    /\ routes \subseteq Port
    /\ routes_key \subseteq Pid \X Port
    /\ note \in BOOLEAN

StopsTyped ==
    /\ stopped \subseteq Pid
    /\ pending \in [pid : Pid \cup {0}, kind : {"none", "stop", "kill"}]

LEMMA TypeParts == TypeOK <=> WorldTyped /\ ScanTyped /\ TableTyped /\ StopsTyped
  BY DEF TypeOK, WorldTyped, ScanTyped, TableTyped, StopsTyped

\* The cursor is on a line of the new table.
LEMMA ReselectTyped ==
  ASSUME TableTyped, NEW list \in Seq(Row)
  PROVE  IF list = <<>> THEN reselect(list) = 1 ELSE reselect(list) \in 1..Len(list)
<1>1. CASE SelectedPid \in PidsOf(list)
  <2>1. \E i \in 1..Len(list) : list[i].pid = SelectedPid
    BY <1>1 DEF PidsOf
  <2>2. reselect(list) = CHOOSE i \in 1..Len(list) : list[i].pid = SelectedPid
    BY <1>1 DEF reselect
  <2>3. reselect(list) \in 1..Len(list)
    BY <2>1, <2>2
  <2>4. list # <<>>
    BY <2>1
  <2> QED
    BY <2>3, <2>4
<1>2. CASE SelectedPid \notin PidsOf(list) /\ list = <<>>
  BY <1>2 DEF reselect
<1>3. CASE SelectedPid \notin PidsOf(list) /\ list # <<>>
  <2>1. reselect(list) = Min({selected, Len(list)})
    BY <1>3 DEF reselect
  <2>2. selected \in Nat /\ selected >= 1
    BY DEF TableTyped
  <2>3. Len(list) \in Nat /\ Len(list) >= 1
    BY <1>3
  <2> DEFINE n == Len(list)
  <2> HIDE DEF n
  <2>4. IsFiniteSet({selected, n})
    <3>1. IsFiniteSet({n} \cup {selected})
      BY FS_Singleton, FS_AddElement
    <3>2. {selected, n} = {n} \cup {selected}
      OBVIOUS
    <3> QED
      BY <3>1, <3>2
  <2>5. {selected, n} \subseteq Nat /\ {selected, n} # {}
    BY <2>2, <2>3 DEF n
  <2>6. Min({selected, n}) \in {selected, n} /\ Min({selected, n}) <= n
    BY <2>4, <2>5, MinIsLeast
  <2>7. Min({selected, n}) \in 1..n
    BY <2>2, <2>3, <2>6 DEF n
  <2> QED
    BY <1>3, <2>1, <2>7 DEF n
<1> QED
  BY <1>1, <1>2, <1>3

LEMMA ShowTyped ==
  ASSUME TypeOK, NEW processes \in SUBSET Pid, NEW loaded \in SUBSET Port,
         Show(processes, loaded), note' \in BOOLEAN
  PROVE  TypeOK'
<1> USE TypeParts DEF Show, world, cache
<1>1. WorldTyped'
  BY DEF WorldTyped
<1>2. ScanTyped'
  BY DEF ScanTyped, NoScan
<1>3. scan.listeners \in SUBSET (Pid \X Port)
  BY DEF ScanTyped
<1>4. rows' \in Seq(Row)
  BY <1>3, BuildRows
<1>5. TableTyped'
  <2>1. IF rows' = <<>> THEN selected' = 1 ELSE selected' \in 1..Len(rows')
    BY <1>4, ReselectTyped
  <2> QED
    BY <1>3, <1>4, <2>1 DEF TableTyped
<1>6. StopsTyped'
  BY DEF StopsTyped, still_pending, NoPending
<1> QED
  BY <1>1, <1>2, <1>5, <1>6 DEF TypeOK, WorldTyped, ScanTyped, TableTyped, StopsTyped

\* A signalled process had a row, so it is one of Pid.
LEMMA ConfirmTyped ==
  ASSUME TypeOK, Confirm
  PROVE  TypeOK'
<1> USE TypeParts
<1>1. PICK i \in 1..Len(rows) :
        /\ rows[i].pid = pending.pid
        /\ IF pending.kind = "kill"
             THEN /\ killed' = killed \cup targets(rows[i])
                  /\ Die(targets(rows[i]))
                  /\ UNCHANGED <<termed, asked>>
             ELSE /\ termed' = termed \cup targets(rows[i]) \cup {pending.pid}
                  /\ asked' = asked \cup {<<pending.pid, sent_to(rows[i])>>}
                  /\ UNCHANGED <<life, holders, killed>>
  BY DEF Confirm
<1>2. rows[i] \in Row /\ pending.pid \in Pid
  <2>1. rows \in Seq(Row)
    BY DEF TableTyped
  <2>2. rows[i] \in Row
    BY <2>1
  <2> QED
    BY <1>1, <2>2 DEF Row
<1>3. targets(rows[i]) \subseteq Pid
  BY DEF targets, Alive
<1>4. UNCHANGED <<opened, served, pc, scan, table, signature, fresh>> /\ force_scan' = TRUE
  BY DEF Confirm
<1>5. WorldTyped'
  BY <1>1, <1>2, <1>3, <1>4 DEF WorldTyped, Die, sent_to
<1>6. ScanTyped'
  BY <1>4 DEF ScanTyped
<1>7. TableTyped'
  BY <1>4 DEF TableTyped, table
<1>8. StopsTyped'
  BY <1>2 DEF StopsTyped, Confirm, NoPending
<1> QED
  BY <1>5, <1>6, <1>7, <1>8 DEF TypeOK, WorldTyped, ScanTyped, TableTyped, StopsTyped

\* Spec => []TypeOK: every scan names processes and ports that exist, build_rows
\* returns rows, and whatever the keys and refreshes do the cursor is on one of them.
THEOREM DashboardTypeCorrect == Spec => []TypeOK
<1>1. Init => TypeOK
  <2> SUFFICES ASSUME Init PROVE TypeOK
    OBVIOUS
  <2> USE DEF Init
  <2>1. WorldTyped
    BY DEF WorldTyped
  <2>2. ScanTyped
    BY DEF ScanTyped, NoScan
  <2>3. TableTyped
    <3>1. rows \in Seq(Row) /\ selected = 1 /\ rows = <<>>
      BY EmptySeq
    <3> QED
      BY <3>1 DEF TableTyped
  <2>4. StopsTyped
    BY DEF StopsTyped, NoPending
  <2> QED
    BY <2>1, <2>2, <2>3, <2>4, TypeParts
<1>2. TypeOK /\ [Next]_vars => TypeOK'
  <2> SUFFICES ASSUME TypeOK, [Next]_vars PROVE TypeOK'
    OBVIOUS
  <2>0. Listeners \subseteq Pid \X Port /\ Alive \subseteq Pid /\ ListenSignature \subseteq Port
    BY ListenersTyped DEF TypeOK, Alive, ListenSignature
  <2>1. CASE RefreshStep
    <3>1. CASE ReadSignature
      BY <2>0, <3>1 DEF ReadSignature, TypeOK, world, table, stops, cache
    <3>2. CASE ReadListeners
      BY <2>0, <3>2 DEF ReadListeners, TypeOK, world, table, stops
    <3>3. CASE ReadProcesses
      <4>1. routes \in SUBSET Port /\ note' \in BOOLEAN /\ Show(Alive, routes)
        BY <3>3 DEF ReadProcesses, TypeOK
      <4> QED
        BY <2>0, <4>1, ShowTyped
    <3>4. CASE ReadProcessesFirst
      BY <2>0, <3>4 DEF ReadProcessesFirst, TypeOK, world, table, stops, cache
    <3>5. CASE LoadRoutes
      <4>1. /\ scan.processes \in SUBSET Pid /\ served \in SUBSET Port
            /\ note' \in BOOLEAN /\ Show(scan.processes, served)
        BY <3>5 DEF LoadRoutes, TypeOK
      <4> QED
        BY <4>1, ShowTyped
    <3> QED
      BY <2>1, <3>1, <3>2, <3>3, <3>4, <3>5 DEF RefreshStep
  <2>2. CASE ScanFails
    BY <2>2 DEF ScanFails, NoScan, TypeOK, world, table, stops, cache
  <2>3. CASE LoadRoutesFails
    <3>1. /\ scan.processes \in SUBSET Pid /\ {} \in SUBSET Port
          /\ note' \in BOOLEAN /\ Show(scan.processes, {})
      BY <2>3 DEF LoadRoutesFails, TypeOK
    <3> QED
      BY <3>1, ShowTyped
  <2>4. CASE Age
    BY <2>4 DEF Age, TypeOK, world, table, stops
  <2>5. CASE Keys
    <3>1. ASSUME NEW key \in {"Up", "Down", "Home", "End"}, Move(key) PROVE TypeOK'
      <4>1. IF rows = <<>> THEN selected' = 1 ELSE selected' \in 1..Len(rows)
        <5>1. Len(rows) \in Nat /\ (rows = <<>> <=> Len(rows) = 0)
          BY DEF TypeOK
        <5>2. selected' = Line(key)
          BY <3>1 DEF Move
        <5>3. IF rows = <<>> THEN selected = 1 ELSE selected \in 1..Len(rows)
          BY DEF TypeOK
        <5> QED
          BY <5>1, <5>2, <5>3 DEF Line
      <4>2. UNCHANGED <<world, pc, scan, rows, routes, routes_key, note, stops, cache>>
        BY <3>1 DEF Move
      <4> QED
        BY <4>1, <4>2 DEF TypeOK, world, stops, cache
    <3>2. CASE AskStop
      <4>1. rows[selected] \in Row
        BY <3>2 DEF AskStop, TypeOK
      <4>2. pending' \in [pid : Pid \cup {0}, kind : {"none", "stop", "kill"}]
        BY <3>2, <4>1 DEF AskStop, kind_for, Row
      <4> QED
        BY <3>2, <4>2 DEF AskStop, TypeOK, world, table, cache
    <3>3. CASE Cancel
      BY <3>3 DEF Cancel, NoPending, TypeOK, world, table, cache
    <3>4. CASE Confirm
      BY <3>4, ConfirmTyped
    <3>5. CASE Refresh
      BY <3>5 DEF Refresh, TypeOK, world, table, stops
    <3>6. CASE Quit
      BY <3>6 DEF Quit, TypeOK, world, table, stops, cache
    <3> QED
      BY <2>5, <3>1, <3>2, <3>3, <3>4, <3>5, <3>6 DEF Keys
  <2>6. CASE World
    <3> SUFFICES ASSUME NEW p \in Pid,
                        \/ Starts(p) \/ Listens(p) \/ Publishes(p)
                        \/ Exits(p) \/ SessionExits(p) \/ RouteGoes(p)
                 PROVE  TypeOK'
      BY <2>6 DEF World
    <3>0. PortOf[p] \in Port
      BY DEF Port
    <3> USE DEF table, stops, cache
    <3>1. CASE Starts(p)
      BY <3>1 DEF Starts, TypeOK
    <3>2. CASE Listens(p)
      BY <3>0, <3>2 DEF Listens, TypeOK
    <3>3. CASE Publishes(p)
      BY <3>0, <3>3 DEF Publishes, TypeOK
    <3>4. CASE Exits(p)
      BY <3>4 DEF Exits, Die, TypeOK
    <3>5. CASE SessionExits(p)
      BY <3>5 DEF SessionExits, Die, TypeOK
    <3>6. CASE RouteGoes(p)
      BY <3>6 DEF RouteGoes, TypeOK
    <3> QED
      BY <3>1, <3>2, <3>3, <3>4, <3>5, <3>6
  <2>7. CASE UNCHANGED vars
    BY <2>7 DEF vars, TypeOK, world, table, stops, cache
  <2> QED
    BY <2>1, <2>2, <2>3, <2>4, <2>5, <2>6, <2>7 DEF Next
<1> QED
  BY <1>1, <1>2, PTL DEF Spec

-----------------------------------------------------------------------------
(* The table and the cursor                                                 *)

\* The rows change at the end of a refresh and nowhere else.
LEMMA RowsComeFromShow ==
  ASSUME Next, rows' # rows
  PROVE  \/ ReadProcesses /\ Show(Alive, routes)
         \/ LoadRoutes /\ Show(scan.processes, served)
         \/ LoadRoutesFails /\ Show(scan.processes, {})
<1> USE DEF table
<1>1. CASE RefreshStep
  BY <1>1 DEF RefreshStep, ReadSignature, ReadListeners, ReadProcesses, ReadProcessesFirst, LoadRoutes
<1>2. CASE ScanFails
  BY <1>2 DEF ScanFails
<1>3. CASE LoadRoutesFails
  BY <1>3 DEF LoadRoutesFails
<1>4. CASE Age
  BY <1>4 DEF Age
<1>5. CASE Keys
  <2>1. ASSUME NEW key, Move(key) PROVE FALSE
    BY <2>1 DEF Move
  <2>2. CASE AskStop \/ Cancel \/ Confirm \/ Refresh \/ Quit
    BY <2>2 DEF AskStop, Cancel, Confirm, Refresh, Quit
  <2> QED
    BY <1>5, <2>1, <2>2 DEF Keys
<1>6. CASE World
  BY <1>6 DEF World, Starts, Listens, Publishes, Exits, SessionExits, RouteGoes
<1> QED
  BY <1>1, <1>2, <1>3, <1>4, <1>5, <1>6 DEF Next

\* The listeners of a scan are those of the moment they were read.
LEMMA ScanSteps ==
  ASSUME TypeOK, [Next]_vars
  PROVE  \/ scan'.listeners = scan.listeners
         \/ scan'.listeners = Listeners
         \/ scan' = NoScan
<1>1. CASE RefreshStep
  BY <1>1 DEF RefreshStep, ReadSignature, ReadListeners, ReadProcesses, ReadProcessesFirst,
              LoadRoutes, Show, TypeOK
<1>2. CASE ScanFails \/ LoadRoutesFails
  BY <1>2 DEF ScanFails, LoadRoutesFails, Show
<1>3. CASE Age \/ UNCHANGED vars
  BY <1>3 DEF Age, vars
<1>4. CASE Keys
  <2>1. ASSUME NEW key, Move(key) PROVE scan' = scan
    BY <2>1 DEF Move
  <2>2. CASE AskStop \/ Cancel \/ Confirm \/ Refresh \/ Quit
    BY <2>2 DEF AskStop, Cancel, Confirm, Refresh, Quit
  <2> QED
    BY <1>4, <2>1, <2>2 DEF Keys
<1>5. CASE World
  BY <1>5 DEF World, Starts, Listens, Publishes, Exits, SessionExits, RouteGoes
<1> QED
  BY <1>1, <1>2, <1>3, <1>4, <1>5 DEF Next

\* Spec => []OneRowPerProcess: for any tree, sockets and routes build_rows lists a
\* process once, so that a stop finds the row that was asked about.
THEOREM DashboardOneRowPerProcess == Spec => []OneRowPerProcess
<1>1. Init => OneRowPerProcess
  BY DEF Init, OneRowPerProcess
<1>2. TypeOK /\ OneRowPerProcess /\ [Next]_vars => OneRowPerProcess'
  <2> SUFFICES ASSUME TypeOK, OneRowPerProcess, [Next]_vars PROVE OneRowPerProcess'
    OBVIOUS
  <2>1. CASE rows' = rows
    BY <2>1 DEF OneRowPerProcess
  <2>2. CASE rows' # rows
    <3>1. Next
      BY <2>2 DEF vars, table
    <3>2. PICK processes : \E loaded \in SUBSET Port : Show(processes, loaded)
      <4>1. routes \in SUBSET Port /\ served \in SUBSET Port /\ {} \in SUBSET Port
        BY DEF TypeOK
      <4> QED
        BY <2>2, <3>1, <4>1, RowsComeFromShow
    <3>3. PICK loaded \in SUBSET Port : rows' = build_rows(processes, scan.listeners, loaded)
      BY <3>2 DEF Show
    <3>4. scan.listeners \in SUBSET (Pid \X Port)
      BY DEF TypeOK
    <3> QED
      BY <3>3, <3>4, BuildRows DEF OneRowPerProcess
  <2> QED
    BY <2>1, <2>2
<1> QED
  BY <1>1, <1>2, DashboardTypeCorrect, PTL DEF Spec

\* Spec => []PortListedOnce: the ports of the processes below a session are listed
\* with the session and nowhere else.
THEOREM DashboardPortListedOnce == Spec => []PortListedOnce
<1> DEFINE Inv == OneOwner(scan.listeners) /\ PortListedOnce
<1>1. Init => Inv
  BY DEF Init, NoScan, OneOwner, PortListedOnce
<1>2. TypeOK /\ Inv /\ [Next]_vars => Inv'
  <2> SUFFICES ASSUME TypeOK, Inv, [Next]_vars PROVE Inv'
    OBVIOUS
  <2>1. OneOwner(scan.listeners)'
    <3>1. \/ scan'.listeners = scan.listeners
          \/ scan'.listeners = Listeners
          \/ scan' = NoScan
      BY ScanSteps
    <3>2. OneOwner(Listeners) /\ OneOwner(NoScan.listeners)
      BY DEF Listeners, NoScan, OneOwner
    <3>3. scan'.listeners \in {scan.listeners, Listeners, NoScan.listeners}
      BY <3>1
    <3>4. OneOwner(scan'.listeners)
      BY <3>2, <3>3
    <3> QED
      BY <3>4 DEF OneOwner
  <2>2. PortListedOnce'
    <3>1. CASE rows' = rows
      BY <3>1 DEF PortListedOnce
    <3>2. CASE rows' # rows
      <4>1. Next
        BY <3>2 DEF vars, table
      <4>2. PICK processes : \E loaded \in SUBSET Port : Show(processes, loaded)
        <5>1. routes \in SUBSET Port /\ served \in SUBSET Port /\ {} \in SUBSET Port
          BY DEF TypeOK
        <5> QED
          BY <3>2, <4>1, <5>1, RowsComeFromShow
      <4>3. PICK loaded \in SUBSET Port : rows' = build_rows(processes, scan.listeners, loaded)
        BY <4>2 DEF Show
      <4>4. scan.listeners \in SUBSET (Pid \X Port)
        BY DEF TypeOK
      <4> QED
        BY <4>3, <4>4, BuildRows DEF PortListedOnce
    <3> QED
      BY <3>1, <3>2
  <2> QED
    BY <2>1, <2>2
<1>3. Inv => PortListedOnce
  OBVIOUS
<1> QED
  BY <1>1, <1>2, <1>3, DashboardTypeCorrect, PTL DEF Spec

\* A refresh drops the question about a row that is gone.
LEMMA ShowKeepsQuestion ==
  ASSUME NEW processes, NEW loaded, Show(processes, loaded)
  PROVE  QuestionHasRow'
<1>1. \/ pending' = pending /\ pending.pid \in PidsOf(rows')
     \/ pending' = NoPending
  BY DEF Show, still_pending
<1>2. PidsOf(rows') = RowPids'
  BY DEF PidsOf, RowPids
<1>3. NoPending' = NoPending
  BY DEF NoPending
<1> QED
  BY <1>1, <1>2, <1>3 DEF QuestionHasRow

\* Spec => []QuestionHasRow: State::refresh never leaves a question on the screen
\* about a process that is no longer listed.
THEOREM DashboardQuestionHasRow == Spec => []QuestionHasRow
<1>1. Init => QuestionHasRow
  BY DEF Init, QuestionHasRow
<1>2. QuestionHasRow /\ [Next]_vars => QuestionHasRow'
  <2> SUFFICES ASSUME QuestionHasRow, [Next]_vars PROVE QuestionHasRow'
    OBVIOUS
  <2>k. ASSUME rows' = rows, pending' = pending, pc' = "quit" \/ pc # "quit"
        PROVE  QuestionHasRow'
    BY <2>k DEF QuestionHasRow, RowPids, NoPending
  <2>n. ASSUME pending' = NoPending PROVE QuestionHasRow'
    BY <2>n DEF QuestionHasRow, NoPending
  <2> USE DEF table, stops
  <2>1. CASE RefreshStep
    <3>1. CASE ReadProcesses \/ LoadRoutes
      BY <3>1, ShowKeepsQuestion DEF ReadProcesses, LoadRoutes
    <3>2. CASE ReadSignature \/ ReadListeners \/ ReadProcessesFirst
      BY <3>2, <2>k DEF ReadSignature, ReadListeners, ReadProcessesFirst
    <3> QED
      BY <2>1, <3>1, <3>2 DEF RefreshStep
  <2>2. CASE ScanFails
    BY <2>2, <2>k DEF ScanFails
  <2>3. CASE LoadRoutesFails
    BY <2>3, ShowKeepsQuestion DEF LoadRoutesFails
  <2>4. CASE Age
    BY <2>4, <2>k DEF Age
  <2>5. CASE Keys
    <3>1. ASSUME NEW key, Move(key) PROVE QuestionHasRow'
      BY <3>1, <2>k DEF Move
    <3>2. CASE AskStop
      <4>1. selected \in 1..Len(rows) /\ pending'.pid = rows[selected].pid /\ rows' = rows
        BY <3>2 DEF AskStop
      <4> QED
        BY <4>1 DEF QuestionHasRow, RowPids
    <3>3. CASE Cancel \/ Confirm
      BY <3>3, <2>n DEF Cancel, Confirm
    <3>4. CASE Refresh \/ Quit
      BY <3>4, <2>k DEF Refresh, Quit
    <3> QED
      BY <2>5, <3>1, <3>2, <3>3, <3>4 DEF Keys
  <2>6. CASE World
    BY <2>6, <2>k DEF World, Starts, Listens, Publishes, Exits, SessionExits, RouteGoes
  <2>7. CASE UNCHANGED vars
    BY <2>7 DEF vars, QuestionHasRow, RowPids, NoPending
  <2> QED
    BY <2>1, <2>2, <2>3, <2>4, <2>5, <2>6, <2>7 DEF Next
<1> QED
  BY <1>1, <1>2, PTL DEF Spec

\* Spec => CursorStays: reselect() finds the process under the cursor in any new
\* table that lists it, wherever its row has moved.
THEOREM DashboardCursorStays == Spec => CursorStays
<1> DEFINE Step ==
      \A p \in RowPids :
         rows' # rows /\ p = SelectedPid /\ p \in {rows'[i].pid : i \in 1..Len(rows')}
            => SelectedPid' = p
<1>1. [Next]_vars => [Step]_vars
  <2> SUFFICES ASSUME Next, rows' # rows,
                      SelectedPid \in {rows'[i].pid : i \in 1..Len(rows')}
               PROVE  SelectedPid' = SelectedPid
    OBVIOUS
  <2>1. SelectedPid \in PidsOf(rows') /\ selected' = reselect(rows')
    BY RowsComeFromShow DEF Show, PidsOf
  <2>2. selected' = CHOOSE i \in 1..Len(rows') : rows'[i].pid = SelectedPid
    BY <2>1 DEF reselect
  <2>3. selected' \in 1..Len(rows') /\ rows'[selected'].pid = SelectedPid
    BY <2>2
  <2>4. SelectedPid' = rows'[selected'].pid
    BY <2>3 DEF SelectedPid
  <2> QED
    BY <2>3, <2>4
<1> QED
  BY <1>1, PTL DEF Spec, CursorStays

-----------------------------------------------------------------------------
(* Stops and force-kills                                                    *)

\* Only the row of a process that the table has, and that leads its group, is a group.
LEMMA RowKind ==
  ASSUME NEW processes, NEW listeners, NEW loaded,
         NEW r \in AllRows(processes, listeners, loaded)
  PROVE  /\ r.pid \in owners_of(listeners)
         /\ r.group => ~r.session /\ r.pid \in processes /\ Leader[r.pid] = r.pid
         /\ ~r.session /\ ~r.group => r.pid \notin processes \/ Leader[r.pid] # r.pid
<1> DEFINE taken == consumed(processes, listeners, loaded)
<1>1. CASE r \in session_rows(processes, listeners, loaded, taken)
  <2>1. PICK p, ports, urls :
          p \in owners_of(listeners) /\ r = row_of(p, TRUE, FALSE, ports, urls)
    BY <1>1 DEF session_rows
  <2> QED
    BY <2>1 DEF row_of
<1>2. CASE r \in server_rows(processes, listeners, loaded, taken)
  <2>1. PICK p, ports, urls :
          /\ p \in owners_of(listeners)
          /\ r = row_of(p, FALSE, p \in processes /\ Leader[p] = p, ports, urls)
    BY <1>2 DEF server_rows
  <2> QED
    BY <2>1 DEF row_of
<1> QED
  BY <1>1, <1>2 DEF AllRows

\* A holder of a socket is alive, and whoever a scan found listening has started; if
\* the process table read after it does not have it, it is dead.
ScanInv ==
    /\ \A n \in Port : \A p \in holders[n] : life[p] = "alive"
    /\ \A p \in owners_of(scan.listeners) : life[p] # "unborn"
    /\ pc = "routes" =>
          \A p \in owners_of(scan.listeners) : p \in scan.processes \/ life[p] = "dead"
    /\ pc \in {"keys", "listeners", "processes"} => scan.processes = {}

\* socket_owners names a process that is alive.
LEMMA OwnersAlive ==
  ASSUME TypeOK, \A n \in Port : \A p \in holders[n] : life[p] = "alive"
  PROVE  \A p \in owners_of(Listeners) : life[p] = "alive"
<1>1. ASSUME NEW n \in Port, holders[n] # {} PROVE life[Min(holders[n])] = "alive"
  <2>1. holders[n] \subseteq Nat /\ IsFiniteSet(holders[n])
    <3>1. holders[n] \subseteq Pid
      BY DEF TypeOK
    <3> QED
      BY <3>1, FS_Subset, DashboardAssumption
  <2>2. Min(holders[n]) \in holders[n]
    BY <1>1, <2>1, MinIsLeast
  <2> QED
    BY <2>2
<1> QED
  BY <1>1 DEF Listeners, owners_of

\* So a server row that leads its group is a group, unless its process is dead.
KindInv ==
    \A i \in 1..Len(rows) :
        LET p == rows[i].pid
        IN  /\ rows[i].group => ~rows[i].session /\ Leader[p] = p
            /\ ~rows[i].session /\ ~rows[i].group => Leader[p] # p \/ life[p] = "dead"

\* No force-kill of p can reach its group any more.
Groupless(p) ==
    \/ Leader[p] # p
    \/ /\ life[p] = "dead" /\ p \notin scan.processes
       /\ \A i \in 1..Len(rows) : rows[i].pid = p => ~rows[i].group

Answered(p) ==
    /\ p \in termed
    /\ Groupless(p) \/ \E whom \in {"group", "session"} : <<p, whom>> \in asked

\* A stop that was confirmed was sent, to the group if there is one.
AskedInv ==
    /\ \A p \in stopped : Answered(p)
    /\ pending.kind = "kill" => Answered(pending.pid)

KillInv ==
    /\ TypeOK /\ OneRowPerProcess
    /\ ScanInv /\ KindInv /\ AskedInv /\ KillFollowsStop

\* What the world does to processes: the dead stay dead, sockets go to the living.
WorldGoesOn ==
    /\ \A p \in Pid : life[p] = "dead" => life'[p] = "dead"
    /\ \A p \in Pid : life[p] # "unborn" => life'[p] # "unborn"
    /\ \A n \in Port : \A p \in holders'[n] : life'[p] = "alive"

LEMMA RowsHavePids ==
  ASSUME TypeOK
  PROVE  \A i \in 1..Len(rows) : rows[i] \in Row /\ rows[i].pid \in Pid
<1>1. rows \in Seq(Row)
  BY DEF TypeOK
<1>2. \A i \in 1..Len(rows) : rows[i] \in Row
  BY <1>1
<1> QED
  BY <1>2 DEF Row

\* Steps of the world, and of the keys but for a confirmed stop, change no row.
LEMMA KeptByWorld ==
  ASSUME KillInv, WorldGoesOn, UNCHANGED <<scan, rows, termed, asked, killed>>,
         pc' = pc \/ pc' = "quit",
         stopped' = stopped, pending' = pending
  PROVE  ScanInv' /\ KindInv' /\ AskedInv' /\ KillFollowsStop'
<1>1. owners_of(scan.listeners) \subseteq Pid /\ stopped \subseteq Pid
  BY OwnersHavePorts DEF KillInv, TypeOK
<1>2. \A i \in 1..Len(rows) : rows[i].pid \in Pid
  BY RowsHavePids DEF KillInv
<1>3. ScanInv'
  BY <1>1 DEF KillInv, ScanInv, WorldGoesOn
<1>4. KindInv'
  BY <1>2 DEF KillInv, KindInv, WorldGoesOn
<1>5. ASSUME NEW p \in Pid, Answered(p) PROVE Answered(p)'
  BY <1>5 DEF Answered, Groupless, WorldGoesOn
<1>6. pending.kind = "kill" => pending.pid \in Pid
  BY DEF KillInv, AskedInv, Answered, TypeOK
<1>7. AskedInv'
  BY <1>1, <1>5, <1>6 DEF KillInv, AskedInv
<1> QED
  BY <1>3, <1>4, <1>7 DEF KillInv, KillFollowsStop

\* A refresh under way reads sockets and processes, and changes no row.
LEMMA ScanKeepsKill ==
  ASSUME KillInv, ReadSignature \/ ScanFails \/ ReadListeners \/ ReadProcessesFirst
  PROVE  ScanInv' /\ KindInv' /\ AskedInv' /\ KillFollowsStop'
<1> USE DEF world, table, stops, cache
<1>1. UNCHANGED <<life, holders, rows, termed, asked, killed, stopped, pending>>
  BY DEF ReadSignature, ScanFails, ReadListeners, ReadProcessesFirst
<1>2. \A p \in Pid : p \in scan'.processes => p \in scan.processes \/ life[p] = "alive"
  BY DEF ReadSignature, ScanFails, ReadListeners, ReadProcessesFirst, NoScan, Alive, KillInv, TypeOK
<1>3. ASSUME NEW p \in Pid, Answered(p) PROVE Answered(p)'
  BY <1>1, <1>2, <1>3 DEF Answered, Groupless
<1>4. stopped \subseteq Pid /\ (pending.kind = "kill" => pending.pid \in Pid)
  BY DEF KillInv, AskedInv, Answered, TypeOK
<1>5. AskedInv'
  BY <1>1, <1>3, <1>4 DEF KillInv, AskedInv
<1>6. KindInv' /\ KillFollowsStop'
  BY <1>1 DEF KillInv, KindInv, KillFollowsStop
<1>7. ScanInv'
  <2>1. CASE ReadSignature
    BY <2>1 DEF ReadSignature, KillInv, ScanInv, TypeOK
  <2>2. CASE ScanFails
    BY <2>2 DEF ScanFails, KillInv, ScanInv, NoScan, owners_of
  <2>3. CASE ReadListeners
    <3>1. scan'.listeners = Listeners /\ scan'.processes = scan.processes /\ pc' = "processes"
      BY <2>3 DEF ReadListeners, KillInv, TypeOK
    <3>2. pc = "listeners" /\ scan.processes = {}
      BY <2>3 DEF ReadListeners, KillInv, ScanInv
    <3>3. \A p \in owners_of(Listeners) : life[p] = "alive"
      BY OwnersAlive DEF KillInv, ScanInv
    <3> QED
      BY <1>1, <3>1, <3>2, <3>3 DEF KillInv, ScanInv
  <2>4. CASE ReadProcessesFirst
    <3>1. /\ scan'.listeners = scan.listeners /\ scan'.processes = Alive /\ pc' = "routes"
      BY <2>4 DEF ReadProcessesFirst, KillInv, TypeOK
    <3>2. owners_of(scan.listeners) \subseteq Pid
      BY OwnersHavePorts DEF KillInv, TypeOK
    <3>3. \A p \in owners_of(scan.listeners) : p \in Alive \/ life[p] = "dead"
      BY <3>2 DEF Alive, KillInv, ScanInv, TypeOK
    <3> QED
      BY <1>1, <3>1, <3>3 DEF KillInv, ScanInv
  <2> QED
    BY <2>1, <2>2, <2>3, <2>4
<1> QED
  BY <1>5, <1>6, <1>7

\* The new rows of a refresh: a process whose stop reached no group was dead before
\* the refresh began, and is in no table that it read.
LEMMA ShowKeepsKill ==
  ASSUME KillInv, NEW processes, NEW loaded \in SUBSET Port, Show(processes, loaded),
         \/ pc = "processes" /\ processes = Alive
         \/ pc = "routes" /\ processes = scan.processes
  PROVE  ScanInv' /\ KindInv' /\ AskedInv' /\ KillFollowsStop'
<1>1. /\ UNCHANGED <<life, holders, termed, asked, killed>>
      /\ scan' = NoScan /\ pc' = "keys"
      /\ stopped' \subseteq stopped
      /\ pending' = pending \/ pending' = NoPending
  BY DEF Show, world, still_pending
<1>2. /\ rows' = build_rows(processes, scan.listeners, loaded)
      /\ scan.listeners \in SUBSET (Pid \X Port)
  BY DEF Show, KillInv, TypeOK
<1>3. \A i \in 1..Len(rows') : rows'[i] \in AllRows(processes, scan.listeners, loaded)
  BY <1>2, BuildRows
<1>4. ASSUME NEW i \in 1..Len(rows')
      PROVE  LET w == rows'[i]
             IN  /\ w.pid \in owners_of(scan.listeners)
                 /\ w.group => ~w.session /\ w.pid \in processes /\ Leader[w.pid] = w.pid
                 /\ ~w.session /\ ~w.group => w.pid \notin processes \/ Leader[w.pid] # w.pid
  BY <1>3, RowKind
<1>5. \A p \in owners_of(scan.listeners) : p \in processes \/ life[p] = "dead"
  <2>1. owners_of(scan.listeners) \subseteq Pid
    BY <1>2, OwnersHavePorts
  <2> QED
    BY <2>1 DEF Alive, KillInv, ScanInv, TypeOK
<1>6. KindInv'
  BY <1>1, <1>4, <1>5 DEF KindInv
<1>7. ASSUME NEW p, Answered(p) PROVE Answered(p)'
  <2>1. life[p] = "dead" /\ p \notin scan.processes => p \notin processes
    BY DEF Alive
  <2>2. p \notin NoScan.processes
    BY DEF NoScan
  <2> QED
    BY <1>1, <1>4, <1>7, <2>1, <2>2 DEF Answered, Groupless
<1>8. AskedInv'
  BY <1>1, <1>7 DEF KillInv, AskedInv, NoPending
<1>9. ScanInv'
  BY <1>1 DEF KillInv, ScanInv, NoScan, owners_of
<1> QED
  BY <1>1, <1>6, <1>8, <1>9 DEF KillInv, KillFollowsStop

\* Signals are sent here only.  The row found is the one of the question, and a
\* force-kill of a group is one whose stop went to the group or to a session.
LEMMA ConfirmKeepsKill ==
  ASSUME KillInv, Confirm
  PROVE  ScanInv' /\ KindInv' /\ AskedInv' /\ KillFollowsStop'
<1>0. PICK q : q = pending.pid
  OBVIOUS
<1>1. PICK i \in 1..Len(rows) :
        /\ rows[i].pid = q
        /\ IF pending.kind = "kill"
             THEN /\ killed' = killed \cup targets(rows[i])
                  /\ Die(targets(rows[i]))
                  /\ UNCHANGED <<termed, asked>>
             ELSE /\ termed' = termed \cup targets(rows[i]) \cup {q}
                  /\ asked' = asked \cup {<<q, sent_to(rows[i])>>}
                  /\ UNCHANGED <<life, holders, killed>>
  BY <1>0 DEF Confirm
<1>2. /\ pc = "keys" /\ UNCHANGED <<pc, scan, rows>>
      /\ stopped' = stopped \cup {q} /\ pending' = NoPending
  BY <1>0 DEF Confirm, table
<1>3. q \in Pid /\ stopped \subseteq Pid /\ scan.processes = {}
  BY <1>1, <1>2, RowsHavePids DEF KillInv, ScanInv, TypeOK
<1>4. \A j \in 1..Len(rows) : rows[j].pid = q => j = i
  BY <1>1 DEF KillInv, OneRowPerProcess
<1>5. CASE pending.kind = "kill"
  <2>1. Answered(q)
    BY <1>0, <1>5 DEF KillInv, AskedInv
  <2>2. \A p \in targets(rows[i]) : p \in termed \/ \E whom \in {"group", "session"} : <<Leader[p], whom>> \in asked
    <3>1. CASE ~rows[i].group
      BY <1>1, <2>1, <3>1 DEF targets, Answered
    <3>2. CASE rows[i].group
      <4>1. Leader[q] = q
        BY <1>1, <3>2 DEF KillInv, KindInv
      <4>2. \E whom \in {"group", "session"} : <<q, whom>> \in asked
        BY <1>1, <2>1, <3>2, <4>1 DEF Answered, Groupless
      <4> QED
        BY <1>1, <3>2, <4>2 DEF targets
    <3> QED
      BY <3>1, <3>2
  <2>3. KillFollowsStop'
    BY <1>1, <1>5, <2>2 DEF KillInv, KillFollowsStop
  <2>4. /\ life' = [p \in Pid |-> IF p \in targets(rows[i]) THEN "dead" ELSE life[p]]
        /\ holders' = [n \in Port |-> holders[n] \ targets(rows[i])]
        /\ UNCHANGED <<termed, asked>>
    BY <1>1, <1>5 DEF Die
  <2>5. \A p \in Pid : life'[p] = life[p] \/ life'[p] = "dead"
    BY <2>4
  <2>6. owners_of(scan.listeners) \subseteq Pid
    BY OwnersHavePorts DEF KillInv, TypeOK
  <2>7. ScanInv'
    <3>1. \A n \in Port : \A p \in holders'[n] : life'[p] = "alive"
      BY <2>4 DEF KillInv, ScanInv, TypeOK
    <3> QED
      BY <1>2, <2>5, <2>6, <3>1 DEF KillInv, ScanInv
  <2>8. KindInv'
    BY <1>2, <2>5, RowsHavePids DEF KillInv, KindInv
  <2>9. \A p \in Pid : Answered(p) => Answered(p)'
    BY <1>2, <2>4, <2>5 DEF Answered, Groupless
  <2>10. AskedInv'
    BY <1>2, <1>3, <2>1, <2>9 DEF KillInv, AskedInv, NoPending
  <2> QED
    BY <2>3, <2>7, <2>8, <2>10
<1>6. CASE pending.kind # "kill"
  <2>1. /\ UNCHANGED <<life, holders, killed>> /\ termed \subseteq termed' /\ asked \subseteq asked'
        /\ q \in termed' /\ <<q, sent_to(rows[i])>> \in asked'
    BY <1>1, <1>6
  <2>2. ScanInv' /\ KindInv' /\ KillFollowsStop'
    BY <1>2, <2>1 DEF KillInv, ScanInv, KindInv, KillFollowsStop
  <2>3. \A p : Answered(p) => Answered(p)'
    BY <1>2, <2>1 DEF Answered, Groupless
  <2>4. Answered(q)'
    <3>1. CASE rows[i].group \/ rows[i].session
      BY <2>1, <3>1 DEF sent_to, Answered
    <3>2. CASE ~rows[i].group /\ ~rows[i].session
      <4>1. Leader[q] # q \/ life[q] = "dead"
        BY <1>1, <3>2 DEF KillInv, KindInv
      <4> QED
        BY <1>2, <1>3, <1>4, <2>1, <3>2, <4>1 DEF Answered, Groupless
    <3> QED
      BY <3>1, <3>2
  <2>5. AskedInv'
    BY <1>2, <2>3, <2>4 DEF KillInv, AskedInv, NoPending
  <2> QED
    BY <2>2, <2>5
<1> QED
  BY <1>5, <1>6

LEMMA NextKill == KillInv /\ [Next]_vars /\ TypeOK' /\ OneRowPerProcess' => KillInv'
<1> SUFFICES ASSUME KillInv, [Next]_vars
             PROVE  ScanInv' /\ KindInv' /\ AskedInv' /\ KillFollowsStop'
  BY DEF KillInv
<1> USE DEF world, table, stops, cache
<1>t. TypeOK /\ ScanInv
  BY DEF KillInv
<1>1. CASE RefreshStep \/ ScanFails \/ LoadRoutesFails
  <2>1. CASE ReadSignature \/ ScanFails \/ ReadListeners \/ ReadProcessesFirst
    BY <2>1, ScanKeepsKill
  <2>2. CASE ReadProcesses \/ LoadRoutes \/ LoadRoutesFails
    <3>1. \E processes : \E loaded \in SUBSET Port :
            /\ Show(processes, loaded)
            /\ \/ pc = "processes" /\ processes = Alive
               \/ pc = "routes" /\ processes = scan.processes
      <4>1. routes \in SUBSET Port /\ served \in SUBSET Port /\ {} \in SUBSET Port
        BY <1>t DEF TypeOK
      <4>2. CASE ReadProcesses
        BY <4>1, <4>2 DEF ReadProcesses
      <4>3. CASE LoadRoutes
        BY <4>1, <4>3 DEF LoadRoutes
      <4>4. CASE LoadRoutesFails
        BY <4>1, <4>4 DEF LoadRoutesFails
      <4> QED
        BY <2>2, <4>2, <4>3, <4>4
    <3> QED
      BY <3>1, ShowKeepsKill
  <2> QED
    BY <1>1, <2>1, <2>2 DEF RefreshStep
<1>2. CASE Confirm
  BY <1>2, ConfirmKeepsKill
<1>3. CASE AskStop
  <2>1. UNCHANGED <<life, holders, scan, rows, termed, asked, killed, pc, stopped>>
    BY <1>3 DEF AskStop
  <2>2. pending'.kind = "kill" => pending'.pid \in stopped
    BY <1>3 DEF AskStop, kind_for
  <2>3. \A p : Answered(p) => Answered(p)'
    BY <2>1 DEF Answered, Groupless
  <2>4. AskedInv'
    BY <2>1, <2>2, <2>3 DEF KillInv, AskedInv
  <2> QED
    BY <2>1, <2>4 DEF KillInv, ScanInv, KindInv, KillFollowsStop
<1>4. CASE Cancel
  <2>1. UNCHANGED <<life, holders, scan, rows, termed, asked, killed, pc, stopped>> /\ pending' = NoPending
    BY <1>4 DEF Cancel
  <2>3. \A p : Answered(p) => Answered(p)'
    BY <2>1 DEF Answered, Groupless
  <2>4. AskedInv'
    BY <2>1, <2>3 DEF KillInv, AskedInv, NoPending
  <2> QED
    BY <2>1, <2>4 DEF KillInv, ScanInv, KindInv, KillFollowsStop
<1>5. CASE Age \/ (\E key \in {"Up", "Down", "Home", "End"} : Move(key)) \/ Refresh \/ Quit \/ UNCHANGED vars
  <2>1. /\ UNCHANGED <<life, holders, scan, rows, termed, asked, killed, stopped, pending>>
        /\ pc' = pc \/ pc' = "quit"
    BY <1>5 DEF Age, Move, Refresh, Quit, vars
  <2>2. WorldGoesOn
    BY <1>t, <2>1 DEF WorldGoesOn, ScanInv
  <2> QED
    BY <2>1, <2>2, KeptByWorld
<1>6. CASE World
  <2>1. /\ UNCHANGED <<scan, rows, termed, asked, killed, stopped, pending, pc>>
    BY <1>6 DEF World, Starts, Listens, Publishes, Exits, SessionExits, RouteGoes
  <2>2. PICK p \in Pid : \/ Starts(p) \/ Listens(p) \/ Publishes(p)
                         \/ Exits(p) \/ SessionExits(p) \/ RouteGoes(p)
    BY <1>6 DEF World
  <2>3. WorldGoesOn
    <3> USE <1>t DEF TypeOK, ScanInv, WorldGoesOn
    <3>1. CASE Starts(p)
      BY <3>1 DEF Starts
    <3>2. CASE Listens(p)
      BY <3>2 DEF Listens, Alive
    <3>3. CASE Publishes(p) \/ RouteGoes(p)
      BY <3>3 DEF Publishes, RouteGoes
    <3>4. CASE Exits(p) \/ SessionExits(p)
      BY <3>4 DEF Exits, SessionExits, Die
    <3> QED
      BY <2>2, <3>1, <3>2, <3>3, <3>4
  <2> QED
    BY <2>1, <2>3, KeptByWorld
<1> QED
  BY <1>1, <1>2, <1>3, <1>4, <1>5, <1>6 DEF Next, Keys

\* Spec => []KillFollowsStop: whatever happens to processes, groups, sockets and
\* rows between two stops, State::handle force-kills a group only after its stop
\* was sent to the group or to the session that led it, and a process only after
\* its stop was sent to it.
THEOREM DashboardKillFollowsStop == Spec => []KillFollowsStop
<1>1. Init /\ TypeOK /\ OneRowPerProcess => KillInv
  <2> SUFFICES ASSUME Init, TypeOK, OneRowPerProcess
               PROVE  ScanInv /\ KindInv /\ AskedInv /\ KillFollowsStop
    BY DEF KillInv
  <2> QED
    BY DEF Init, ScanInv, KindInv, AskedInv, KillFollowsStop, NoScan, NoPending, owners_of
<1>2. KillInv => KillFollowsStop
  BY DEF KillInv
<1> QED
  BY <1>1, <1>2, NextKill, DashboardTypeCorrect, DashboardOneRowPerProcess, PTL DEF Spec
=============================================================================
