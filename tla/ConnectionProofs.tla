-------------------------- MODULE ConnectionProofs --------------------------
(***************************************************************************)
(* What one bridged connection never does, for any requests, limits and     *)
(* socket buffers: lose, repeat or reorder a piece of a stream, end a       *)
(* stream early without an excuse, or answer in two voices.                 *)
(*                                                                         *)
(* Streams speaks of what was sent and what was written.  Between the two   *)
(* lie the pieces in hand: FlowInv says that written and held pieces        *)
(* together are exactly the pieces read, in order, and what the two flags   *)
(* of a pipe mean; StageInv says what each stage of handle_connection may    *)
(* rely on, so that every return is either complete or excused.             *)
(***************************************************************************)
EXTENDS Connection, SequenceTheorems, TLAPS

\* What was written and what is in hand is what was read.
Counts(s) == read[s] <= sent[s] /\ Len(out[other(s)]) + Len(held[s]) = read[s]

InOrder(s) == \A i \in 1..Len(held[s]) : held[s][i] = Len(out[other(s)]) + i

\* Reading is over only at the end of the stream, or at a reset.
AtItsEnd(s) == fin[s] = "reset" \/ (fin[s] # "open" /\ read[s] = sent[s])

Flags(s) ==
    /\ eof[s] => AtItsEnd(s)
    /\ done[s] => eof[s] /\ held[s] = <<>>
    /\ shut[other(s)] /\ pc # "done" => done[s]

Flow(s) == Counts(s) /\ InOrder(s) /\ Flags(s)

FlowInv == \A s \in Peer : Flow(s)

Replying == {"response", "answer", "copy"}

StageInv ==
    /\ reply # 0 => pc = "done"
    /\ pc \notin {"head", "done"} => allowed
    /\ pc \in {"head", "connect", "request", "exact", "response"} =>
          out["client"] = <<>> /\ (pc # "response" => held["backend"] = <<>>)
    /\ pc \in {"head", "connect"} => out["backend"] = <<>>
    /\ pc = "head" => Len(held["client"]) < request.head
    /\ pc = "connect" => read["client"] >= request.head
    /\ pc = "request" => held["client"] # <<>> /\ read["client"] >= request.head
    /\ Pumping => request.upgrade
    /\ pc \in {"exact"} \cup Replying => ~request.upgrade /\ read["client"] >= request.head
    /\ pc = "exact" /\ held["client"] = <<>> => remaining > 0
    /\ pc \in Replying => held["client"] = <<>> /\ remaining = 0
    /\ pc = "response" => Len(held["backend"]) < request.answer
    /\ pc \in {"write", "finish"} => ~done[turn]
    /\ ~Pumping /\ pc # "done" => \A s \in Peer : ~done[s] /\ ~eof[s]

\* What was answered was forwarded whole, and what was refused not at all.
BodyInv ==
    /\ pc \in Replying \/ (~request.upgrade /\ out["client"] # <<>>) =>
          /\ Len(out["backend"]) = read["client"]
          /\ Len(out["backend"]) >= request.head + length
          /\ reply = 0
    /\ ~allowed \/ reply \notin {0, 502} => out["backend"] = <<>>

ConnectionInv == TypeOK /\ FlowInv /\ StageInv /\ BodyInv

\* What is taken from one side is added to the other.
LEMMA MovedPieces ==
  ASSUME NEW a \in Int, NEW b \in Int, NEW n \in Int
  PROVE  (a + n) + (b - n) = a + b
  OBVIOUS

\* What a read returns: the next pieces of the stream.
LEMMA IncomingPieces ==
  ASSUME NEW s, read[s] \in Nat, NEW n \in Nat
  PROVE  /\ Incoming(s, n) \in Seq(Nat) /\ Len(Incoming(s, n)) = n
         /\ \A i \in 1..n : Incoming(s, n)[i] = read[s] + i
  BY DEF Incoming

\* Pieces that continue those in hand.
LEMMA AppendedPieces ==
  ASSUME NEW k \in Nat, NEW h \in Seq(Nat), NEW c \in Seq(Nat),
         \A i \in 1..Len(h) : h[i] = k + i,
         \A i \in 1..Len(c) : c[i] = (k + Len(h)) + i
  PROVE  /\ h \o c \in Seq(Nat) /\ Len(h \o c) = Len(h) + Len(c)
         /\ \A i \in 1..Len(h \o c) : (h \o c)[i] = k + i
<1>1. h \o c \in Seq(Nat) /\ Len(h \o c) = Len(h) + Len(c)
  BY ConcatProperties
<1>2. \A i \in 1..(Len(h) + Len(c)) :
         (h \o c)[i] = IF i <= Len(h) THEN h[i] ELSE c[i - Len(h)]
  BY ConcatProperties
<1>3. ASSUME NEW i \in 1..(Len(h) + Len(c)) PROVE (h \o c)[i] = k + i
  <2>1. Len(h) \in Nat /\ Len(c) \in Nat
    OBVIOUS
  <2>2. CASE i <= Len(h)
    <3>1. i \in 1..Len(h) /\ (h \o c)[i] = h[i]
      BY <1>2, <2>1, <2>2
    <3> QED
      BY <3>1
  <2>3. CASE ~(i <= Len(h))
    <3>1. i - Len(h) \in 1..Len(c) /\ (h \o c)[i] = c[i - Len(h)]
      BY <1>2, <2>1, <2>3
    <3>2. c[i - Len(h)] = (k + Len(h)) + (i - Len(h))
      BY <3>1
    <3>3. i \in Int /\ Len(h) \in Int
      BY <2>1
    <3>4. (k + Len(h)) + (i - Len(h)) = k + i
      BY <3>3, MovedPieces
    <3> QED
      BY <3>1, <3>2, <3>4
  <2> QED
    BY <2>2, <2>3
<1> QED
  BY <1>1, <1>3

\* Passing the first n pieces on moves the border between written and held.
LEMMA PassedPieces ==
  ASSUME NEW a \in Seq(Nat), NEW h \in Seq(Nat), NEW n \in 1..Len(h),
         \A i \in 1..Len(h) : h[i] = Len(a) + i
  PROVE  LET rest == SubSeq(h, n + 1, Len(h))
             new == a \o SubSeq(h, 1, n)
         IN  /\ new = a \o [i \in 1..n |-> Len(a) + i]
             /\ new \in Seq(Nat) /\ Len(new) = Len(a) + n
             /\ rest \in Seq(Nat) /\ Len(rest) = Len(h) - n
             /\ \A i \in 1..Len(rest) : rest[i] = Len(new) + i
<1> DEFINE c == [i \in 1..n |-> Len(a) + i]
           rest == SubSeq(h, n + 1, Len(h))
<1>1. c \in Seq(Nat) /\ Len(c) = n
  OBVIOUS
<1>2. SubSeq(h, 1, n) = c
  OBVIOUS
<1>3. rest \in Seq(Nat) /\ Len(rest) = Len(h) - n
  OBVIOUS
<1>4. \A i \in 1..Len(rest) : rest[i] = h[n + i]
  OBVIOUS
<1> HIDE DEF c
<1>5. a \o c \in Seq(Nat) /\ Len(a \o c) = Len(a) + n
  BY <1>1, ConcatProperties
<1>6. \A i \in 1..Len(rest) : rest[i] = Len(a \o c) + i
  BY <1>3, <1>4, <1>5
<1> QED
  BY <1>2, <1>3, <1>5, <1>6 DEF c

-----------------------------------------------------------------------------
(* Reads and writes keep the flow.                                          *)

LEMMA FlowTypes ==
  ASSUME TypeOK, NEW s \in Peer
  PROVE  /\ other(s) \in Peer /\ other(s) # s /\ other(other(s)) = s
         /\ \A u \in Peer : u = s \/ u = other(s)
         /\ out[s] \in Seq(Nat) /\ held[s] \in Seq(Nat) /\ read[s] \in Nat /\ sent[s] \in Nat
         /\ Len(out[s]) \in Nat /\ Len(held[s]) \in Nat
<1>1. other(s) \in Peer /\ other(s) # s /\ other(other(s)) = s
  BY DEF Peer, other
<1>2. \A u \in Peer : u = s \/ u = other(s)
  BY DEF Peer, other
<1>3. out[s] \in Seq(Nat) /\ held[s] \in Seq(Nat) /\ read[s] \in Nat /\ sent[s] \in Nat
  BY DEF TypeOK
<1>4. Len(out[s]) \in Nat /\ Len(held[s]) \in Nat
  BY <1>3
<1> QED
  BY <1>1, <1>2, <1>3, <1>4

LEMMA ReadKeepsFlow ==
  ASSUME TypeOK, FlowInv, NEW s \in Peer, NEW n, Reads(s, n),
         held' = [held EXCEPT ![s] = held[s] \o Incoming(s, n)], ~eof[s],
         UNCHANGED <<fin, sent, eof, done, out>>, pc # "done", pc' = "done" \/ UNCHANGED shut
  PROVE  /\ FlowInv'
         /\ read' \in [Peer -> Nat] /\ held' \in [Peer -> Seq(Nat)]
         /\ n \in Nat \ {0} /\ read'[s] = read[s] + n
         /\ Len(held'[s]) = Len(held[s]) + n /\ held'[s] # <<>>
         /\ read'[other(s)] = read[other(s)] /\ held'[other(s)] = held[other(s)]
<1> DEFINE new == held[s] \o Incoming(s, n)
           t == other(s)
           k == Len(out[t])
<1>1. /\ t \in Peer /\ t # s /\ other(t) = s /\ \A u \in Peer : u = s \/ u = t
      /\ held[s] \in Seq(Nat) /\ read[s] \in Nat /\ sent[s] \in Nat
      /\ Len(held[s]) \in Nat /\ k \in Nat
  <2>1. t \in Peer
    BY FlowTypes
  <2> HIDE DEF t
  <2>2. k \in Nat
    BY <2>1, FlowTypes
  <2> QED
    BY <2>1, <2>2, FlowTypes DEF t
<1>2. Flow(s) /\ Flow(t)
  BY <1>1 DEF FlowInv
<1>3. n \in Nat \ {0} /\ n \in Nat /\ read[s] + n <= sent[s]
  <2>1. n \in Nat \ {0} /\ n <= sent[s] - read[s]
    BY ConnectionAssumption DEF Reads, Unread
  <2> QED
    BY <1>1, <2>1
<1>4. k + Len(held[s]) = read[s] /\ \A i \in 1..Len(held[s]) : held[s][i] = k + i
  BY <1>2 DEF Flow, Counts, InOrder
<1> HIDE DEF k, t
<1>5. /\ new \in Seq(Nat)
      /\ Len(new) = Len(held[s]) + n
      /\ \A i \in 1..Len(new) : new[i] = k + i
  <2> DEFINE c == Incoming(s, n)
  <2>1. c \in Seq(Nat) /\ Len(c) = n /\ \A i \in 1..n : c[i] = read[s] + i
    BY <1>1, <1>3, IncomingPieces
  <2> HIDE DEF c
  <2>2. \A i \in 1..Len(c) : c[i] = (k + Len(held[s])) + i
    BY <1>4, <2>1
  <2>3. held[s] \in Seq(Nat) /\ k \in Nat /\ \A i \in 1..Len(held[s]) : held[s][i] = k + i
    BY <1>1, <1>4
  <2>4. /\ held[s] \o c \in Seq(Nat) /\ Len(held[s] \o c) = Len(held[s]) + Len(c)
        /\ \A i \in 1..Len(held[s] \o c) : (held[s] \o c)[i] = k + i
    BY <2>1, <2>2, <2>3, AppendedPieces
  <2> QED
    BY <2>1, <2>4 DEF c
<1>6. held' = [held EXCEPT ![s] = new] /\ read' = [read EXCEPT ![s] = read[s] + n]
  BY DEF Reads
<1> HIDE DEF new
<1>7. held'[s] = new /\ read'[s] = read[s] + n /\ held'[t] = held[t] /\ read'[t] = read[t]
  BY <1>1, <1>6 DEF TypeOK
<1>8. read' \in [Peer -> Nat] /\ held' \in [Peer -> Seq(Nat)]
  <2>1. read[s] + n \in Nat
    BY <1>1, <1>3
  <2>2. read \in [Peer -> Nat] /\ held \in [Peer -> Seq(Nat)]
    BY DEF TypeOK
  <2>3. read' \in [Peer -> Nat]
    BY <1>6, <2>1, <2>2
  <2>4. held' \in [Peer -> Seq(Nat)]
    BY <1>5, <1>6, <2>2
  <2> QED
    BY <2>3, <2>4
<1>9. new # <<>>
  BY <1>1, <1>3, <1>5
<1>10. ~done[s]
  BY <1>2 DEF Flow, Flags
<1>11. Flow(s)'
  <2>1. Counts(s)'
    <3>1. k + Len(new) = read[s] + n
      BY <1>1, <1>3, <1>4, <1>5
    <3> QED
      BY <1>3, <1>7, <3>1 DEF Counts, k, t
  <2>2. InOrder(s)'
    BY <1>5, <1>7 DEF InOrder, k, t
  <2>3. Flags(s)'
    BY <1>2, <1>10 DEF Flow, Flags
  <2> QED
    BY <2>1, <2>2, <2>3 DEF Flow
<1>12. Flow(t)'
  BY <1>1, <1>2, <1>7 DEF Flow, Counts, InOrder, Flags, AtItsEnd
<1>13. FlowInv'
  BY <1>1, <1>11, <1>12 DEF FlowInv
<1> QED
  BY <1>3, <1>5, <1>7, <1>8, <1>9, <1>13 DEF t

LEMMA WriteKeepsFlow ==
  ASSUME TypeOK, FlowInv, NEW s \in Peer, NEW n, Writes(s, n),
         UNCHANGED <<fin, sent, read, eof, done, shut>>, pc # "done"
  PROVE  /\ FlowInv'
         /\ out' \in [Peer -> Seq(Nat)] /\ held' \in [Peer -> Seq(Nat)]
         /\ n \in 1..Len(held[s]) /\ ~done[s]
         /\ out'[other(s)] = out[other(s)] \o [i \in 1..n |-> Len(out[other(s)]) + i]
         /\ Len(out'[other(s)]) = Len(out[other(s)]) + n
         /\ Len(held'[s]) = Len(held[s]) - n
         /\ out'[s] = out[s] /\ held'[other(s)] = held[other(s)]
<1> DEFINE t == other(s)
           rest == SubSeq(held[s], n + 1, Len(held[s]))
           new == out[t] \o SubSeq(held[s], 1, n)
<1>1. /\ t \in Peer /\ t # s /\ other(t) = s /\ \A u \in Peer : u = s \/ u = t
      /\ held[s] \in Seq(Nat) /\ read[s] \in Nat /\ Len(held[s]) \in Nat
      /\ out[t] \in Seq(Nat) /\ Len(out[t]) \in Nat
  <2>1. t \in Peer
    BY FlowTypes
  <2> HIDE DEF t
  <2>2. out[t] \in Seq(Nat) /\ Len(out[t]) \in Nat
    BY <2>1, FlowTypes
  <2> QED
    BY <2>1, <2>2, FlowTypes DEF t
<1>2. Flow(s) /\ Flow(t)
  BY <1>1 DEF FlowInv
<1>3. n \in 1..Len(held[s])
  BY DEF Writes
<1>4. /\ Len(out[t]) + Len(held[s]) = read[s]
      /\ \A i \in 1..Len(held[s]) : held[s][i] = Len(out[t]) + i
  BY <1>2 DEF Flow, Counts, InOrder
<1>5. /\ out' = [out EXCEPT ![t] = new] /\ held' = [held EXCEPT ![s] = rest]
  BY DEF Writes
<1> HIDE DEF t
<1>6. /\ new = out[t] \o [i \in 1..n |-> Len(out[t]) + i]
      /\ new \in Seq(Nat) /\ Len(new) = Len(out[t]) + n
      /\ rest \in Seq(Nat) /\ Len(rest) = Len(held[s]) - n
      /\ \A i \in 1..Len(rest) : rest[i] = Len(new) + i
  BY <1>1, <1>3, <1>4, PassedPieces
<1> HIDE DEF new, rest
<1>7. out'[t] = new /\ out'[s] = out[s] /\ held'[s] = rest /\ held'[t] = held[t]
  BY <1>1, <1>5 DEF TypeOK
<1>8. out' \in [Peer -> Seq(Nat)] /\ held' \in [Peer -> Seq(Nat)]
  BY <1>1, <1>5, <1>6 DEF TypeOK
<1>9. ~done[s]
  <2>1. held[s] # <<>>
    BY <1>1, <1>3
  <2> QED
    BY <1>2, <2>1 DEF Flow, Flags
<1>10. Flow(s)'
  <2>1. Counts(s)'
    <3>1. n \in Int
      BY <1>1, <1>3
    <3>2. Len(new) = Len(out[t]) + n /\ Len(rest) = Len(held[s]) - n
      BY <1>6
    <3>3. Len(out[t]) + Len(held[s]) = read[s]
      BY <1>4
    <3>4. Len(out[t]) \in Int /\ Len(held[s]) \in Int
      BY <1>1
    <3>5. (Len(out[t]) + n) + (Len(held[s]) - n) = Len(out[t]) + Len(held[s])
      BY <3>1, <3>4, MovedPieces
    <3>6. Len(new) + Len(rest) = read[s]
      BY <3>2, <3>3, <3>5
    <3> QED
      BY <1>2, <1>7, <3>6 DEF Flow, Counts, t
  <2>2. InOrder(s)'
    BY <1>6, <1>7 DEF InOrder, t
  <2>3. Flags(s)'
    BY <1>2, <1>9 DEF Flow, Flags, AtItsEnd
  <2> QED
    BY <2>1, <2>2, <2>3 DEF Flow
<1>11. Flow(t)'
  BY <1>1, <1>2, <1>7 DEF Flow, Counts, InOrder, Flags, AtItsEnd
<1>12. FlowInv'
  BY <1>1, <1>10, <1>11 DEF FlowInv
<1> QED
  BY <1>3, <1>6, <1>7, <1>8, <1>9, <1>12 DEF t

\* A step that reads and writes nothing keeps the flow if it keeps the flags.
LEMMA QuietKeepsFlow ==
  ASSUME FlowInv, UNCHANGED <<read, held, out, fin, sent, eof, done>>, pc # "done",
         pc' = "done" \/ UNCHANGED shut
  PROVE  FlowInv'
  BY DEF FlowInv, Flow, Counts, InOrder, Flags, AtItsEnd

LEMMA EmptyHand ==
  ASSUME TypeOK, NEW s \in Peer, held[s] = <<>>, NEW n \in Nat
  PROVE  Incoming(s, n) = held[s] \o Incoming(s, n)
<1>1. Incoming(s, n) \in Seq(Nat)
  BY IncomingPieces DEF TypeOK
<1> QED
  BY <1>1, ConcatEmptySeq

LEMMA ShutType ==
  ASSUME TypeOK, UNCHANGED shut \/ shut' = [s \in Peer |-> TRUE]
  PROVE  shut' \in [Peer -> BOOLEAN]
<1>1. CASE UNCHANGED shut
  BY <1>1 DEF TypeOK
<1>2. CASE shut' = [s \in Peer |-> TRUE]
  BY <1>2, Zenon
<1> QED
  BY <1>1, <1>2

LEMMA ChunkIsNat ==
  ASSUME NEW n \in 1..CHUNK
  PROVE  n \in Nat
  BY ConnectionAssumption

-----------------------------------------------------------------------------
(* The invariant is inductive: one lemma per part of the code.              *)

LEMMA InitConnection == Init => ConnectionInv
<1> SUFFICES ASSUME Init PROVE ConnectionInv
  OBVIOUS
<1>1. request \in RequestShape
  BY ConnectionAssumption DEF Init
<1>2. TypeOK
  BY ConnectionAssumption DEF Init, TypeOK, Peer, Stage
<1>3. FlowInv
  BY DEF Init, FlowInv, Flow, Counts, InOrder, Flags, AtItsEnd, Peer, other
<1>4. StageInv
  BY <1>1 DEF Init, StageInv, Peer, RequestShape, Replying, Pumping
<1>5. BodyInv
  BY DEF Init, BodyInv, Peer, Replying
<1> QED
  BY <1>2, <1>3, <1>4, <1>5 DEF ConnectionInv

LEMMA HeadKeeps ==
  ASSUME ConnectionInv, NEW n \in 1..CHUNK, ReadHead(n) \/ HeadTooLarge(n) \/ HeadComplete(n)
  PROVE  ConnectionInv'
<1>1. Reads("client", n) /\ held' = [held EXCEPT !["client"] = held["client"] \o Incoming("client", n)]
  BY DEF ReadHead, HeadTooLarge, HeadComplete, Received
<1>2. pc = "head" /\ out["backend"] = <<>> /\ out["client"] = <<>> /\ held["backend"] = <<>>
  BY DEF ReadHead, HeadTooLarge, HeadComplete, ConnectionInv, StageInv
<1>3. UNCHANGED <<turn, ready, request, fin, sent, eof, done, out, taken>>
  BY DEF ReadHead, HeadTooLarge, HeadComplete, Answer, Return
<1>4. pc' = "done" \/ UNCHANGED shut
  BY DEF ReadHead, HeadTooLarge, HeadComplete, Answer, Return
<1>5. "client" \in Peer /\ other("client") = "backend" /\ ~eof["client"] /\ ~done["client"] /\ ~done["backend"] /\ ~eof["backend"]
  BY <1>2 DEF ConnectionInv, StageInv, Pumping, Peer, other
<1>6. /\ FlowInv'
      /\ read' \in [Peer -> Nat] /\ held' \in [Peer -> Seq(Nat)]
      /\ read'["client"] = read["client"] + n
      /\ Len(held'["client"]) = Len(held["client"]) + n
      /\ held'["backend"] = held["backend"] /\ held'["client"] # <<>>
  BY <1>1, <1>2, <1>3, <1>4, <1>5, ReadKeepsFlow DEF ConnectionInv
<1>7. Len(held["client"]) = read["client"]
  <2>1. Len(out["backend"]) + Len(held["client"]) = read["client"]
    BY <1>5 DEF ConnectionInv, FlowInv, Flow, Counts
  <2>2. Len(out["backend"]) = 0 /\ Len(held["client"]) \in Nat
    BY <1>2, <1>5, FlowTypes DEF ConnectionInv
  <2> QED
    BY <2>1, <2>2
<1>8. Len(Received(n)) = Len(held'["client"])
  BY <1>1, <1>5 DEF Received, ConnectionInv, TypeOK
<1>9. TypeOK'
  <2>1. pc' \in Stage /\ reply' \in {0, 400, 403, 411, 413, 431, 502} /\ shut' \in [Peer -> BOOLEAN]
    <3>1. reply \in {0, 400, 403, 411, 413, 431, 502} /\ shut \in [Peer -> BOOLEAN]
      BY DEF ConnectionInv, TypeOK
    <3>2. pc' \in Stage
      BY <1>2 DEF ReadHead, HeadTooLarge, HeadComplete, Answer, Return, Stage
    <3>3. reply' \in {0, 400, 403, 411, 413, 431, 502}
      BY <3>1 DEF ReadHead, HeadTooLarge, HeadComplete, Answer, Return
    <3>4. UNCHANGED shut \/ shut' = [s \in Peer |-> TRUE]
      BY DEF ReadHead, HeadTooLarge, HeadComplete, Answer, Return
    <3> QED
      BY <3>2, <3>3, <3>4, ShutType DEF ConnectionInv
  <2>2. pc' = "head" => Len(held'["client"]) <= MAX_HEADER_BYTES
    BY <1>6, <1>8, ConnectionAssumption DEF ReadHead, HeadTooLarge, HeadComplete, Answer, Return, TooLarge
  <2>3. pc' # "response"
    BY DEF ReadHead, HeadTooLarge, HeadComplete, Answer, Return
  <2> QED
    BY <1>3, <1>6, <2>1, <2>2, <2>3 DEF ConnectionInv, TypeOK
<1>10. StageInv'
  BY <1>2, <1>3, <1>5, <1>6, <1>7, <1>8 
     DEF ConnectionInv, StageInv, ReadHead, HeadTooLarge, HeadComplete, Answer, Return, Replying,
         Pumping, allowed, host_matches, origin_matches
<1>11. BodyInv'
  BY <1>2, <1>3 DEF BodyInv, Replying, ReadHead, HeadTooLarge, HeadComplete, Answer, Return
<1> QED
  BY <1>6, <1>9, <1>10, <1>11 DEF ConnectionInv

\* Every return that reads nothing.
LEMMA ReturnKeeps ==
  ASSUME ConnectionInv, pc # "done", Return, UNCHANGED <<read, held>>,
         \/ reply' = reply
         \/ /\ out["client"] = <<>>
            /\ reply' = 502 \/ (reply' \in {400, 403, 411, 413, 431} /\ out["backend"] = <<>>)
  PROVE  ConnectionInv'
<1>1. UNCHANGED <<turn, ready, request, fin, sent, eof, done, out, taken>> /\ pc' = "done"
  BY DEF Return
<1>2. FlowInv'
  BY <1>1, QuietKeepsFlow DEF ConnectionInv
<1>3. TypeOK'
  <2>1. shut' \in [Peer -> BOOLEAN]
    BY ShutType DEF ConnectionInv, Return
  <2>2. reply' \in {0, 400, 403, 411, 413, 431, 502}
    BY DEF ConnectionInv, TypeOK
  <2> QED
    BY <1>1, <2>1, <2>2 DEF ConnectionInv, TypeOK, Stage
<1>4. StageInv'
  BY <1>1 DEF StageInv, Replying, Pumping
<1>5. BodyInv'
  BY <1>1 DEF ConnectionInv, BodyInv, allowed, host_matches, origin_matches, length, Replying
<1> QED
  BY <1>2, <1>3, <1>4, <1>5 DEF ConnectionInv

LEMMA FailuresKeep ==
  ASSUME ConnectionInv,
         \/ HeadFails \/ ConnectFails \/ RequestFails \/ BodyFails
         \/ ResponseFails \/ AnswerFails \/ CopyEnds \/ PumpEnds
         \/ \E s \in Peer : PumpFails(s)
  PROVE  ConnectionInv'
<1>1. CASE HeadFails
  <2>1. Return /\ UNCHANGED <<read, held>> /\ reply' \in {reply, 400}
    BY <1>1 DEF HeadFails, Answer
  <2> QED
    BY <1>1, <2>1, ReturnKeeps DEF HeadFails, ConnectionInv, StageInv
<1>2. CASE ConnectFails
  BY <1>2, ReturnKeeps DEF ConnectFails, Answer, ConnectionInv, StageInv
<1>3. CASE RequestFails
  BY <1>3, ReturnKeeps DEF RequestFails, Answer, GiveUp, ConnectionInv, StageInv
<1>4. CASE BodyFails \/ ResponseFails \/ AnswerFails \/ CopyEnds \/ PumpEnds \/ \E s \in Peer : PumpFails(s)
  <2>1. GiveUp /\ pc # "done"
    BY <1>4 DEF BodyFails, ResponseFails, AnswerFails, CopyEnds, PumpEnds, PumpFails
  <2> QED
    BY <2>1, ReturnKeeps DEF GiveUp
<1> QED
  BY <1>1, <1>2, <1>3, <1>4

LEMMA ConnectsKeeps ==
  ASSUME ConnectionInv, Connects
  PROVE  ConnectionInv'
<1>1. pc = "connect" /\ UNCHANGED <<read, held>>
  BY DEF Connects
<1>2. out["backend"] = <<>> /\ out["client"] = <<>>
  BY <1>1 DEF ConnectionInv, StageInv
<1>3. \/ Answer(411) \/ Answer(413)
      \/ /\ pc' = "request"
         /\ UNCHANGED <<turn, ready, request, reply, fin, sent, eof, done, out, taken, shut>>
  BY DEF Connects
<1>4. CASE Answer(411) \/ Answer(413)
  BY <1>1, <1>2, <1>4, ReturnKeeps DEF Answer
<1>5. CASE /\ pc' = "request"
           /\ UNCHANGED <<turn, ready, request, reply, fin, sent, eof, done, out, taken, shut>>
  <2>1. FlowInv'
    BY <1>1, <1>5, QuietKeepsFlow DEF ConnectionInv
  <2>2. TypeOK'
    BY <1>1, <1>5 DEF ConnectionInv, TypeOK, Stage
  <2>3. held["client"] # <<>>
    <3>1. Len(out["backend"]) + Len(held["client"]) = read["client"]
      BY DEF ConnectionInv, FlowInv, Flow, Counts, Peer, other
    <3>2. read["client"] >= request.head /\ request.head \in Nat \ {0}
      BY <1>1, ConnectionAssumption DEF ConnectionInv, StageInv, TypeOK, RequestShape
    <3> QED
      BY <1>2, <3>1, <3>2
  <2>4. StageInv'
    BY <1>1, <1>5, <2>3 DEF ConnectionInv, StageInv, Replying, Pumping, allowed, host_matches, origin_matches
  <2>5. BodyInv'
    BY <1>1, <1>2, <1>5 DEF ConnectionInv, BodyInv, Replying
  <2> QED
    BY <2>1, <2>2, <2>4, <2>5 DEF ConnectionInv
<1> QED
  BY <1>3, <1>4, <1>5

\* remaining is what the lengths say it is.
LEMMA RemainingPieces ==
  ASSUME TypeOK
  PROVE  /\ length \in Nat /\ request.head \in Nat \ {0} /\ request.answer \in Nat \ {0}
         /\ remaining \in Nat
         /\ remaining = 0 => read["client"] >= request.head + length
<1>1. request \in RequestShape
  BY ConnectionAssumption DEF TypeOK
<1>2. length \in Nat /\ request.head \in Nat \ {0} /\ request.answer \in Nat \ {0}
  BY <1>1 DEF RequestShape, length
<1>3. read["client"] \in Nat
  BY DEF TypeOK, Peer
<1> QED
  BY <1>2, <1>3 DEF remaining

LEMMA WriteTypes ==
  ASSUME TypeOK, pc' \in Stage, pc' # "head",
         pc' = "response" => Len(held'["backend"]) <= MAX_HEADER_BYTES,
         out' \in [Peer -> Seq(Nat)], held' \in [Peer -> Seq(Nat)],
         UNCHANGED <<turn, ready, request, reply, fin, sent, read, eof, done, taken, shut>>
  PROVE  TypeOK'
<1>1. /\ turn' \in Peer /\ ready' \subseteq Peer /\ request' \in Request
      /\ reply' \in {0, 400, 403, 411, 413, 431, 502}
      /\ fin' \in [Peer -> {"open", "half", "closed", "reset"}]
      /\ sent' \in [Peer -> Nat] /\ read' \in [Peer -> Nat] /\ eof' \in [Peer -> BOOLEAN]
      /\ done' \in [Peer -> BOOLEAN] /\ taken' \in [Peer -> Nat] /\ shut' \in [Peer -> BOOLEAN]
  BY DEF TypeOK
<1> QED
  BY <1>1 DEF TypeOK

LEMMA ReadTypes ==
  ASSUME TypeOK, pc' \in Stage, pc' \notin {"head", "response"},
         read' \in [Peer -> Nat], held' \in [Peer -> Seq(Nat)],
         UNCHANGED <<turn, ready, request, reply, fin, sent, eof, done, out, taken, shut>>
  PROVE  TypeOK'
<1>1. /\ turn' \in Peer /\ ready' \subseteq Peer /\ request' \in Request
      /\ reply' \in {0, 400, 403, 411, 413, 431, 502}
      /\ fin' \in [Peer -> {"open", "half", "closed", "reset"}]
      /\ sent' \in [Peer -> Nat] /\ out' \in [Peer -> Seq(Nat)] /\ eof' \in [Peer -> BOOLEAN]
      /\ done' \in [Peer -> BOOLEAN] /\ taken' \in [Peer -> Nat] /\ shut' \in [Peer -> BOOLEAN]
  BY DEF TypeOK
<1> QED
  BY <1>1 DEF TypeOK

LEMMA LoopTypes ==
  ASSUME TypeOK, pc' \in Stage, pc' \notin {"head", "response"}, turn' \in Peer,
         eof' \in [Peer -> BOOLEAN], done' \in [Peer -> BOOLEAN], shut' \in [Peer -> BOOLEAN],
         UNCHANGED <<ready, request, reply, fin, sent, read, held, out, taken>>
  PROVE  TypeOK'
<1>1. /\ ready' \subseteq Peer /\ request' \in Request
      /\ reply' \in {0, 400, 403, 411, 413, 431, 502}
      /\ fin' \in [Peer -> {"open", "half", "closed", "reset"}]
      /\ sent' \in [Peer -> Nat] /\ read' \in [Peer -> Nat] /\ held' \in [Peer -> Seq(Nat)]
      /\ out' \in [Peer -> Seq(Nat)] /\ taken' \in [Peer -> Nat]
  BY DEF TypeOK
<1> QED
  BY <1>1 DEF TypeOK

LEMMA PeerTypes ==
  ASSUME TypeOK, sent' \in [Peer -> Nat], taken' \in [Peer -> Nat],
         fin' \in [Peer -> {"open", "half", "closed", "reset"}],
         UNCHANGED <<pc, turn, ready, request, reply, read, held, eof, done, out, shut>>
  PROVE  TypeOK'
<1>1. /\ pc' \in Stage /\ turn' \in Peer /\ ready' \subseteq Peer /\ request' \in Request
      /\ reply' \in {0, 400, 403, 411, 413, 431, 502}
      /\ read' \in [Peer -> Nat] /\ held' \in [Peer -> Seq(Nat)] /\ eof' \in [Peer -> BOOLEAN]
      /\ out' \in [Peer -> Seq(Nat)] /\ done' \in [Peer -> BOOLEAN] /\ shut' \in [Peer -> BOOLEAN]
      /\ pc' = "head" => Len(held'["client"]) <= MAX_HEADER_BYTES
      /\ pc' = "response" => Len(held'["backend"]) <= MAX_HEADER_BYTES
  BY DEF TypeOK
<1> QED
  BY <1>1 DEF TypeOK

LEMMA WriteAllKeeps ==
  ASSUME ConnectionInv, NEW s \in Peer, NEW n, WriteAll(s, n)
  PROVE  ConnectionInv'
<1>1. Writes(s, n) /\ UNCHANGED <<turn, ready, request, reply, fin, sent, read, eof, done, taken, shut>>
  BY DEF WriteAll
<1>2. /\ pc \in {"request", "exact", "answer", "copy"}
      /\ s = "client" => pc \in {"request", "exact"}
      /\ s = "backend" => pc \in {"answer", "copy"}
  BY DEF WriteAll
<1>3. TypeOK /\ FlowInv /\ StageInv /\ BodyInv
  BY DEF ConnectionInv
<1>4. /\ FlowInv'
      /\ out' \in [Peer -> Seq(Nat)] /\ held' \in [Peer -> Seq(Nat)]
      /\ n \in 1..Len(held[s])
      /\ Len(out'[other(s)]) = Len(out[other(s)]) + n
      /\ Len(held'[s]) = Len(held[s]) - n
      /\ out'[s] = out[s] /\ held'[other(s)] = held[other(s)]
  BY <1>1, <1>2, <1>3, WriteKeepsFlow
<1>5. Len(held[s]) \in Nat /\ held[s] \in Seq(Nat) /\ held'[s] \in Seq(Nat)
  BY <1>3, <1>4, FlowTypes
<1>6. n < Len(held[s]) => held'[s] # <<>>
  BY <1>4, <1>5
<1>7. ~(n < Len(held[s])) => held'[s] = <<>>
  <2>1. SUFFICES ASSUME ~(n < Len(held[s])) PROVE held'[s] = <<>>
    OBVIOUS
  <2>2. Len(held'[s]) = 0
    BY <1>4, <1>5, <2>1
  <2> QED
    BY <1>5, <2>2, EmptySeq
<1>8. remaining' = remaining /\ length' = length /\ allowed' = allowed
  BY <1>1 DEF remaining, length, allowed, host_matches, origin_matches
<1>9. CASE s = "client"
  <2>1. out'["client"] = out["client"] /\ out'["client"] = <<>> /\ held'["backend"] = <<>>
    BY <1>2, <1>3, <1>4, <1>9 DEF other, StageInv
  <2>2. pc' = IF n < Len(held["client"]) THEN pc ELSE AfterRequest
    BY <1>9 DEF WriteAll
  <2>3. pc' \in {"request", "exact", "poll", "response"}
    BY <1>2, <1>9, <2>2 DEF AfterRequest
  <2>4. TypeOK'
    <3>1. pc' = "response" => Len(held'["backend"]) <= MAX_HEADER_BYTES
      BY <2>1, ConnectionAssumption
    <3> QED
      <4>1. pc' \in Stage /\ pc' # "head"
        BY <2>3 DEF Stage
      <4> QED
        BY <1>1, <1>3, <1>4, <3>1, <4>1, WriteTypes
  <2>5. StageInv'
    <3>1. n < Len(held["client"]) => held'["client"] # <<>>
      BY <1>6, <1>9
    <3>2. ~(n < Len(held["client"])) => held'["client"] = <<>>
      BY <1>7, <1>9
    <3>3. remaining \in Nat /\ request.answer \in Nat \ {0}
      BY <1>3, RemainingPieces
    <3>4. ~(remaining > 0) => remaining = 0
      BY <3>3
    <3>5. Len(held'["backend"]) < request.answer
      BY <2>1, <3>3
    <3> QED
      BY <1>1, <1>2, <1>3, <1>8, <1>9, <2>1, <2>2, <2>3, <3>1, <3>2, <3>4, <3>5
         DEF StageInv, Replying, Pumping, AfterRequest
  <2>6. BodyInv'
    <3>1. pc' = "response" => held'["client"] = <<>> /\ remaining = 0
      BY <2>5, <1>8 DEF StageInv, Replying
    <3>2. Len(out'["backend"]) + Len(held'["client"]) = read["client"]
      BY <1>1, <1>4 DEF FlowInv, Flow, Counts, Peer, other
    <3>3. Len(out'["backend"]) \in Nat /\ read["client"] \in Nat
      BY <1>3, <1>4 DEF Peer, TypeOK
    <3>4. pc' = "response" => Len(out'["backend"]) = read["client"]
      <4> SUFFICES ASSUME pc' = "response" PROVE Len(out'["backend"]) = read["client"]
        OBVIOUS
      <4>1. Len(held'["client"]) = 0
        BY <3>1
      <4> QED
        BY <3>2, <3>3, <4>1
    <3>5. pc' = "response" => read["client"] >= request.head + length
      BY <1>3, <3>1, RemainingPieces
    <3>6. reply' = 0 /\ allowed'
      BY <1>1, <1>2, <1>3, <1>8 DEF StageInv
    <3> QED
      BY <1>1, <1>8, <2>1, <2>3, <3>4, <3>5, <3>6 DEF BodyInv, Replying
  <2> QED
    BY <1>4, <2>4, <2>5, <2>6 DEF ConnectionInv
<1>10. CASE s = "backend"
  <2>1. out'["backend"] = out["backend"] /\ held'["client"] = held["client"]
    BY <1>4, <1>10 DEF other
  <2>2. pc' \in {"answer", "copy"}
    BY <1>2, <1>10 DEF WriteAll
  <2>3. TypeOK'
    <3>1. pc' \in Stage /\ pc' \notin {"head", "response"}
      BY <2>2 DEF Stage
    <3> QED
      BY <1>1, <1>3, <1>4, <3>1, WriteTypes
  <2>4. StageInv'
    BY <1>1, <1>2, <1>3, <1>8, <1>10, <2>1, <2>2 DEF StageInv, Replying, Pumping
  <2>5. BodyInv'
    BY <1>1, <1>2, <1>3, <1>8, <1>10, <2>1, <2>2 DEF BodyInv, Replying, StageInv
  <2> QED
    BY <1>4, <2>3, <2>4, <2>5 DEF ConnectionInv
<1> QED
  BY <1>9, <1>10 DEF Peer

LEMMA ReadBodyKeeps ==
  ASSUME ConnectionInv, NEW n \in 1..CHUNK, ReadBody(n)
  PROVE  ConnectionInv'
<1>1. /\ pc = "exact" /\ held["client"] = <<>> /\ Reads("client", n)
      /\ held' = [held EXCEPT !["client"] = Incoming("client", n)]
      /\ UNCHANGED <<pc, turn, ready, request, reply, fin, sent, eof, done, out, taken, shut>>
  BY DEF ReadBody
<1>2. TypeOK /\ FlowInv /\ StageInv /\ BodyInv
  BY DEF ConnectionInv
<1>3. "client" \in Peer /\ other("client") = "backend" /\ ~eof["client"] /\ n \in Nat
  BY <1>1, <1>2, ChunkIsNat DEF StageInv, Pumping, Peer, other
<1>4. held' = [held EXCEPT !["client"] = held["client"] \o Incoming("client", n)]
  BY <1>1, <1>2, <1>3, EmptyHand
<1>5. /\ FlowInv'
      /\ read' \in [Peer -> Nat] /\ held' \in [Peer -> Seq(Nat)]
      /\ read'["client"] = read["client"] + n
      /\ held'["backend"] = held["backend"] /\ held'["client"] # <<>>
  BY <1>1, <1>2, <1>3, <1>4, ReadKeepsFlow
<1>6. TypeOK'
  <2>1. pc' \in Stage /\ pc' \notin {"head", "response"}
    BY <1>1 DEF Stage
  <2> QED
    BY <1>1, <1>2, <1>5, <2>1, ReadTypes
<1>7. StageInv'
  <2>1. read'["client"] >= request.head
    <3>1. read["client"] >= request.head
      BY <1>1, <1>2 DEF StageInv
    <3>2. read["client"] \in Nat /\ request.head \in Nat
      BY <1>2, <1>3, FlowTypes, RemainingPieces
    <3> QED
      BY <1>3, <1>5, <3>1, <3>2
  <2> QED
    BY <1>1, <1>2, <1>5, <2>1 DEF StageInv, Replying, Pumping, allowed, host_matches, origin_matches
<1>8. BodyInv'
  BY <1>1, <1>2 DEF BodyInv, Replying, StageInv, allowed, host_matches, origin_matches
<1> QED
  BY <1>5, <1>6, <1>7, <1>8 DEF ConnectionInv

LEMMA ReadResponseKeeps ==
  ASSUME ConnectionInv, NEW n \in 1..CHUNK, ReadResponse(n)
  PROVE  ConnectionInv'
<1>1. /\ pc = "response" /\ Reads("backend", n)
      /\ held' = [held EXCEPT !["backend"] = held["backend"] \o Incoming("backend", n)]
      /\ UNCHANGED <<turn, ready, request, reply, fin, sent, eof, done, out, taken>>
  BY DEF ReadResponse, Return
<1>2. \/ pc' = "answer" /\ UNCHANGED shut
      \/ /\ Len(held["backend"]) + n < request.answer /\ ~TooLarge(Len(held["backend"]) + n)
         /\ UNCHANGED <<pc, shut>>
      \/ pc' = "done" /\ shut' = [s \in Peer |-> TRUE]
  BY DEF ReadResponse, Return
<1>3. TypeOK /\ FlowInv /\ StageInv /\ BodyInv
  BY DEF ConnectionInv
<1>4. "backend" \in Peer /\ other("backend") = "client" /\ ~eof["backend"] /\ n \in Nat
  BY <1>1, <1>3, ChunkIsNat DEF StageInv, Pumping, Peer, other
<1>5. /\ FlowInv'
      /\ read' \in [Peer -> Nat] /\ held' \in [Peer -> Seq(Nat)]
      /\ Len(held'["backend"]) = Len(held["backend"]) + n
      /\ held'["client"] = held["client"] /\ read'["client"] = read["client"]
  BY <1>1, <1>2, <1>3, <1>4, ReadKeepsFlow
<1>6. pc' \in {"answer", "response", "done"}
  BY <1>1, <1>2
<1>7. TypeOK'
  <2>1. shut' \in [Peer -> BOOLEAN] /\ pc' \in Stage
    BY <1>2, <1>3, <1>6, ShutType DEF Stage
  <2>2. pc' = "response" => Len(held'["backend"]) <= MAX_HEADER_BYTES
    BY <1>2, <1>5, <1>3, <1>4, FlowTypes, ConnectionAssumption DEF TooLarge
  <2>3. /\ turn' \in Peer /\ ready' \subseteq Peer /\ request' \in Request
        /\ reply' \in {0, 400, 403, 411, 413, 431, 502}
        /\ fin' \in [Peer -> {"open", "half", "closed", "reset"}]
        /\ sent' \in [Peer -> Nat] /\ out' \in [Peer -> Seq(Nat)] /\ eof' \in [Peer -> BOOLEAN]
        /\ done' \in [Peer -> BOOLEAN] /\ taken' \in [Peer -> Nat]
    BY <1>1, <1>3 DEF TypeOK
  <2> QED
    BY <1>5, <1>6, <2>1, <2>2, <2>3 DEF TypeOK
<1>8. remaining' = remaining /\ length' = length /\ allowed' = allowed
  BY <1>1, <1>5 DEF remaining, length, allowed, host_matches, origin_matches
<1>9. StageInv'
  BY <1>1, <1>2, <1>3, <1>5, <1>6, <1>8 DEF StageInv, Replying, Pumping
<1>10. BodyInv'
  BY <1>1, <1>3, <1>5, <1>6, <1>8 DEF BodyInv, Replying, StageInv
<1> QED
  BY <1>5, <1>7, <1>9, <1>10 DEF ConnectionInv

LEMMA CopyKeeps ==
  ASSUME ConnectionInv, NEW n \in 1..CHUNK, Copy(n)
  PROVE  ConnectionInv'
<1>1. /\ pc = "copy" /\ held["backend"] = <<>> /\ Reads("backend", n)
      /\ held' = [held EXCEPT !["backend"] = Incoming("backend", n)]
      /\ UNCHANGED <<pc, turn, ready, request, reply, fin, sent, eof, done, out, taken, shut>>
  BY DEF Copy
<1>2. TypeOK /\ FlowInv /\ StageInv /\ BodyInv
  BY DEF ConnectionInv
<1>3. "backend" \in Peer /\ other("backend") = "client" /\ ~eof["backend"] /\ n \in Nat
  BY <1>1, <1>2, ChunkIsNat DEF StageInv, Pumping, Peer, other
<1>4. held' = [held EXCEPT !["backend"] = held["backend"] \o Incoming("backend", n)]
  BY <1>1, <1>2, <1>3, EmptyHand
<1>5. /\ FlowInv'
      /\ read' \in [Peer -> Nat] /\ held' \in [Peer -> Seq(Nat)]
      /\ held'["client"] = held["client"] /\ read'["client"] = read["client"]
  BY <1>1, <1>2, <1>3, <1>4, ReadKeepsFlow
<1>6. TypeOK'
  <2>1. pc' \in Stage /\ pc' \notin {"head", "response"}
    BY <1>1 DEF Stage
  <2> QED
    BY <1>1, <1>2, <1>5, <2>1, ReadTypes
<1>7. remaining' = remaining /\ length' = length /\ allowed' = allowed
  BY <1>1, <1>5 DEF remaining, length, allowed, host_matches, origin_matches
<1>8. StageInv'
  BY <1>1, <1>2, <1>5, <1>7 DEF StageInv, Replying, Pumping
<1>9. BodyInv'
  BY <1>1, <1>2, <1>5, <1>7 DEF BodyInv, Replying, StageInv
<1> QED
  BY <1>5, <1>6, <1>8, <1>9 DEF ConnectionInv

\* Inside the poll(2) loop the stages promise little beyond the flow.
LEMMA LoopKeeps ==
  ASSUME ConnectionInv, Pumping, Pumping', UNCHANGED <<request, reply>>, FlowInv', TypeOK',
         pc' \in {"write", "finish"} => ~done'[turn']
  PROVE  ConnectionInv'
<1>1. request.upgrade /\ allowed /\ reply = 0 /\ allowed'
  BY DEF ConnectionInv, StageInv, Pumping, allowed, host_matches, origin_matches
<1>2. StageInv'
  BY <1>1 DEF StageInv, Pumping, Replying
<1>3. BodyInv'
  BY <1>1 DEF BodyInv, Replying, Pumping
<1> QED
  BY <1>2, <1>3 DEF ConnectionInv

LEMMA PollKeeps ==
  ASSUME ConnectionInv, Poll
  PROVE  ConnectionInv'
<1>1. Pumping /\ Pumping' /\ pc # "done" /\ pc' = "read"
  BY DEF Poll, Pumping
<1>2. FlowInv'
  BY <1>1, QuietKeepsFlow DEF Poll, ConnectionInv
<1>3. TypeOK'
  BY DEF Poll, ConnectionInv, TypeOK, Peer, Stage
<1> QED
  BY <1>1, <1>2, <1>3, LoopKeeps DEF Poll

LEMMA PumpKeeps ==
  ASSUME ConnectionInv, NEW s \in Peer, Pump(s), ~PumpFails(s)
  PROVE  ConnectionInv'
<1>1. TypeOK /\ FlowInv /\ StageInv
  BY DEF ConnectionInv
<1>2. other(s) \in Peer /\ other(s) # s /\ other(other(s)) = s /\ \A u \in Peer : u = s \/ u = other(s)
  BY <1>1, FlowTypes
<1>3. Flow(s) /\ Flow(other(s))
  BY <1>1, <1>2 DEF FlowInv
<1>4. ASSUME NEW n \in 1..CHUNK, PumpReads(s, n) PROVE ConnectionInv'
  <2>1. /\ pc = "read" /\ pc' = "write" /\ turn' = s /\ ~done[s]
        /\ Reads(s, n) /\ held[s] = <<>> /\ ~eof[s] /\ n \in Nat
        /\ UNCHANGED <<turn, ready, request, reply, fin, sent, eof, done, out, taken, shut>>
    BY <1>4, ChunkIsNat DEF PumpReads, MayRead
  <2>2. held' = [held EXCEPT ![s] = held[s] \o Incoming(s, n)]
    BY <1>1, <1>4, <2>1, EmptyHand DEF PumpReads
  <2>3. FlowInv' /\ read' \in [Peer -> Nat] /\ held' \in [Peer -> Seq(Nat)]
    BY <1>1, <2>1, <2>2, ReadKeepsFlow
  <2>4. TypeOK'
    <3>1. pc' \in Stage /\ pc' \notin {"head", "response"}
      BY <2>1 DEF Stage
    <3> QED
      BY <1>1, <2>1, <2>3, <3>1, ReadTypes
  <2> QED
    BY <2>1, <2>3, <2>4, LoopKeeps DEF Pumping
<1>5. CASE PumpEof(s)
  <2>1. /\ pc = "read" /\ pc' = "write" /\ turn' = s /\ ~done[s] /\ held[s] = <<>>
        /\ eof' = [eof EXCEPT ![s] = TRUE] /\ AtItsEnd(s)
        /\ UNCHANGED <<turn, ready, request, reply, fin, sent, read, held, done, out, taken, shut>>
    <3>1. AtEof(s) => fin[s] # "open" /\ sent[s] - read[s] = 0
      BY <1>5 DEF AtEof, Unread
    <3>2. AtEof(s) => read[s] = sent[s]
      BY <1>1, <3>1, FlowTypes
    <3> QED
      BY <1>5, <3>1, <3>2 DEF PumpEof, MayRead, EndsReading, ReadFails, AtItsEnd
  <2>2. TypeOK'
    <3>1. pc' \in Stage /\ pc' \notin {"head", "response"} /\ turn' \in Peer
      BY <2>1 DEF Stage
    <3>2. /\ eof' \in [Peer -> BOOLEAN] /\ done' \in [Peer -> BOOLEAN]
          /\ shut' \in [Peer -> BOOLEAN]
      BY <1>1, <2>1 DEF TypeOK
    <3> QED
      BY <1>1, <2>1, <3>1, <3>2, LoopTypes
  <2>3. FlowInv'
    BY <1>1, <2>1 DEF FlowInv, Flow, Counts, InOrder, Flags, AtItsEnd, TypeOK
  <2> QED
    BY <2>1, <2>2, <2>3, LoopKeeps DEF Pumping
<1>6. CASE PumpSkips(s) \/ PumpWritesNothing(s)
  <2>1. /\ pc \in {"read", "write"} /\ pc' \in {"write", "finish"} /\ turn' = s /\ ~done[s]
        /\ UNCHANGED <<turn, ready, request, reply, fin, sent, read, held, eof, done, out, taken, shut>>
    BY <1>1, <1>6 DEF PumpSkips, PumpWritesNothing, StageInv
  <2>2. TypeOK'
    <3>1. pc' \in Stage /\ pc' \notin {"head", "response"} /\ turn' \in Peer
      BY <1>2, <2>1 DEF Stage
    <3>2. /\ eof' \in [Peer -> BOOLEAN] /\ done' \in [Peer -> BOOLEAN]
          /\ shut' \in [Peer -> BOOLEAN]
      BY <1>1, <2>1 DEF TypeOK
    <3> QED
      BY <1>1, <2>1, <3>1, <3>2, LoopTypes
  <2>3. FlowInv'
    BY <1>1, <2>1, QuietKeepsFlow
  <2> QED
    BY <2>1, <2>2, <2>3, LoopKeeps DEF Pumping
<1>7. ASSUME NEW n \in 1..Len(held[s]), PumpWrites(s, n) PROVE ConnectionInv'
  <2>1. /\ pc = "write" /\ pc' = "finish" /\ turn' = s /\ ~done[s] /\ Writes(s, n)
        /\ UNCHANGED <<turn, ready, request, reply, fin, sent, read, eof, done, taken, shut>>
    BY <1>1, <1>7 DEF PumpWrites, StageInv
  <2>2. FlowInv' /\ out' \in [Peer -> Seq(Nat)] /\ held' \in [Peer -> Seq(Nat)]
    BY <1>1, <2>1, WriteKeepsFlow
  <2>3. TypeOK'
    <3>1. pc' \in Stage /\ pc' \notin {"head", "response"}
      BY <2>1 DEF Stage
    <3> QED
      BY <1>1, <2>1, <2>2, <3>1, WriteTypes
  <2> QED
    BY <2>1, <2>2, <2>3, LoopKeeps DEF Pumping
<1>8. CASE PumpFinishes(s)
  <2>1. /\ pc = "finish" /\ pc' \in {"read", "poll"} /\ turn' = other(s) /\ ~done[s]
        /\ done' = [done EXCEPT ![s] = PassedOn(s)]
        /\ shut' = [shut EXCEPT ![other(s)] = PassedOn(s)]
        /\ UNCHANGED <<ready, request, reply, fin, sent, read, held, eof, out, taken>>
    BY <1>1, <1>8 DEF PumpFinishes, NextPipe, StageInv
  <2>2. PassedOn(s) \in BOOLEAN
    BY <1>1, FlowTypes DEF PassedOn, TypeOK
  <2>3. TypeOK'
    <3>1. done' \in [Peer -> BOOLEAN] /\ shut' \in [Peer -> BOOLEAN]
      BY <1>1, <1>2, <2>1, <2>2, Zenon DEF TypeOK
    <3>2. pc' \in Stage /\ pc' \notin {"head", "response"} /\ turn' \in Peer
      BY <1>2, <2>1 DEF Stage
    <3>3. eof' \in [Peer -> BOOLEAN]
      BY <1>1, <2>1 DEF TypeOK
    <3> QED
      BY <1>1, <2>1, <3>1, <3>2, <3>3, LoopTypes
  <2>4. Flow(s)'
    BY <1>1, <1>2, <1>3, <2>1, <2>2 DEF Flow, Counts, InOrder, Flags, AtItsEnd, TypeOK, PassedOn
  <2>5. Flow(other(s))'
    BY <1>1, <1>2, <1>3, <2>1, <2>2 DEF Flow, Counts, InOrder, Flags, AtItsEnd, TypeOK
  <2>6. FlowInv'
    BY <1>2, <2>4, <2>5 DEF FlowInv
  <2> QED
    BY <2>1, <2>3, <2>6, LoopKeeps DEF Pumping
<1>9. CASE PumpDone(s)
  <2>1. /\ pc = "read" /\ pc' \in {"read", "poll"} /\ turn' = other(s)
        /\ UNCHANGED <<ready, request, reply, fin, sent, read, held, eof, done, out, taken, shut>>
    BY <1>9 DEF PumpDone, NextPipe
  <2>2. TypeOK'
    <3>1. pc' \in Stage /\ pc' \notin {"head", "response"} /\ turn' \in Peer
      BY <1>2, <2>1 DEF Stage
    <3>2. /\ eof' \in [Peer -> BOOLEAN] /\ done' \in [Peer -> BOOLEAN]
          /\ shut' \in [Peer -> BOOLEAN]
      BY <1>1, <2>1 DEF TypeOK
    <3> QED
      BY <1>1, <2>1, <3>1, <3>2, LoopTypes
  <2>3. FlowInv'
    BY <1>1, <2>1, QuietKeepsFlow
  <2> QED
    BY <2>1, <2>2, <2>3, LoopKeeps DEF Pumping
<1> QED
  BY <1>4, <1>5, <1>6, <1>7, <1>8, <1>9 DEF Pump

\* What the peers do changes neither what was read nor what was written.
LEMMA PeersKeep ==
  ASSUME ConnectionInv, NEW s \in Peer, PeerActs(s)
  PROVE  ConnectionInv'
<1>1. TypeOK /\ FlowInv /\ StageInv /\ BodyInv
  BY DEF ConnectionInv
<1>2. UNCHANGED <<pc, turn, ready, request, reply, read, held, eof, done, out, shut>>
  BY DEF PeerActs, PeerSends, PeerTakes, PeerEnds
<1>3. /\ sent[s] + 1 \in Nat /\ sent[s] <= sent[s] + 1 /\ Len(out[s]) \in Nat
      /\ sent \in [Peer -> Nat] /\ taken \in [Peer -> Nat]
      /\ fin \in [Peer -> {"open", "half", "closed", "reset"}]
  <2>1. sent[s] \in Nat /\ Len(out[s]) \in Nat
    BY <1>1, FlowTypes
  <2> QED
    BY <1>1, <2>1 DEF TypeOK
<1> DEFINE Grows == \A u \in Peer : sent[u] <= sent'[u] /\ (AtItsEnd(u) => AtItsEnd(u)')
<1>4. /\ sent' \in [Peer -> Nat] /\ taken' \in [Peer -> Nat]
      /\ fin' \in [Peer -> {"open", "half", "closed", "reset"}]
      /\ Grows
  <2>1. CASE PeerSends(s)
    <3>1. sent' = [sent EXCEPT ![s] = sent[s] + 1] /\ UNCHANGED <<fin, taken, read>> /\ fin[s] = "open"
      BY <2>1 DEF PeerSends
    <3>2. sent' \in [Peer -> Nat]
      BY <1>3, <3>1
    <3>3. ASSUME NEW u \in Peer PROVE sent[u] <= sent'[u] /\ (AtItsEnd(u) => AtItsEnd(u)')
      <4>1. CASE u = s
        BY <1>3, <3>1, <4>1 DEF AtItsEnd
      <4>2. CASE u # s
        <5>1. sent'[u] = sent[u] /\ sent[u] \in Nat
          BY <1>3, <3>1, <4>2
        <5> QED
          BY <3>1, <5>1 DEF AtItsEnd
      <4> QED
        BY <4>1, <4>2
    <3> QED
      BY <1>3, <3>1, <3>2, <3>3
  <2>2. CASE PeerTakes(s)
    <3>1. taken' = [taken EXCEPT ![s] = Len(out[s])] /\ UNCHANGED <<fin, sent, read>>
      BY <2>2 DEF PeerTakes
    <3>2. taken' \in [Peer -> Nat]
      BY <1>3, <3>1
    <3>3. \A u \in Peer : sent[u] <= sent'[u]
      BY <1>3, <3>1
    <3> QED
      BY <1>3, <3>1, <3>2, <3>3 DEF AtItsEnd
  <2>3. CASE PeerEnds(s)
    <3>1. PICK how \in {"half", "closed", "reset"} :
            fin' = [fin EXCEPT ![s] = how] /\ (fin[s] = "reset" => how = "reset")
      BY <2>3 DEF PeerEnds, Gone
    <3>2. UNCHANGED <<sent, taken, read>>
      BY <2>3 DEF PeerEnds
    <3>3. fin' \in [Peer -> {"open", "half", "closed", "reset"}]
      BY <1>3, <3>1
    <3>4. \A u \in Peer : sent[u] <= sent'[u]
      BY <1>3, <3>2
    <3>5. ASSUME NEW u \in Peer, AtItsEnd(u) PROVE AtItsEnd(u)'
      BY <1>3, <3>1, <3>2, <3>5 DEF AtItsEnd
    <3> QED
      BY <1>3, <3>2, <3>3, <3>4, <3>5
  <2> HIDE DEF Grows
  <2> QED
    BY <2>1, <2>2, <2>3 DEF PeerActs
<1>6. TypeOK'
  <2>1. /\ sent' \in [Peer -> Nat] /\ taken' \in [Peer -> Nat]
        /\ fin' \in [Peer -> {"open", "half", "closed", "reset"}]
    BY <1>4
  <2> HIDE DEF Grows
  <2>2. TypeOK
    BY <1>1
  <2> QED
    BY <1>2, <2>1, <2>2, PeerTypes
<1>7. FlowInv'
  <2>1. ASSUME NEW u \in Peer PROVE read[u] <= sent'[u]
    <3>1. read[u] <= sent[u] /\ read[u] \in Nat /\ sent[u] \in Nat /\ sent'[u] \in Nat
      BY <1>1, <1>4, FlowTypes DEF FlowInv, Flow, Counts
    <3>2. sent[u] <= sent'[u]
      BY <1>4
    <3> QED
      BY <3>1, <3>2
  <2> QED
    BY <1>1, <1>2, <1>4, <2>1 DEF FlowInv, Flow, Counts, InOrder, Flags
<1>5. StageInv' /\ BodyInv'
  BY <1>1, <1>2 DEF StageInv, BodyInv, Replying, Pumping, remaining, length, allowed,
                    host_matches, origin_matches
<1> QED
  BY <1>5, <1>6, <1>7 DEF ConnectionInv

LEMMA NextConnection == ConnectionInv /\ [Next]_vars => ConnectionInv'
<1> SUFFICES ASSUME ConnectionInv, [Next]_vars PROVE ConnectionInv'
  OBVIOUS
<1>1. CASE HandleConnection
  <2>1. ASSUME NEW n \in 1..CHUNK, ReadHead(n) \/ HeadTooLarge(n) \/ HeadComplete(n)
        PROVE  ConnectionInv'
    BY <2>1, HeadKeeps
  <2>2. ASSUME NEW n \in 1..CHUNK, ReadBody(n) \/ ReadResponse(n) \/ Copy(n)
        PROVE  ConnectionInv'
    BY <2>2, ReadBodyKeeps, ReadResponseKeeps, CopyKeeps
  <2>3. ASSUME NEW s \in Peer, NEW n \in 1..Len(held[s]), WriteAll(s, n)
        PROVE  ConnectionInv'
    BY <2>3, WriteAllKeeps
  <2>4. ASSUME NEW s \in Peer, Pump(s) PROVE ConnectionInv'
    <3>1. CASE PumpFails(s)
      BY <3>1, FailuresKeep
    <3>2. CASE ~PumpFails(s)
      BY <2>4, <3>2, PumpKeeps
    <3> QED
      BY <3>1, <3>2
  <2>5. CASE HeadFails \/ ConnectFails \/ RequestFails \/ BodyFails \/ ResponseFails
             \/ AnswerFails \/ CopyEnds \/ PumpEnds
    BY <2>5, FailuresKeep
  <2>6. CASE Connects
    BY <2>6, ConnectsKeeps
  <2>7. CASE Poll
    BY <2>7, PollKeeps
  <2> QED
    BY <1>1, <2>1, <2>2, <2>3, <2>4, <2>5, <2>6, <2>7 DEF HandleConnection
<1>2. ASSUME NEW s \in Peer, PeerActs(s) PROVE ConnectionInv'
  BY <1>2, PeersKeep
<1>3. CASE UNCHANGED vars
  <2>1. UNCHANGED <<pc, turn, ready, request, reply, fin, sent, read, held, eof, done, out, taken, shut>>
    BY <1>3 DEF vars
  <2>2. TypeOK'
    BY <2>1 DEF ConnectionInv, TypeOK
  <2>3. FlowInv'
    BY <2>1 DEF ConnectionInv, FlowInv, Flow, Counts, InOrder, Flags, AtItsEnd
  <2>4. StageInv' /\ BodyInv'
    BY <2>1 DEF ConnectionInv, StageInv, BodyInv, Replying, Pumping, remaining, length, allowed,
                host_matches, origin_matches
  <2> QED
    BY <2>2, <2>3, <2>4 DEF ConnectionInv
<1> QED
  BY <1>1, <1>2, <1>3 DEF Next

LEMMA ConnectionInvariant == Spec => []ConnectionInv
  BY InitConnection, NextConnection, PTL DEF Spec

\* A plain request is read to its end and no further, but for what came with the
\* read that completed the head: that read began inside the head.
NoFurther ==
    ~request.upgrade =>
        read["client"] <= request.head + length \/ read["client"] < request.head + CHUNK

LEMMA InitNoFurther == Init => NoFurther
<1> SUFFICES ASSUME Init PROVE NoFurther
  OBVIOUS
<1>1. read["client"] = 0
  BY DEF Init, Peer
<1>2. request.head \in Nat \ {0} /\ CHUNK \in Nat
  BY ConnectionAssumption DEF Init, RequestShape
<1> QED
  BY <1>1, <1>2 DEF NoFurther

LEMMA NextNoFurther == ConnectionInv /\ NoFurther /\ [Next]_vars => NoFurther'
<1> SUFFICES ASSUME ConnectionInv, NoFurther, [Next]_vars PROVE NoFurther'
  OBVIOUS
<1>1. request' = request
  BY DEF Next, HandleConnection, PeerActs, PeerSends, PeerTakes, PeerEnds, vars, Pump, ReadHead,
         HeadTooLarge, HeadComplete, HeadFails, ConnectFails, Connects, WriteAll, RequestFails,
         ReadBody, ReadResponse, Copy, BodyFails, ResponseFails, AnswerFails, CopyEnds, Poll,
         PumpEnds, PumpReads, PumpEof, PumpSkips, PumpWrites, PumpWritesNothing, PumpFails,
         PumpFinishes, PumpDone, Answer, GiveUp, Return
<1>2. "client" \in Peer /\ "backend" \in Peer
  BY DEF Peer
<1>3. /\ request.head \in Nat /\ CHUNK \in Nat /\ read["client"] \in Nat
      /\ request.length \in Nat \cup {NoLength} /\ read \in [Peer -> Nat]
  <2>1. request \in Request /\ read \in [Peer -> Nat]
    BY DEF ConnectionInv, TypeOK
  <2>2. request \in RequestShape /\ CHUNK \in Nat
    BY <2>1, ConnectionAssumption
  <2>3. request.head \in Nat /\ request.length \in Nat \cup {NoLength}
    BY <2>2 DEF RequestShape
  <2> QED
    BY <1>2, <2>1, <2>2, <2>3
<1>4. length \in Nat
  BY <1>3 DEF length
<1>5. CASE read'["client"] = read["client"]
  BY <1>1, <1>5 DEF NoFurther, length
<1>6. ASSUME NEW n \in 1..CHUNK, ReadHead(n) \/ HeadTooLarge(n) \/ HeadComplete(n)
      PROVE  NoFurther'
  <2>1. pc = "head" /\ read'["client"] = read["client"] + n
    BY <1>2, <1>3, <1>6 DEF ReadHead, HeadTooLarge, HeadComplete, Reads
  <2>2. Len(held["client"]) < request.head /\ out["backend"] = <<>>
    BY <2>1 DEF ConnectionInv, StageInv
  <2>3. Len(out["backend"]) + Len(held["client"]) = read["client"]
    BY <1>2 DEF ConnectionInv, FlowInv, Flow, Counts, other
  <2>4. Len(out["backend"]) = 0 /\ Len(held["client"]) \in Nat
    BY <1>2, <2>2, FlowTypes DEF ConnectionInv
  <2>5. read["client"] < request.head
    BY <2>2, <2>3, <2>4
  <2>6. read'["client"] < request.head + CHUNK
    BY <1>3, <2>1, <2>5
  <2> QED
    BY <1>1, <2>6 DEF NoFurther
<1>7. ASSUME NEW n \in 1..CHUNK, ReadBody(n)
      PROVE  NoFurther'
  <2>1. read'["client"] = read["client"] + n /\ n <= remaining
    BY <1>2, <1>3, <1>7 DEF ReadBody, BodyChunk, Reads
  <2>2. read'["client"] <= request.head + length
    BY <1>3, <1>4, <2>1 DEF remaining
  <2> QED
    BY <1>1, <2>2 DEF NoFurther, length
<1>8. ASSUME NEW n \in 1..CHUNK, ReadResponse(n) \/ Copy(n)
      PROVE  read'["client"] = read["client"]
  BY <1>2, <1>3, <1>8 DEF ReadResponse, Copy, Reads
<1>9. ASSUME NEW s \in Peer, NEW n \in 1..CHUNK, PumpReads(s, n)
      PROVE  NoFurther'
  BY <1>1, <1>9 DEF PumpReads, ConnectionInv, StageInv, Pumping, NoFurther
<1>10. ASSUME NEW s \in Peer, Pump(s), \A n \in 1..CHUNK : ~PumpReads(s, n)
       PROVE  read' = read
  BY <1>10 DEF Pump, PumpEof, PumpSkips, PumpWrites, PumpWritesNothing, PumpFails, PumpFinishes,
               PumpDone, GiveUp
<1>11. CASE \/ HeadFails \/ ConnectFails \/ Connects \/ RequestFails \/ BodyFails
            \/ ResponseFails \/ AnswerFails \/ CopyEnds \/ Poll \/ PumpEnds
  BY <1>5, <1>11 DEF HeadFails, ConnectFails, Connects, RequestFails, BodyFails, ResponseFails,
                     AnswerFails, CopyEnds, Poll, PumpEnds, GiveUp
<1>12. CASE \/ \E s \in Peer : \E n \in 1..Len(held[s]) : WriteAll(s, n)
            \/ \E s \in Peer : PeerActs(s)
            \/ UNCHANGED vars
  BY <1>5, <1>12 DEF WriteAll, PeerActs, PeerSends, PeerTakes, PeerEnds, vars
<1> QED
  BY <1>5, <1>6, <1>7, <1>8, <1>9, <1>10, <1>11, <1>12 DEF Next, HandleConnection

\* The accepted requests reach the dev server whole before anything is read from
\* it, with nothing beyond their end but what came with the head's last read, and
\* refused requests do not reach it at all.
THEOREM ConnectionRequestIsWhole == Spec => []RequestIsWhole
<1>1. ConnectionInv /\ NoFurther => RequestIsWhole
  <2> SUFFICES ASSUME ConnectionInv, NoFurther PROVE RequestIsWhole
    OBVIOUS
  <2>1. pc \in Replying \/ (~request.upgrade /\ out["client"] # <<>>) => ~request.upgrade
    BY DEF ConnectionInv, StageInv
  <2> QED
    BY <2>1 DEF ConnectionInv, BodyInv, NoFurther, RequestIsWhole, Replying
<1> QED
  BY <1>1, InitNoFurther, NextNoFurther, ConnectionInvariant, PTL DEF Spec

\* Every variable keeps its type and both head buffers their limit.
THEOREM ConnectionTypeCorrect == Spec => []TypeOK
  BY ConnectionInvariant, PTL DEF ConnectionInv

-----------------------------------------------------------------------------
(* Each direction implements Channel: every step of the bridge is a step of  *)
(* the stream from s, or leaves it alone.                                   *)

Complete(s) == fin[s] # "open" /\ Len(out[other(s)]) = sent[s]

Same(s) ==
    /\ sent'[s] = sent[s] /\ fin'[s] = fin[s]
    /\ out'[other(s)] = out[other(s)] /\ shut'[other(s)] = shut[other(s)]

Sent(s) ==
    /\ fin[s] = "open" /\ sent'[s] = sent[s] + 1 /\ fin'[s] = fin[s]
    /\ out'[other(s)] = out[other(s)] /\ shut'[other(s)] = shut[other(s)]

Ended(s) ==
    /\ fin'[s] # "open" /\ sent'[s] = sent[s]
    /\ out'[other(s)] = out[other(s)] /\ shut'[other(s)] = shut[other(s)]

Delivered(s) ==
    /\ ~shut[other(s)]
    /\ \E n \in 1..(sent[s] - Len(out[other(s)])) :
          out'[other(s)] = out[other(s)] \o [i \in 1..n |-> Len(out[other(s)]) + i]
    /\ sent'[s] = sent[s] /\ fin'[s] = fin[s] /\ shut'[other(s)] = shut[other(s)]

Closed(s) ==
    /\ Excused(s) \/ Complete(s)
    /\ shut'[other(s)] = TRUE
    /\ sent'[s] = sent[s] /\ fin'[s] = fin[s] /\ out'[other(s)] = out[other(s)]

StreamStep(s) == Same(s) \/ Sent(s) \/ Ended(s) \/ Delivered(s) \/ Closed(s)

\* A stream read to its end with nothing in hand is complete, or was reset.
LEMMA ReadToItsEnd ==
  ASSUME TypeOK, FlowInv, NEW s \in Peer, held[s] = <<>>, AtItsEnd(s)
  PROVE  Excused(s) \/ Complete(s)
<1>1. CASE fin[s] = "reset"
  BY <1>1 DEF Excused
<1>2. CASE fin[s] # "open" /\ read[s] = sent[s]
  <2>1. other(s) \in Peer /\ Len(held[s]) = 0
    BY FlowTypes
  <2>2. Len(out[other(s)]) \in Nat /\ Len(out[other(s)]) + Len(held[s]) = read[s]
    BY <2>1, FlowTypes DEF FlowInv, Flow, Counts
  <2> QED
    BY <1>2, <2>1, <2>2 DEF Complete
<1> QED
  BY <1>1, <1>2 DEF AtItsEnd

\* The sink of what is in hand from u is gone: neither stream has a way on.
LEMMA SinkIsGone ==
  ASSUME TypeOK, NEW u \in Peer, held[u] # <<>>, Gone(other(u)), NEW s \in Peer
  PROVE  Excused(s)
<1>1. s = u \/ (s = other(u) /\ other(s) = u)
  BY FlowTypes
<1> QED
  BY <1>1 DEF Excused, Gone

LEMMA NothingForwarded ==
  ASSUME TypeOK, out["backend"] = <<>>, NEW s \in Peer
  PROVE  Excused(s)
<1>1. request.head \in Nat \ {0} /\ Len(out["backend"]) = 0
  BY RemainingPieces
<1> QED
  BY <1>1 DEF Excused

\* When a plain request fails, its own stream is no longer owed anything.
LEMMA PlainClient ==
  ASSUME ~request.upgrade
  PROVE  Excused("client")
  BY DEF Excused

\* What every return may rely on.
Returning ==
    /\ pc' = "done"
    /\ shut' = [s \in Peer |-> TRUE]
    /\ UNCHANGED <<fin, sent, out>>

LEMMA ReturnCloses ==
  ASSUME Returning, NEW s \in Peer, Excused(s) \/ Complete(s)
  PROVE  Closed(s)
<1>1. other(s) \in Peer
  BY DEF Peer, other
<1>2. shut'[other(s)] = TRUE
  BY <1>1 DEF Returning
<1> QED
  BY <1>2 DEF Returning, Closed

LEMMA EarlyReturns ==
  ASSUME ConnectionInv, NEW s \in Peer, pc \in {"head", "connect"},
         UNCHANGED <<fin, sent, out>>, Returning \/ UNCHANGED shut
  PROVE  StreamStep(s)
<1>1. CASE Returning
  <2>1. Excused(s)
    BY NothingForwarded DEF ConnectionInv, StageInv
  <2> QED
    BY <1>1, <2>1, ReturnCloses DEF StreamStep
<1>2. CASE UNCHANGED shut
  BY <1>2 DEF StreamStep, Same
<1> QED
  BY <1>1, <1>2

LEMMA FailuresClose ==
  ASSUME ConnectionInv, NEW s \in Peer,
         \/ RequestFails \/ BodyFails \/ ResponseFails \/ AnswerFails \/ CopyEnds \/ PumpEnds
         \/ \E u \in Peer : PumpFails(u)
  PROVE  StreamStep(s)
<1>1. TypeOK /\ FlowInv /\ StageInv
  BY DEF ConnectionInv
<1>2. Returning
  BY DEF RequestFails, BodyFails, ResponseFails, AnswerFails, CopyEnds, PumpEnds, PumpFails,
         GiveUp, Answer, Return, Returning
<1> SUFFICES Excused(s) \/ Complete(s)
  BY <1>2, ReturnCloses DEF StreamStep
<1>3. "client" \in Peer /\ "backend" \in Peer /\ other("client") = "backend" /\ other("backend") = "client"
  BY DEF Peer, other
<1>4. CASE RequestFails
  <2>1. held["client"] # <<>> /\ Gone(other("client"))
    BY <1>1, <1>3, <1>4 DEF RequestFails, StageInv
  <2> QED
    BY <1>1, <1>3, <2>1, SinkIsGone
<1>5. CASE BodyFails
  <2>1. ~request.upgrade /\ pc = "exact"
    BY <1>1, <1>5 DEF BodyFails, StageInv
  <2>2. CASE held["client"] # <<>>
    <3>1. Gone(other("client"))
      BY <1>3, <1>5, <2>2 DEF BodyFails
    <3> QED
      BY <1>1, <1>3, <2>2, <3>1, SinkIsGone
  <2>3. CASE held["client"] = <<>>
    <3>1. remaining > 0
      BY <1>1, <2>1, <2>3 DEF StageInv
    <3>2. Len(out["backend"]) + Len(held["client"]) = read["client"]
      BY <1>1, <1>3 DEF FlowInv, Flow, Counts
    <3>3. Len(out["backend"]) \in Nat /\ Len(held["client"]) = 0
      BY <1>1, <1>3, <2>3, FlowTypes
    <3>4. Len(out["backend"]) = read["client"]
      BY <3>2, <3>3
    <3>5. read["client"] < request.head + length
      <4>1. request.head + length \in Int /\ read["client"] \in Int
        <5>1. request.head \in Int /\ length \in Int
          BY <1>1, RemainingPieces
        <5>2. read["client"] \in Int
          BY <1>1, <1>3, FlowTypes
        <5> QED
          BY <5>1, <5>2
      <4> QED
        BY <3>1, <4>1 DEF remaining
    <3>6. s = "backend" => Excused(s)
      BY <2>1, <3>4, <3>5 DEF Excused
    <3> QED
      BY <2>1, <3>6, PlainClient DEF Peer
  <2> QED
    BY <2>2, <2>3
<1>6. CASE ResponseFails
  <2>1. ~request.upgrade /\ out["client"] = <<>> /\ Len(held["backend"]) < request.answer
    BY <1>1, <1>6 DEF ResponseFails, StageInv, Replying
  <2>2. CASE AtEof("backend")
    <3>1. sent["backend"] \in Nat /\ read["backend"] \in Nat /\ Len(held["backend"]) \in Nat
      BY <1>1, <1>3, FlowTypes
    <3>2. sent["backend"] - read["backend"] = 0
      BY <2>2 DEF AtEof, Unread
    <3>3. Len(out["client"]) + Len(held["backend"]) = read["backend"]
      BY <1>1, <1>3 DEF FlowInv, Flow, Counts
    <3>4. Len(out["client"]) = 0
      BY <2>1
    <3>5. sent["backend"] < request.answer
      BY <2>1, <3>1, <3>2, <3>3, <3>4
    <3>6. s = "backend" => Excused(s)
      BY <2>1, <3>5 DEF Excused
    <3> QED
      BY <2>1, <3>6, PlainClient DEF Peer
  <2>3. CASE ReadFails("backend")
    <3>1. Excused("backend")
      BY <2>3 DEF ReadFails, Excused
    <3> QED
      BY <2>1, <3>1, PlainClient DEF Peer
  <2> QED
    BY <1>6, <2>2, <2>3 DEF ResponseFails
<1>7. CASE AnswerFails
  <2>1. ~request.upgrade /\ Gone(other("backend"))
    BY <1>1, <1>3, <1>7 DEF AnswerFails, StageInv, Replying
  <2>2. Excused("backend")
    BY <2>1 DEF Excused
  <2> QED
    BY <2>1, <2>2, PlainClient DEF Peer
<1>8. CASE CopyEnds
  <2>1. ~request.upgrade
    BY <1>1, <1>8 DEF CopyEnds, StageInv, Replying
  <2>2. CASE held["backend"] # <<>>
    <3>1. Gone(other("backend"))
      BY <1>3, <1>8, <2>2 DEF CopyEnds
    <3> QED
      BY <1>1, <1>3, <2>2, <3>1, SinkIsGone
  <2>3. CASE held["backend"] = <<>>
    <3>1. sent["backend"] \in Nat /\ read["backend"] \in Nat
      BY <1>1, <1>3, FlowTypes
    <3>2. AtItsEnd("backend")
      BY <1>8, <2>3, <3>1 DEF CopyEnds, AtEof, ReadFails, Unread, AtItsEnd
    <3>3. Excused("backend") \/ Complete("backend")
      BY <1>1, <1>3, <2>3, <3>2, ReadToItsEnd
    <3> QED
      BY <2>1, <3>3, PlainClient DEF Peer
  <2> QED
    BY <2>2, <2>3
<1>9. CASE PumpEnds
  <2>1. other(s) \in Peer /\ other(other(s)) = s
    BY <1>1, FlowTypes
  <2>2. ~WantsIn(s) /\ ~WantsOut(other(s))
    BY <1>9, <2>1 DEF PumpEnds
  <2>3. Flow(s)
    BY <1>1 DEF FlowInv
  <2>4. eof[s] /\ held[s] = <<>>
    BY <2>1, <2>2, <2>3 DEF WantsIn, WantsOut, Flow, Flags
  <2>5. AtItsEnd(s)
    BY <2>3, <2>4 DEF Flow, Flags
  <2> QED
    BY <1>1, <2>4, <2>5, ReadToItsEnd
<1>10. ASSUME NEW u \in Peer, PumpFails(u) PROVE Excused(s)
  <2>1. held[u] # <<>> /\ Gone(other(u))
    BY <1>10 DEF PumpFails
  <2> QED
    BY <1>1, <2>1, SinkIsGone
<1> QED
  BY <1>4, <1>5, <1>6, <1>7, <1>8, <1>9, <1>10

LEMMA HeldIsUndelivered ==
  ASSUME NEW a \in Nat, NEW b \in Nat, NEW r \in Nat, NEW z \in Nat, NEW n \in 1..b,
         a + b = r, r <= z
  PROVE  n \in 1..(z - a)
  OBVIOUS

LEMMA WritesDeliver ==
  ASSUME ConnectionInv, NEW s \in Peer, NEW u \in Peer, NEW n, Writes(u, n),
         UNCHANGED <<fin, sent, read, eof, done, shut>>, pc # "done"
  PROVE  StreamStep(s)
<1>1. TypeOK /\ FlowInv
  BY DEF ConnectionInv
<1>2. /\ n \in 1..Len(held[u]) /\ ~done[u] /\ out'[u] = out[u]
      /\ out'[other(u)] = out[other(u)] \o [i \in 1..n |-> Len(out[other(u)]) + i]
  BY <1>1, WriteKeepsFlow
<1>3. s = u \/ (s = other(u) /\ other(s) = u)
  BY <1>1, FlowTypes
<1>4. CASE s = u
  <2>1. Flow(u)
    BY <1>1 DEF FlowInv
  <2>2. ~shut[other(u)]
    BY <1>2, <2>1 DEF Flow, Flags
  <2>3. Len(out[other(u)]) + Len(held[u]) = read[u] /\ read[u] <= sent[u]
    BY <2>1 DEF Flow, Counts
  <2>4. /\ Len(out[other(u)]) \in Nat /\ Len(held[u]) \in Nat
        /\ read[u] \in Nat /\ sent[u] \in Nat
    <3>1. other(u) \in Peer
      BY <1>1, FlowTypes
    <3> QED
      BY <1>1, <3>1, FlowTypes
  <2>5. n \in 1..(sent[u] - Len(out[other(u)]))
    <3>1. n \in 1..Len(held[u])
      BY <1>2
    <3> QED
      BY <2>3, <2>4, <3>1, HeldIsUndelivered
  <2> QED
    BY <1>2, <1>4, <2>2, <2>5 DEF StreamStep, Delivered
<1>5. CASE s = other(u) /\ other(s) = u
  BY <1>2, <1>5 DEF StreamStep, Same
<1> QED
  BY <1>3, <1>4, <1>5

LEMMA PumpStreams ==
  ASSUME ConnectionInv, NEW s \in Peer, NEW u \in Peer, Pump(u)
  PROVE  StreamStep(s)
<1>1. TypeOK /\ FlowInv /\ StageInv
  BY DEF ConnectionInv
<1>2. CASE UNCHANGED <<fin, sent, out, shut>>
  BY <1>2 DEF StreamStep, Same
<1>3. ASSUME NEW n \in 1..Len(held[u]), PumpWrites(u, n) PROVE StreamStep(s)
  <2>1. Writes(u, n) /\ UNCHANGED <<fin, sent, read, eof, done, shut>> /\ pc # "done"
    BY <1>3 DEF PumpWrites
  <2> QED
    BY <2>1, WritesDeliver
<1>4. CASE PumpFinishes(u)
  <2>1. /\ shut' = [shut EXCEPT ![other(u)] = PassedOn(u)]
        /\ UNCHANGED <<fin, sent, out>> /\ pc = "finish" /\ turn = u
    BY <1>4 DEF PumpFinishes
  <2>2. other(u) \in Peer /\ other(u) # u /\ (s = u \/ (s = other(u) /\ other(s) = u))
    BY <1>1, FlowTypes
  <2>3. shut \in [Peer -> BOOLEAN]
    BY <1>1 DEF TypeOK
  <2>4. CASE s # u
    <3>1. shut'[u] = shut[u]
      BY <2>1, <2>2, <2>3
    <3> QED
      BY <2>1, <2>2, <2>4, <3>1 DEF StreamStep, Same
  <2>5. CASE s = u
    <3>1. shut'[other(u)] = PassedOn(u)
      BY <2>1, <2>2, <2>3
    <3>2. Flow(u) /\ ~done[u]
      BY <1>1, <2>1 DEF FlowInv, StageInv
    <3>3. CASE PassedOn(u)
      <4>1. Excused(u) \/ Complete(u)
        BY <1>1, <3>2, <3>3, ReadToItsEnd DEF PassedOn, Flow, Flags
      <4> QED
        BY <2>1, <2>5, <3>1, <3>3, <4>1 DEF StreamStep, Closed
    <3>4. CASE ~PassedOn(u)
      <4>1. shut[other(u)] = FALSE
        BY <2>1, <2>2, <2>3, <3>2 DEF Flow, Flags
      <4>2. PassedOn(u) = FALSE
        <5>1. PassedOn(u) \in BOOLEAN
          BY <1>1 DEF PassedOn, TypeOK
        <5> QED
          BY <3>4, <5>1
      <4> QED
        BY <2>1, <2>5, <3>1, <4>1, <4>2 DEF StreamStep, Same
    <3> QED
      BY <3>3, <3>4
  <2> QED
    BY <2>4, <2>5
<1>5. CASE PumpFails(u)
  BY <1>5, FailuresClose
<1>6. CASE (\E n \in 1..CHUNK : PumpReads(u, n)) \/ PumpEof(u) \/ PumpSkips(u)
             \/ PumpWritesNothing(u) \/ PumpDone(u)
  BY <1>2, <1>6 DEF PumpReads, PumpEof, PumpSkips, PumpWritesNothing, PumpDone
<1> QED
  BY <1>3, <1>4, <1>5, <1>6 DEF Pump

LEMMA PeerStreams ==
  ASSUME ConnectionInv, NEW s \in Peer, NEW u \in Peer, PeerActs(u)
  PROVE  StreamStep(s)
<1>1. TypeOK
  BY DEF ConnectionInv
<1>2. UNCHANGED <<out, shut>>
  BY DEF PeerActs, PeerSends, PeerTakes, PeerEnds
<1>3. fin \in [Peer -> {"open", "half", "closed", "reset"}] /\ sent \in [Peer -> Nat]
  BY <1>1 DEF TypeOK
<1>4. CASE PeerSends(u)
  <2>1. sent' = [sent EXCEPT ![u] = sent[u] + 1] /\ fin[u] = "open" /\ UNCHANGED fin
    BY <1>4 DEF PeerSends
  <2>2. CASE s = u
    BY <1>2, <1>3, <2>1, <2>2 DEF StreamStep, Sent
  <2>3. CASE s # u
    BY <1>2, <1>3, <2>1, <2>3 DEF StreamStep, Same
  <2> QED
    BY <2>2, <2>3
<1>5. CASE PeerTakes(u)
  BY <1>2, <1>5 DEF StreamStep, Same, PeerTakes
<1>6. CASE PeerEnds(u)
  <2>1. PICK how \in {"half", "closed", "reset"} : fin' = [fin EXCEPT ![u] = how]
    BY <1>6 DEF PeerEnds
  <2>2. UNCHANGED sent
    BY <1>6 DEF PeerEnds
  <2>3. CASE s = u
    <3>1. fin'[s] = how
      BY <1>3, <2>1, <2>3
    <3> QED
      BY <1>2, <2>2, <3>1 DEF StreamStep, Ended
  <2>4. CASE s # u
    BY <1>2, <1>3, <2>1, <2>2, <2>4 DEF StreamStep, Same
  <2> QED
    BY <2>3, <2>4
<1> QED
  BY <1>4, <1>5, <1>6 DEF PeerActs

LEMMA StepStreams ==
  ASSUME ConnectionInv, [Next]_vars, NEW s \in Peer
  PROVE  StreamStep(s)
<1>1. CASE UNCHANGED <<fin, sent, out, shut>>
  BY <1>1 DEF StreamStep, Same
<1>2. CASE pc \in {"head", "connect"} /\ HandleConnection
  <2>1. UNCHANGED <<fin, sent, out>> /\ (Returning \/ UNCHANGED shut)
    BY <1>2 DEF HandleConnection, ReadHead, HeadTooLarge, HeadComplete, HeadFails, ConnectFails,
                Connects, WriteAll, RequestFails, ReadBody, ReadResponse, Copy, BodyFails,
                ResponseFails, AnswerFails, CopyEnds, Poll, PumpEnds, Pump, PumpReads, PumpEof,
                PumpSkips, PumpWrites, PumpWritesNothing, PumpFails, PumpFinishes, PumpDone,
                Answer, Return, Returning
  <2> QED
    BY <1>2, <2>1, EarlyReturns
<1>3. CASE pc \notin {"head", "connect"} /\ HandleConnection
  <2>1. ASSUME NEW u \in Peer, NEW n \in 1..Len(held[u]), WriteAll(u, n) PROVE StreamStep(s)
    <3>1. Writes(u, n) /\ UNCHANGED <<fin, sent, read, eof, done, shut>> /\ pc # "done"
      BY <2>1 DEF WriteAll
    <3> QED
      BY <3>1, WritesDeliver
  <2>2. ASSUME NEW n \in 1..CHUNK, ReadBody(n) \/ Copy(n) PROVE StreamStep(s)
    BY <1>1, <2>2 DEF ReadBody, Copy
  <2>3. ASSUME NEW n \in 1..CHUNK, ReadResponse(n) PROVE StreamStep(s)
    <3>1. CASE UNCHANGED shut
      BY <1>1, <2>3, <3>1 DEF ReadResponse, Return
    <3>2. CASE ~UNCHANGED shut
      <4>1. Returning /\ ~request.upgrade
        BY <2>3, <3>2 DEF ReadResponse, Return, Returning, ConnectionInv, StageInv, Replying
      <4>2. /\ TooLarge(Len(held["backend"]) + n)
            /\ Len(held["backend"]) + n < request.answer
        BY <2>3, <3>2, RemainingPieces, FlowTypes, ChunkIsNat DEF ReadResponse, ConnectionInv, Peer
      <4>3. request.answer > MAX_HEADER_BYTES
        <5>1. Len(held["backend"]) \in Nat /\ n \in Nat
          BY FlowTypes, ChunkIsNat DEF ConnectionInv, Peer
        <5>2. request.answer \in Nat /\ MAX_HEADER_BYTES \in Nat
          BY RemainingPieces, ConnectionAssumption DEF ConnectionInv
        <5> QED
          BY <4>2, <5>1, <5>2 DEF TooLarge
      <4>4. Excused(s)
        BY <4>1, <4>3 DEF Excused, Peer
      <4> QED
        BY <4>1, <4>4, ReturnCloses DEF StreamStep
    <3> QED
      BY <3>1, <3>2
  <2>4. ASSUME NEW u \in Peer, Pump(u) PROVE StreamStep(s)
    BY <2>4, PumpStreams
  <2>5. CASE RequestFails \/ BodyFails \/ ResponseFails \/ AnswerFails \/ CopyEnds \/ PumpEnds
    BY <2>5, FailuresClose
  <2>6. CASE Poll
    BY <1>1, <2>6 DEF Poll
  <2> QED
    BY <1>3, <2>1, <2>2, <2>3, <2>4, <2>5, <2>6
       DEF HandleConnection, ReadHead, HeadTooLarge, HeadComplete, HeadFails, ConnectFails, Connects
<1>4. ASSUME NEW u \in Peer, PeerActs(u) PROVE StreamStep(s)
  BY <1>4, PeerStreams
<1>5. CASE UNCHANGED vars
  BY <1>1, <1>5 DEF vars
<1> QED
  BY <1>2, <1>3, <1>4, <1>5 DEF Next

LEMMA InitStreams == Init => FromClient!Init /\ FromBackend!Init
  BY DEF Init, FromClient!Init, FromBackend!Init, Peer

LEMMA ClientStep ==
  ASSUME StreamStep("client") PROVE [FromClient!Next]_(FromClient!chanvars)
<1>1. other("client") = "backend"
  BY DEF other
<1> QED
  BY <1>1 DEF StreamStep, Same, Sent, Ended, Delivered, Closed, Complete, FromClient!Next, FromClient!Send,
              FromClient!End, FromClient!Deliver, FromClient!Close, FromClient!chanvars

LEMMA BackendStep ==
  ASSUME StreamStep("backend") PROVE [FromBackend!Next]_(FromBackend!chanvars)
<1>1. other("backend") = "client"
  BY DEF other
<1> QED
  BY <1>1 DEF StreamStep, Same, Sent, Ended, Delivered, Closed, Complete, FromBackend!Next, FromBackend!Send,
              FromBackend!End, FromBackend!Deliver, FromBackend!Close, FromBackend!chanvars

\* Both directions of every connection, plain or upgraded, implement Channel: the
\* bridge delivers what was sent in order and once, and ends a stream early only
\* with an excuse.
THEOREM ConnectionStreams == Spec => Streams
<1>1. ConnectionInv /\ [Next]_vars =>
        [FromClient!Next]_(FromClient!chanvars) /\ [FromBackend!Next]_(FromBackend!chanvars)
  BY StepStreams, ClientStep, BackendStep DEF Peer
<1> QED
  BY <1>1, InitStreams, ConnectionInvariant, PTL
     DEF Spec, Streams, FromClient!Spec, FromBackend!Spec
=============================================================================
