---------------------------- MODULE CaptureProofs ----------------------------
(***************************************************************************)
(* Capture returns whole outputs, for pipes and programs of every size.      *)
(*                                                                         *)
(* WholeOutput is about the moment of the return; what makes it inductive    *)
(* is that a pipe at its end stays there: a program that has exited forks no  *)
(* more, and a pipe without holders is not written to.                      *)
(***************************************************************************)
EXTENDS Capture, TLAPS

\* stdout is at its end and was read to it.
Drained == holders = {} /\ got["out"] = written["out"]

\* Each way of running a program stays on its own path.
PathInv ==
    /\ threaded => pc \notin {"read_out", "read_err"}
    /\ ~threaded => ~reader /\ pc \notin {"join", "join_late"}

\* Who has seen the end of stdout.
DrainedInv ==
    /\ threaded /\ ~reader => Drained
    /\ pc = "read_err" => Drained
    /\ result = "ok" => Drained /\ (threaded \/ success)

\* A program that reports success has printed everything.
SuccessInv == success => written = size

CaptureInv == TypeOK /\ PathInv /\ DrainedInv /\ SuccessInv

LEMMA InitCapture == Init => CaptureInv
<1> SUFFICES ASSUME Init PROVE CaptureInv
  OBVIOUS
<1>1. 0 \in 0..SIZE /\ 0 <= 0 + PIPE
  BY CaptureAssumption
<1>2. written \in [Stream -> 0..SIZE] /\ got \in [Stream -> 0..SIZE]
  BY <1>1 DEF Init
<1>3. \A f \in Stream : got[f] <= written[f] /\ written[f] <= got[f] + PIPE
  BY <1>1 DEF Init
<1>4. TypeOK
  BY <1>2, <1>3 DEF Init, TypeOK
<1> QED
  BY <1>4 DEF Init, CaptureInv, PathInv, DrainedInv, SuccessInv

\* One more piece of a counter that is below its bound.
LEMMA OneMore ==
  ASSUME NEW n \in 0..SIZE, NEW m \in 0..SIZE, n < m
  PROVE  n + 1 \in 0..SIZE /\ n + 1 <= m
  BY CaptureAssumption

\* A read takes a piece that was written.
LEMMA ReadsTypes ==
  ASSUME TypeOK, NEW f \in Stream, Reads(f), UNCHANGED written
  PROVE  /\ got' \in [Stream -> 0..SIZE]
         /\ \A g \in Stream : got'[g] <= written'[g] /\ written'[g] <= got'[g] + PIPE
<1>1. got \in [Stream -> 0..SIZE] /\ written \in [Stream -> 0..SIZE]
  BY DEF TypeOK
<1>2. got[f] \in 0..SIZE /\ written[f] \in 0..SIZE /\ got[f] < written[f]
  BY <1>1 DEF Reads
<1>3. got[f] + 1 \in 0..SIZE /\ got[f] + 1 <= written[f]
  BY <1>2, OneMore
<1>4. got' = [got EXCEPT ![f] = got[f] + 1]
  BY DEF Reads
<1>5. got' \in [Stream -> 0..SIZE]
  BY <1>1, <1>3, <1>4
<1>6. ASSUME NEW g \in Stream
      PROVE  got'[g] <= written'[g] /\ written'[g] <= got'[g] + PIPE
  <2>1. /\ got[g] \in 0..SIZE /\ written[g] \in 0..SIZE
        /\ got[g] <= written[g] /\ written[g] <= got[g] + PIPE
    BY DEF TypeOK
  <2>2. got'[g] = IF g = f THEN got[f] + 1 ELSE got[g]
    BY <1>1, <1>4
  <2> QED
    BY <1>3, <2>1, <2>2, CaptureAssumption
<1> QED
  BY <1>5, <1>6

\* At its end stdout is not read any further.
LEMMA ReadKeepsDrained ==
  ASSUME TypeOK, Drained, NEW f \in Stream, Reads(f), UNCHANGED <<written, holders>>
  PROVE  Drained'
<1>1. got[f] \in 0..SIZE /\ got[f] < written[f] /\ written[f] \in 0..SIZE
  BY DEF TypeOK, Reads
<1>2. f # "out"
  BY <1>1 DEF Drained
<1>3. got' = [got EXCEPT ![f] = got[f] + 1] /\ got \in [Stream -> 0..SIZE]
  BY DEF Reads, TypeOK
<1>4. got'["out"] = got["out"]
  BY <1>2, <1>3 DEF Stream
<1> QED
  BY <1>4 DEF Drained

\* A write finds room in its pipe.
LEMMA WritesTypes ==
  ASSUME TypeOK, NEW f \in Stream, Writes(f)
  PROVE  /\ written' \in [Stream -> 0..SIZE]
         /\ \A g \in Stream : got'[g] <= written'[g] /\ written'[g] <= got'[g] + PIPE
<1>1. /\ got \in [Stream -> 0..SIZE] /\ written \in [Stream -> 0..SIZE]
      /\ size \in [Stream -> 0..SIZE]
  BY DEF TypeOK
<1>2. /\ written[f] \in 0..SIZE /\ size[f] \in 0..SIZE /\ written[f] < size[f]
      /\ got[f] \in 0..SIZE /\ written[f] < got[f] + PIPE
  BY <1>1 DEF Writes
<1>3. written[f] + 1 \in 0..SIZE
  BY <1>2, OneMore
<1>4. written' = [written EXCEPT ![f] = written[f] + 1] /\ got' = got
  BY DEF Writes
<1>5. written' \in [Stream -> 0..SIZE]
  BY <1>1, <1>3, <1>4
<1>6. ASSUME NEW g \in Stream
      PROVE  got'[g] <= written'[g] /\ written'[g] <= got'[g] + PIPE
  <2>1. /\ got[g] \in 0..SIZE /\ written[g] \in 0..SIZE
        /\ got[g] <= written[g] /\ written[g] <= got[g] + PIPE
    BY DEF TypeOK
  <2>2. written'[g] = IF g = f THEN written[f] + 1 ELSE written[g]
    BY <1>1, <1>4
  <2> QED
    BY <1>2, <1>4, <2>1, <2>2, CaptureAssumption
<1> QED
  BY <1>5, <1>6

\* The steps of the caller and of its thread.
LEMMA CallerKeeps ==
  ASSUME CaptureInv, Caller \/ Reader
  PROVE  CaptureInv'
<1> USE DEF CaptureInv, PathInv, DrainedInv, SuccessInv, Drained
<1>1. CASE TryWait
  BY <1>1 DEF TryWait, TypeOK
<1>2. CASE Expires
  BY <1>2 DEF Expires, TypeOK
<1>3. CASE Kills
  BY <1>3 DEF Kills, TypeOK
<1>4. ASSUME ReadStream("out", "read_out") \/ ReadStream("err", "read_err")
      PROVE  CaptureInv'
  <2>1. PICK f \in Stream : Reads(f) /\ UNCHANGED written
    BY <1>4 DEF ReadStream, Stream
  <2>2. TypeOK'
    BY <1>4, <2>1, ReadsTypes DEF ReadStream, TypeOK
  <2>3. (PathInv /\ SuccessInv)'
    BY <1>4 DEF ReadStream
  <2>4. Drained => Drained'
    BY <1>4, <2>1, ReadKeepsDrained DEF ReadStream
  <2>5. DrainedInv'
    BY <1>4, <2>4 DEF ReadStream
  <2> QED
    BY <2>2, <2>3, <2>5
<1>5. CASE EndOfOut \/ EndOfErr
  <2>1. CASE EndOfOut
    BY <1>5, <2>1 DEF EndOfOut, AtEof, TypeOK
  <2>2. CASE EndOfErr
    <3>1. TypeOK'
      BY <2>2 DEF EndOfErr, TypeOK
    <3>2. (PathInv /\ SuccessInv)'
      BY <2>2 DEF EndOfErr
    <3>3. DrainedInv'
      BY <2>2 DEF EndOfErr
    <3> QED
      BY <3>1, <3>2, <3>3
  <2> QED
    BY <1>5, <2>1, <2>2
<1>6. CASE ReaderReads
  <2>1. "out" \in Stream /\ Reads("out") /\ UNCHANGED written
    BY <1>6 DEF ReaderReads, Stream
  <2>2. TypeOK'
    BY <1>6, <2>1, ReadsTypes DEF ReaderReads, TypeOK
  <2>3. (PathInv /\ SuccessInv)'
    BY <1>6 DEF ReaderReads
  <2>4. Drained => Drained'
    BY <1>6, <2>1, ReadKeepsDrained DEF ReaderReads
  <2>5. DrainedInv'
    BY <1>6, <2>4 DEF ReaderReads
  <2> QED
    BY <2>2, <2>3, <2>5
<1>7. CASE ReaderEnds
  BY <1>7 DEF ReaderEnds, AtEof, TypeOK
<1>8. CASE Joins
  BY <1>8 DEF Joins, TypeOK
<1> QED
  BY <1>1, <1>2, <1>3, <1>4, <1>5, <1>6, <1>7, <1>8 DEF Caller, Reader

\* The steps of the program and its child, and the passing of time.
LEMMA ProgramKeeps ==
  ASSUME CaptureInv,
         (\E f \in Stream : Writes(f)) \/ Forks \/ Exits \/ HeirEnds \/ DeadlinePasses
         \/ UNCHANGED vars
  PROVE  CaptureInv'
<1> USE DEF CaptureInv, PathInv, DrainedInv, SuccessInv, Drained
<1>1. ASSUME NEW f \in Stream, Writes(f) PROVE CaptureInv'
  <2>1. TypeOK'
    BY <1>1, WritesTypes DEF Writes, TypeOK
  <2>2. (PathInv /\ DrainedInv)'
    BY <1>1 DEF Writes
  <2>3. ~success
    <3>1. written[f] \in 0..SIZE /\ written[f] < size[f]
      BY <1>1 DEF Writes, TypeOK
    <3>2. written # size
      BY <3>1
    <3> QED
      BY <3>2
  <2>4. SuccessInv'
    BY <1>1, <2>3 DEF Writes
  <2> QED
    BY <2>1, <2>2, <2>4
<1>2. CASE Forks
  BY <1>2 DEF Forks, TypeOK
<1>3. CASE Exits
  BY <1>3 DEF Exits, AllWritten, TypeOK
<1>4. CASE HeirEnds
  BY <1>4 DEF HeirEnds, TypeOK
<1>5. CASE DeadlinePasses
  BY <1>5 DEF DeadlinePasses, TypeOK
<1>6. CASE UNCHANGED vars
  BY <1>6 DEF vars, TypeOK
<1> QED
  BY <1>1, <1>2, <1>3, <1>4, <1>5, <1>6

\* The inductive invariant itself.
LEMMA CaptureInvariant == Spec => []CaptureInv
<1>1. CaptureInv /\ [Next]_vars => CaptureInv'
  BY CallerKeeps, ProgramKeeps DEF Next
<1> QED
  BY InitCapture, <1>1, PTL DEF Spec

\* No pipe ever holds more than it can, and no way past the wait for the program is
\* taken before it was reaped: no zombie is left by an answer or a timeout.
THEOREM CaptureTypeCorrect == Spec => []TypeOK
  BY CaptureInvariant, PTL DEF CaptureInv

\* Output that is returned is all of it, whatever was written while the exit status
\* was asked for.
THEOREM CaptureWholeOutput == Spec => []WholeOutput
<1>1. CaptureInv => WholeOutput
  BY DEF CaptureInv, DrainedInv, SuccessInv, Drained, WholeOutput
<1> QED
  BY CaptureInvariant, <1>1, PTL
=============================================================================
