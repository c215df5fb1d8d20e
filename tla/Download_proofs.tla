--------------------------- MODULE Download_proofs ---------------------------
(***************************************************************************)
(* Proofs about Download, for every size, chunk size, interval and number  *)
(* of retries.                                                             *)
(***************************************************************************)
EXTENDS Download, TLAPS, SequenceTheorems, WellFoundedInduction

-----------------------------------------------------------------------------
(***************************************************************************)
(* Lemmas about the helpers.                                               *)
(***************************************************************************)

(***************************************************************************)
(* A non-empty set of numbers has a least element.                         *)
(***************************************************************************)
LEMMA LeastIsLeast ==
    ASSUME NEW S \in SUBSET Nat, S # {}
    PROVE  Least(S) \in S /\ \A q \in S : Least(S) <= q
<1>1. \E x \in S : \A y \in S : ~(<<y, x>> \in OpToRel(<, Nat))
  BY WFMin, NatLessThanWellFounded
<1>2. \A x, y \in S : ~(<<y, x>> \in OpToRel(<, Nat)) => x <= y
  BY DEF OpToRel
<1>3. \E p \in S : \A q \in S : p <= q
  BY <1>1, <1>2
<1> QED
  BY <1>3 DEF Least

(***************************************************************************)
(* A slice is a sequence of bytes, of the length asked for.                *)
(***************************************************************************)
LEMMA SliceIsContents ==
    ASSUME NEW o \in Objects, NEW from \in Nat, NEW n \in Nat
    PROVE  Slice(o, from, n) \in Contents /\ Len(Slice(o, from, n)) = n
<1>1. \A i \in 1..n : <<o, from + i>> \in Bytes
  BY DEF Bytes
<1> QED
  BY <1>1 DEF Slice, Contents

(***************************************************************************)
(* Adjacent slices make one slice.                                         *)
(***************************************************************************)
LEMMA SlicesConcatenate ==
    ASSUME NEW o \in Objects, NEW m \in Nat, NEW n \in Nat
    PROVE  Slice(o, 0, m) \o Slice(o, m, n) = Slice(o, 0, m + n)
<1> DEFINE left == Slice(o, 0, m)
           right == Slice(o, m, n)
           both == Slice(o, 0, m + n)
<1>1. /\ left \in Seq(Bytes) /\ Len(left) = m
      /\ right \in Seq(Bytes) /\ Len(right) = n
      /\ both \in Seq(Bytes) /\ Len(both) = m + n
  BY SliceIsContents DEF Contents
<1>2. \A i \in 1..(m + n) : both[i] = <<o, i>>
  BY DEF Slice
<1>3. \A i \in 1..m : left[i] = <<o, i>>
  BY DEF Slice
<1>4. \A i \in 1..n : right[i] = <<o, m + i>>
  BY DEF Slice
<1> HIDE DEF left, right, both
<1>5. /\ left \o right \in Seq(Bytes)
      /\ Len(left \o right) = m + n
      /\ \A i \in 1..(m + n) : (left \o right)[i] =
                               IF i <= m THEN left[i] ELSE right[i - m]
  BY <1>1, ConcatProperties
<1>6. ASSUME NEW i \in 1..(m + n)
      PROVE  (left \o right)[i] = <<o, i>>
  <2>1. CASE i <= m
    BY <2>1, <1>3, <1>5
  <2>2. CASE i > m
    <3>1. i - m \in 1..n /\ m + (i - m) = i
      BY <2>2
    <3>2. right[i - m] = <<o, i>>
      BY <3>1, <1>4
    <3> QED BY <3>2, <2>2, <1>5
  <2>3. i <= m \/ i > m
    OBVIOUS
  <2> QED BY <2>1, <2>2, <2>3
<1>7. left \o right = both
  BY <1>1, <1>2, <1>5, <1>6, SeqEqual
<1> QED BY <1>7 DEF left, right, both

(***************************************************************************)
(* The chunk length is a number, never more than what is missing.          *)
(***************************************************************************)
LEMMA ChunkLenBounds ==
    ASSUME NEW remaining \in Nat
    PROVE  ChunkLen(remaining) \in 0..remaining
BY ConfigAssumption DEF ChunkLen

(***************************************************************************)
(* The checkpoints are numbers.                                            *)
(***************************************************************************)
LEMMA CheckpointsAreNat ==
    ASSUME obj \in Objects
    PROVE  Checkpoints \subseteq Nat
<1>1. Size[obj] \in Nat
  BY SizeAssumption
<1>2. ASSUME NEW i \in 1..20
      PROVE  (i * ProgressInterval * Size[obj]) \div 100 \in Nat
  <2>1. i * ProgressInterval \in Nat
    BY ConfigAssumption
  <2>2. (i * ProgressInterval) * Size[obj] \in Nat
    BY <2>1, <1>1
  <2> QED BY <2>2
<1> QED BY <1>2 DEF Checkpoints

-----------------------------------------------------------------------------
(***************************************************************************)
(* Type correctness and OffsetTracksTemp are inductive together: a write   *)
(* extends a sequence only if the temporary file exists.  Besides, no call *)
(* has an offset before check_resume_state gave it one, a chunk is not     *)
(* written past its end, and a record is deleted either before the         *)
(* temporary file or when that file is already published.                  *)
(***************************************************************************)
BaseInv ==
    /\ TypeOK
    /\ pc \in {"idle", "info"} => offset = 0
    /\ pc = "write" => written <= Chunk
    /\ pc = "discard" => resume = NoFile
    /\ pc \in {"create", "forget", "clean"} => temp = NoFile
    /\ OffsetTracksTemp

LEMMA ChunkIsNat ==
    ASSUME TypeOK
    PROVE  /\ Remaining \in Nat
           /\ Chunk \in 0..Remaining
           /\ offset + Chunk \in 0..Size[obj]
<1>1. Size[obj] \in Nat /\ offset \in 0..Size[obj]
  BY SizeAssumption DEF TypeOK
<1>2. Remaining \in Nat
  BY <1>1 DEF Remaining
<1>3. Chunk \in 0..Remaining
  BY <1>2, ChunkLenBounds DEF Chunk
<1> QED BY <1>1, <1>2, <1>3 DEF Remaining

LEMMA BaseInit == Init => BaseInv
<1> SUFFICES ASSUME Init PROVE BaseInv
  OBVIOUS
<1>1. Size[obj] \in Nat
  BY SizeAssumption DEF Init
<1> QED
  BY <1>1, ConfigAssumption
  DEF Init, BaseInv, TypeOK, OffsetTracksTemp, Fetching, Points, Results

(***************************************************************************)
(* A call that ends leaves nothing behind but the files.                   *)
(***************************************************************************)
LEMMA LeaveKeepsBase ==
    ASSUME BaseInv, NEW r \in Results, Leave(r), UNCHANGED <<saved, temp>>,
           resume' \in {resume, NoFile, offset}
    PROVE  BaseInv'
<1>1. Size[obj] \in Nat
  BY SizeAssumption DEF BaseInv, TypeOK
<1>2. TypeOK'
  BY <1>1, ConfigAssumption DEF BaseInv, TypeOK, Leave, Points
<1> QED
  BY <1>2 DEF Leave, BaseInv, OffsetTracksTemp, Fetching

LEMMA BaseNext == BaseInv /\ [Next]_vars => BaseInv'
<1> SUFFICES ASSUME BaseInv, [Next]_vars PROVE BaseInv'
  OBVIOUS
<1> USE DEF BaseInv, TypeOK, OffsetTracksTemp, Fetching, files, locals, Goto
<1>1. Size[obj] \in Nat
  BY SizeAssumption
<1>2. CASE \E o \in Objects : Begin(o)
  BY <1>2, SizeAssumption DEF Begin, Points, Results
<1>3. CASE InfoOk
  BY <1>3 DEF InfoOk, Points
<1>4. CASE InfoFails
  BY <1>4, LeaveKeepsBase DEF InfoFails, Results
<1>5. CASE Check
  <2>1. CASE CheckComplete
    BY <2>1, <1>1 DEF CheckComplete, Points
  <2>2. CASE CheckUnparsable
    BY <2>2, LeaveKeepsBase DEF CheckUnparsable, Results
  <2>3. CASE CheckMismatch
    BY <2>3 DEF CheckMismatch, Points
  <2>4. CASE CheckFinished
    BY <2>4 DEF CheckFinished, Points
  <2>5. CASE ForgetRecord
    BY <2>5, <1>1 DEF ForgetRecord, Points
  <2>6. CASE CheckResume
    <3>1. resume \in 0..Size[obj] /\ temp # NoFile
      BY <2>6, <1>1 DEF CheckResume, HaveRecord
    <3> QED BY <3>1, <2>6, <1>1 DEF CheckResume, Points
  <2>7. CASE CheckFresh
    BY <2>7 DEF CheckFresh, HaveRecord, Points
  <2>8. CASE DiscardTemp
    BY <2>8 DEF DiscardTemp, Points
  <2>9. CASE CreateTemp
    <3>1. <<>> \in Contents /\ Len(<<>>) = 0
      BY DEF Contents
    <3>2. temp' # NoFile
      BY <3>1, <2>9, SentinelAssumption DEF CreateTemp
    <3> QED BY <3>1, <3>2, <2>9, <1>1 DEF CreateTemp, Points
  <2> QED BY <1>5, <2>1, <2>2, <2>3, <2>4, <2>5, <2>6, <2>7, <2>8, <2>9 DEF Check
<1>6. CASE Fetch
  <2>1. CASE FetchOk
    BY <2>1, ChunkIsNat, <1>1, ConfigAssumption DEF FetchOk, Points, Chunk, Remaining
  <2>2. CASE FetchWrongLength
    BY <2>2, ConfigAssumption DEF FetchWrongLength, Points
  <2>3. CASE FetchRetry
    BY <2>3, ConfigAssumption DEF FetchRetry, Points
  <2>4. CASE FetchGivesUp
    BY <2>4, LeaveKeepsBase DEF FetchGivesUp, Results
  <2> QED BY <1>6, <2>1, <2>2, <2>3, <2>4 DEF Fetch
<1>7. CASE Write
  <2>1. Chunk \in Nat /\ offset + Chunk \in 0..Size[obj]
    BY ChunkIsNat, <1>1
  <2>2. ASSUME pc = "write", NEW k \in Nat,
               temp' = temp \o Slice(obj, offset + written, k)
        PROVE  temp' \in Contents /\ temp' # NoFile
               /\ Len(temp') = offset + written + k
    <3>1. temp \in Contents /\ offset + written \in Nat
      BY <2>2, <1>1
    <3>2. /\ Slice(obj, offset + written, k) \in Contents
          /\ Len(Slice(obj, offset + written, k)) = k
      BY <3>1, SliceIsContents
    <3>3. temp' \in Contents /\ Len(temp') = Len(temp) + k
      BY <2>2, <3>1, <3>2, ConcatProperties DEF Contents
    <3> QED BY <2>2, <3>3, SentinelAssumption
  <2>3. ASSUME NEW k \in 1..Chunk, WriteSome(k)
        PROVE  BaseInv'
    <3>1. k \in Nat
      BY <2>1
    <3>2. temp' \in Contents /\ temp' # NoFile
          /\ Len(temp') = offset + written + k
      BY <2>2, <2>3, <3>1 DEF WriteSome
    <3>3. UNCHANGED <<saved, resume, pc, obj, offset, after, retries, reported, told, result>>
          /\ pc = "write" /\ written' = written + k
      BY <2>3 DEF WriteSome
    <3>4. Chunk' = Chunk
      BY <3>3 DEF Chunk, Remaining
    <3>5. written' \in Nat /\ written' <= Chunk
      <4>1. k < Chunk - written
        BY <2>3 DEF WriteSome
      <4>2. written \in Nat
        BY <1>1
      <4> QED BY <4>1, <4>2, <3>1, <3>3, <2>1
    <3>6. TypeOK'
      BY <3>2, <3>3, <3>5, <1>1 DEF Points
    <3>7. OffsetTracksTemp'
      <4>1. offset \in Nat /\ written \in Nat
        BY <1>1, <2>1
      <4>2. Len(temp') = offset' + written'
        BY <3>1, <3>2, <3>3, <4>1
      <4>3. ~Fetching'
        BY <3>3 DEF Fetching
      <4> QED BY <3>2, <3>3, <4>2, <4>3
    <3> QED BY <3>3, <3>4, <3>5, <3>6, <3>7
  <2>4. CASE WriteRest
    <3>1. temp' \in Contents /\ temp' # NoFile /\ Len(temp') = offset + Chunk
      <4>1. Chunk - written \in Nat
        BY <2>1, <2>4 DEF WriteRest
      <4>2. temp' \in Contents /\ temp' # NoFile
            /\ Len(temp') = offset + written + (Chunk - written)
        BY <2>2, <2>4, <4>1 DEF WriteRest
      <4> QED BY <4>2, <2>1, <1>1
    <3>2. told' \in Nat /\ reported' \in Nat
      <4>1. Report(offset + Chunk)
        BY <2>4 DEF WriteRest
      <4>2. CASE Due(offset + Chunk) # {}
        <5>1. Due(offset + Chunk) \in SUBSET Nat
          BY CheckpointsAreNat DEF Due
        <5>2. Least(Due(offset + Chunk)) \in Nat
          BY <5>1, <4>2, LeastIsLeast
        <5> QED BY <4>1, <4>2, <5>2, <2>1, <1>1 DEF Report
      <4>3. CASE Due(offset + Chunk) = {}
        BY <4>1, <4>3 DEF Report
      <4> QED BY <4>2, <4>3
    <3> QED BY <2>4, <3>1, <3>2, <2>1, <1>1 DEF WriteRest, Points
  <2> QED BY <1>7, <2>3, <2>4 DEF Write
<1>8. CASE TruncateRecord
  BY <1>8 DEF TruncateRecord, Points
<1>9. CASE WriteRecord
  <2>1. CASE after # "loop"
    BY <2>1, <1>9, LeaveKeepsBase DEF WriteRecord, Results
  <2>2. CASE after = "loop"
    BY <2>2, <1>9, <1>1 DEF WriteRecord, Points
  <2> QED BY <2>1, <2>2
<1>10. CASE Publish
  BY <1>10 DEF Publish, Points
<1>11. CASE PublishMissing
  BY <1>11, LeaveKeepsBase DEF PublishMissing, Results
<1>12. CASE Clean
  BY <1>12, LeaveKeepsBase DEF Clean, Results
<1>13. CASE IoFails
  BY <1>13, LeaveKeepsBase DEF IoFails, Results
<1>14. CASE Crash
  BY <1>14, LeaveKeepsBase DEF Crash, Results
<1>15. CASE UNCHANGED vars
  BY <1>15 DEF vars, Chunk, Remaining
<1> QED
  BY <1>2, <1>3, <1>4, <1>5, <1>6, <1>7, <1>8, <1>9, <1>10, <1>11, <1>12,
     <1>13, <1>14, <1>15 DEF Next, Step

LEMMA BaseInvariant == Spec => []BaseInv
BY BaseInit, BaseNext, PTL DEF Spec

(***************************************************************************)
(* Every variable keeps its type, for every set of objects, sizes, chunk   *)
(* size and number of retries (all of commands.rs:256-568).                *)
(***************************************************************************)
THEOREM TypeCorrect == Spec => []TypeOK
<1>1. BaseInv => TypeOK
  BY DEF BaseInv
<1> QED
  BY <1>1, BaseInvariant, PTL

(***************************************************************************)
(* Whatever object the last interrupted call was for, a call that fetches  *)
(* (commands.rs:380) asks for exactly the byte the temporary file ends at. *)
(***************************************************************************)
THEOREM OffsetIsTracked == Spec => []OffsetTracksTemp
<1>1. BaseInv => OffsetTracksTemp
  BY DEF BaseInv
<1> QED
  BY <1>1, BaseInvariant, PTL

(***************************************************************************)
(* The i-th checkpoint, counted from 0: none is farther from the one       *)
(* before than an interval, and with an interval of 5% or more the last    *)
(* one is not before the end.                                              *)
(***************************************************************************)
Checkpoint(i) == (i * ProgressInterval * Size[obj]) \div 100

LEMMA CheckpointsAreClose ==
    ASSUME obj \in Objects
    PROVE  /\ Checkpoint(0) = 0
           /\ \A i \in 0..20 : Checkpoint(i) \in Nat
           /\ \A i \in 1..20 : 
                 100 * (Checkpoint(i) - Checkpoint(i - 1)) < ProgressInterval * Size[obj] + 100
           /\ ProgressInterval >= 5 => Checkpoint(20) >= Size[obj]
<1> DEFINE step == ProgressInterval * Size[obj]
<1>1. Size[obj] \in Nat /\ ProgressInterval \in Nat
  BY SizeAssumption, ConfigAssumption
<1>2. step \in Nat
  BY <1>1
<1>3. ASSUME NEW i \in 0..20 PROVE i * ProgressInterval * Size[obj] = i * step
  BY <1>1
<1>4. ProgressInterval >= 5 => step >= 5 * Size[obj]
  BY <1>1
<1> HIDE DEF step
<1>5. ASSUME NEW i \in 0..20
      PROVE  /\ Checkpoint(i) \in Nat
             /\ 100 * Checkpoint(i) <= i * step
             /\ i * step < 100 * Checkpoint(i) + 100
  <2>1. i * step \in Nat
    BY <1>2
  <2>2. Checkpoint(i) = (i * step) \div 100
    BY <1>3 DEF Checkpoint
  <2> QED BY <2>1, <2>2
<1>6. Checkpoint(0) = 0
  BY <1>1, <1>3, <1>2 DEF Checkpoint
<1>7. ASSUME NEW i \in 1..20
      PROVE  100 * (Checkpoint(i) - Checkpoint(i - 1)) < step + 100
  <2>1. i \in 0..20 /\ i - 1 \in 0..20
    OBVIOUS
  <2>2. (i - 1) * step = i * step - step
    BY <1>2
  <2>3. i * step \in Nat
    BY <1>2
  <2>4. /\ Checkpoint(i) \in Nat /\ 100 * Checkpoint(i) <= i * step
        /\ Checkpoint(i - 1) \in Nat /\ i * step - step < 100 * Checkpoint(i - 1) + 100
    BY <2>1, <2>2, <1>5
  <2> QED BY <1>2, <2>3, <2>4
<1>8. ProgressInterval >= 5 => Checkpoint(20) >= Size[obj]
  BY <1>1, <1>2, <1>4, <1>5
<1> QED
  BY <1>5, <1>6, <1>7, <1>8 DEF step

(***************************************************************************)
(* A chunk that passes no checkpoint ends before the next one, and the     *)
(* callback was last called behind the one before that.                    *)
(***************************************************************************)
LEMMA SilentIsShort ==
    ASSUME obj \in Objects, ProgressInterval >= 5, reported \in Nat, told \in Nat,
           reported <= told, NEW off \in 0..Size[obj], Due(off) = {}
    PROVE  100 * (off - told) < ProgressInterval * Size[obj] + 100
<1> DEFINE later == {i \in 1..20 : Checkpoint(i) > reported}
           step == ProgressInterval * Size[obj]
<1>1. Size[obj] \in Nat /\ ProgressInterval \in Nat /\ step \in Nat
  BY SizeAssumption, ConfigAssumption
<1>2. \A i \in 0..20 : Checkpoint(i) \in Nat
  BY CheckpointsAreClose
<1>3. \A i \in 1..20 : Checkpoint(i) \in Checkpoints
  BY DEF Checkpoint, Checkpoints
<1>4. CASE later = {}
  <2>1. Checkpoint(20) <= reported
    BY <1>2, <1>4
  <2>2. off <= told
    BY <2>1, <1>1, <1>2, CheckpointsAreClose
  <2> HIDE DEF step
  <2>3. 100 * (off - told) <= 0
    BY <1>1, <2>2
  <2> QED BY <1>1, <2>3 DEF step
<1>5. CASE later # {}
  <2> DEFINE i == Least(later)
  <2>1. i \in later /\ \A j \in later : i <= j
    BY <1>5, LeastIsLeast
  <2> HIDE DEF i
  <2>2. i \in 1..20 /\ Checkpoint(i) > reported
    BY <2>1
  <2>3. off < Checkpoint(i)
    BY <1>1, <1>2, <1>3, <2>2 DEF Due
  <2>4. Checkpoint(i - 1) <= reported
    <3>1. CASE i = 1
      BY <3>1, CheckpointsAreClose
    <3>2. CASE i # 1
      <4>1. i - 1 \in 1..20 /\ i - 1 \notin later
        BY <2>1, <2>2, <3>2
      <4> QED BY <4>1, <1>2
    <3> QED BY <3>1, <3>2
  <2>5. 100 * (Checkpoint(i) - Checkpoint(i - 1)) < step + 100
    BY <2>2, CheckpointsAreClose
  <2>6. Checkpoint(i) \in Nat /\ Checkpoint(i - 1) \in Nat
    <3>1. i \in 0..20 /\ i - 1 \in 0..20
      BY <2>2
    <3> QED BY <3>1, <1>2
  <2> HIDE DEF step
  <2>7. off - told < Checkpoint(i) - Checkpoint(i - 1)
    BY <1>1, <2>3, <2>4, <2>6
  <2> QED BY <1>1, <2>5, <2>6, <2>7 DEF step
<1> QED
  BY <1>4, <1>5

(***************************************************************************)
(* The callback was called at or behind the checkpoint it reported.        *)
(***************************************************************************)
ReportInv == reported <= told /\ ProgressTimely

LEMMA ReportNext ==
    ProgressInterval >= 5 /\ TypeOK /\ ReportInv /\ [Next]_vars => ReportInv'
<1> SUFFICES ASSUME ProgressInterval >= 5, TypeOK, ReportInv, [Next]_vars
             PROVE  ReportInv'
  OBVIOUS
<1>1. CASE WriteRest
  <2> DEFINE off == offset + Chunk
  <2>1. obj \in Objects /\ reported \in Nat /\ told \in Nat /\ reported <= told
        /\ off \in 0..Size[obj] /\ Size[obj] \in Nat
    BY ChunkIsNat, SizeAssumption DEF TypeOK, ReportInv
  <2>2. obj' = obj /\ offset' = off /\ Report(off)
    BY <1>1 DEF WriteRest
  <2> HIDE DEF off
  <2>3. CASE Due(off) # {}
    <3>1. told' = off /\ reported' = Least(Due(off))
      BY <2>2, <2>3 DEF Report
    <3>2. Least(Due(off)) \in Due(off)
      BY <2>1, <2>3, CheckpointsAreNat, LeastIsLeast DEF Due
    <3>3. reported' \in Nat /\ reported' <= told'
      BY <3>1, <3>2, <2>1, CheckpointsAreNat DEF Due
    <3>4. offset' - told' = 0
      BY <2>1, <2>2, <3>1
    <3>5. ProgressInterval * Size[obj] \in Nat
      BY <2>1, ConfigAssumption
    <3> QED BY <2>2, <3>3, <3>4, <3>5 DEF ReportInv, ProgressTimely
  <2>4. CASE Due(off) = {}
    <3>1. UNCHANGED <<told, reported>>
      BY <2>2, <2>4 DEF Report
    <3>2. 100 * (off - told) < ProgressInterval * Size[obj] + 100
      BY <2>1, <2>4, SilentIsShort
    <3> QED BY <2>1, <2>2, <3>1, <3>2 DEF ReportInv, ProgressTimely
  <2> QED BY <2>3, <2>4
<1>2. CASE ~WriteRest
  <2>1. pc' = "trunc" => (pc = "trunc" /\ UNCHANGED vars) \/ after' = "Incomplete"
    BY <1>2 DEF Next, Step, Begin, InfoOk, InfoFails, Check, CheckComplete, CheckUnparsable,
       CheckMismatch, CheckFinished, ForgetRecord, CheckResume, CheckFresh, DiscardTemp,
       CreateTemp, Fetch, FetchOk, FetchWrongLength, FetchRetry, FetchGivesUp, Fetching, Write,
       WriteSome, TruncateRecord, WriteRecord, Publish, PublishMissing, Clean, IoFails, Crash,
       Leave, Goto, vars
  <2>2. UNCHANGED <<reported, told>> \/ (reported' = 0 /\ told' = 0)
    BY <1>2 DEF Next, Step, Begin, InfoOk, InfoFails, Check, CheckComplete, CheckUnparsable,
       CheckMismatch, CheckFinished, ForgetRecord, CheckResume, CheckFresh, DiscardTemp,
       CreateTemp, Fetch, FetchOk, FetchWrongLength, FetchRetry, FetchGivesUp, Write,
       WriteSome, TruncateRecord, WriteRecord, Publish, PublishMissing, Clean, IoFails, Crash,
       Leave, locals, vars
  <2> QED BY <2>1, <2>2 DEF ReportInv, ProgressTimely, vars, locals
<1> QED
  BY <1>1, <1>2

(***************************************************************************)
(* With an interval of 5% or more (the default is 5, commands.rs:35), a    *)
(* chunk leaves the callback at most one interval behind, for every chunk  *)
(* size, however many calls the download was resumed in, and every size as *)
(* far as integers give the checkpoints that the code computes in f32      *)
(* (commands.rs:357-364, 411-417).                                         *)
(***************************************************************************)
THEOREM ProgressIsTimely ==
    ASSUME ProgressInterval >= 5
    PROVE  Spec => []ProgressTimely
<1>1. Init => ReportInv
  BY DEF Init, ReportInv, ProgressTimely
<1>2. ReportInv => ProgressTimely
  BY DEF ReportInv
<1> QED
  BY <1>1, <1>2, TypeCorrect, ReportNext, PTL DEF Spec

(***************************************************************************)
(* Whatever the objects: what is on record in the temporary file stays     *)
(* there until it is published, through every failure, kill and later      *)
(* call, and what is being recorded comes to be on record unless the call  *)
(* ends before (commands.rs:388-438, 527-560).                             *)
(***************************************************************************)
THEOREM TrustedBytesAreKept == Spec => TrustedBytesKept
<1> DEFINE Kept == (Safe' /\ Len(temp') >= Len(temp)) \/ saved' = temp
<1>1. BaseInv /\ [Next]_vars => [Safe /\ ~Interrupted => Kept]_vars
  <2> SUFFICES ASSUME BaseInv, Next, Safe, ~Interrupted PROVE Kept
    BY DEF vars
  <2> USE DEF files, Leave
  <2>1. temp # NoFile /\ temp \in Contents /\ Len(temp) \in Nat
    BY DEF Safe, OnRecord, BeingRecorded, BaseInv, TypeOK, Contents
  <2>2. OnRecord \/ pc \in {"write", "trunc", "note"}
    BY DEF Safe, BeingRecorded
  <2>3. OnRecord /\ UNCHANGED <<temp, resume>> => Kept
    BY <2>1 DEF Safe, OnRecord
  <2>4. CASE Write
    <3>1. ASSUME pc = "write", pc' \in {"write", "trunc"}, NEW k \in Nat,
                 temp' = temp \o Slice(obj, offset + written, k)
          PROVE  Kept
      <4>1. obj \in Objects /\ offset + written \in Nat
        BY SizeAssumption DEF BaseInv, TypeOK
      <4>2. /\ Slice(obj, offset + written, k) \in Contents
            /\ Len(Slice(obj, offset + written, k)) = k
        BY <4>1, SliceIsContents
      <4>3. temp' \in Contents /\ Len(temp') = Len(temp) + k
        BY <2>1, <3>1, <4>2, ConcatProperties DEF Contents
      <4>4. temp' # NoFile
        BY <4>3, SentinelAssumption
      <4>5. Len(temp') >= Len(temp)
        BY <2>1, <4>3
      <4> QED BY <3>1, <4>4, <4>5 DEF Safe, BeingRecorded
    <3>2. Chunk \in Nat /\ (pc = "write" => Chunk - written \in Nat)
      BY ChunkIsNat, SizeAssumption DEF BaseInv, TypeOK
    <3>3. CASE \E k \in 1..Chunk : WriteSome(k)
      <4>1. PICK k \in 1..Chunk : WriteSome(k)
        BY <3>3
      <4>2. k \in Nat
        BY <3>2
      <4> QED BY <3>1, <4>1, <4>2 DEF WriteSome
    <3>4. CASE WriteRest
      BY <3>1, <3>2, <3>4 DEF WriteRest, Goto
    <3> QED BY <2>4, <3>3, <3>4 DEF Write
  <2>5. CASE TruncateRecord
    BY <2>1, <2>5 DEF TruncateRecord, Goto, Safe, BeingRecorded
  <2>6. CASE WriteRecord
    <3>1. Len(temp) = offset /\ UNCHANGED temp /\ resume' = offset
      BY <2>6 DEF WriteRecord, BaseInv, OffsetTracksTemp
    <3> QED BY <2>1, <3>1 DEF Safe, OnRecord
  <2>7. CASE CheckFinished \/ Publish
    BY <2>7 DEF CheckFinished, Publish
  <2>8. ~CheckMismatch
    BY <2>2 DEF CheckMismatch, OnRecord, Goto
  <2>9. ~DiscardTemp
    BY <2>1, <2>2, SentinelAssumption DEF DiscardTemp, OnRecord, Goto, BaseInv
  <2>10. ~CreateTemp /\ ~ForgetRecord /\ ~Clean
    BY <2>1 DEF CreateTemp, ForgetRecord, Clean, Goto, BaseInv
  <2>11. CASE CheckComplete \/ CheckUnparsable \/ CheckResume \/ CheckFresh
    BY <2>2, <2>3, <2>11 DEF CheckComplete, CheckUnparsable, CheckResume, CheckFresh, Goto
  <2>12. CASE Fetch \/ PublishMissing
    BY <2>2, <2>3, <2>12
    DEF Fetch, FetchOk, FetchWrongLength, FetchRetry, FetchGivesUp, Fetching, PublishMissing
  <2>13. CASE InfoOk \/ InfoFails \/ \E o \in Objects : Begin(o)
    BY <2>2, <2>3, <2>13 DEF InfoOk, InfoFails, Begin, Goto
  <2>14. CASE Crash \/ IoFails
    <3>1. OnRecord
      BY <2>14 DEF Interrupted
    <3> QED BY <2>3, <2>14, <3>1 DEF Crash, IoFails
  <2> HIDE DEF Kept
  <2> QED
    BY <2>4, <2>5, <2>6, <2>7, <2>8, <2>9, <2>10, <2>11, <2>12, <2>13, <2>14
    DEF Next, Step, Check
<1> QED
  BY <1>1, BaseInvariant, PTL DEF Spec, TrustedBytesKept

-----------------------------------------------------------------------------
(***************************************************************************)
(* One object per path.  The invariant says, besides the three properties, *)
(* which files exist together: a published file has no temporary one left  *)
(* beside it; a record exists only beside a file; and the steps of         *)
(* check_resume_state that are between two file operations know which of   *)
(* the files are gone.                                                     *)
(***************************************************************************)
OneObject == \A a, b \in Objects : a = b

FilesInv ==
    /\ TempIsPrefix
    /\ SavedIsWhole
    /\ RecordNeverAhead
    /\ saved # NoFile => temp = NoFile
    /\ saved = NoFile /\ temp = NoFile => resume = NoFile
    /\ pc = "discard" => saved = NoFile /\ resume = NoFile
    /\ pc = "create" => saved = NoFile /\ temp = NoFile /\ resume = NoFile
    /\ pc \in {"forget", "clean"} => saved # NoFile
    /\ pc = "loop" /\ offset >= Size[obj] /\ temp # NoFile => Len(temp) = Size[obj]
    /\ pc # "idle" => result = "none"

OneInv == BaseInv /\ FilesInv

LEMMA FilesInit == Init => FilesInv
BY DEF Init, FilesInv, TempIsPrefix, SavedIsWhole, RecordNeverAhead

(***************************************************************************)
(* A complete temporary file is the whole object.                          *)
(***************************************************************************)
LEMMA CompleteTempIsWhole ==
    ASSUME TempIsPrefix, temp # NoFile, Len(temp) >= Size[obj],
           Len(temp) \in Nat, Size[obj] \in Nat
    PROVE  temp = Whole(obj)
<1>1. Len(temp) = Size[obj]
  BY DEF TempIsPrefix
<1> QED BY <1>1 DEF TempIsPrefix, Whole

(***************************************************************************)
(* A write at the end of a prefix makes a longer prefix.                   *)
(***************************************************************************)
LEMMA WriteExtendsPrefix ==
    ASSUME BaseInv, TempIsPrefix, pc = "write", NEW k \in Nat, k <= Chunk - written,
           temp' = temp \o Slice(obj, offset + written, k), UNCHANGED obj
    PROVE  TempIsPrefix' /\ temp' # NoFile /\ Len(temp') = offset + written + k
<1> DEFINE n == offset + written
<1>1. /\ temp \in Contents /\ temp # NoFile /\ Len(temp) = n /\ n \in Nat
      /\ obj \in Objects /\ Size[obj] \in Nat
  BY SizeAssumption DEF BaseInv, TypeOK, OffsetTracksTemp
<1>2. n + k <= Size[obj]
  BY <1>1, ChunkIsNat DEF BaseInv, TypeOK
<1>3. temp = Slice(obj, 0, n)
  BY <1>1 DEF TempIsPrefix
<1>4. temp' = Slice(obj, 0, n + k)
  BY <1>1, <1>3, SlicesConcatenate
<1>5. n + k \in Nat
  BY <1>1
<1> HIDE DEF n
<1>6. temp' \in Contents /\ Len(temp') = n + k
  <2>1. obj \in Objects /\ 0 \in Nat
    BY <1>1
  <2>2. Slice(obj, 0, n + k) \in Contents /\ Len(Slice(obj, 0, n + k)) = n + k
    BY <2>1, <1>5, SliceIsContents
  <2> QED BY <2>2, <1>4
<1> QED BY <1>1, <1>2, <1>4, <1>6, SentinelAssumption DEF TempIsPrefix, n

(***************************************************************************)
(* A call that ends without touching the files disturbs nothing.           *)
(***************************************************************************)
LEMMA LeaveKeepsFiles ==
    ASSUME FilesInv, NEW r \in Results, Leave(r), UNCHANGED files
    PROVE  FilesInv'
BY DEF FilesInv, Leave, files, TempIsPrefix, SavedIsWhole, RecordNeverAhead, Whole, Slice

LEMMA FilesNext == OneObject /\ OneInv /\ [Next]_vars => FilesInv'
<1> SUFFICES ASSUME OneObject, OneInv, [Next]_vars PROVE FilesInv'
  OBVIOUS
<1> USE DEF OneInv, FilesInv, files, locals, Goto
<1>1. /\ obj \in Objects /\ Size[obj] \in Nat
      /\ temp \in Contents \cup {NoFile} /\ Len(<<>>) = 0
      /\ temp # NoFile => Len(temp) \in Nat
  BY SizeAssumption DEF BaseInv, TypeOK, Contents
<1>2. CASE \E o \in Objects : Begin(o)
  <2>1. obj' = obj /\ UNCHANGED files
    BY <1>1, <1>2 DEF Begin, OneObject
  <2> QED BY <1>2, <2>1
          DEF Begin, TempIsPrefix, SavedIsWhole, RecordNeverAhead, Whole, Slice
<1>3. CASE InfoOk
  BY <1>3 DEF InfoOk, TempIsPrefix, SavedIsWhole, RecordNeverAhead
<1>4. CASE InfoFails
  BY <1>4, LeaveKeepsFiles DEF InfoFails, Results
<1>5. CASE Check
  <2> USE DEF TempIsPrefix, SavedIsWhole, RecordNeverAhead
  <2>1. CASE CheckComplete
    BY <2>1 DEF CheckComplete, TargetComplete
  <2>2. CASE CheckUnparsable
    BY <2>2, LeaveKeepsFiles DEF CheckUnparsable, Results
  <2>3. CASE CheckMismatch
    BY <2>3, SentinelAssumption DEF CheckMismatch, HaveRecord
  <2>4. CASE CheckFinished
    <3>1. temp = Whole(obj)
      BY <2>4, <1>1, CompleteTempIsWhole DEF CheckFinished, HaveRecord
    <3> QED BY <2>4, <3>1 DEF CheckFinished, HaveRecord, Whole
  <2>5. CASE ForgetRecord
    BY <2>5, SentinelAssumption DEF ForgetRecord
  <2>6. CASE CheckResume
    BY <2>6, <1>1 DEF CheckResume
  <2>7. CASE CheckFresh
    <3>1. Len(Whole(obj)) = Size[obj]
      BY <1>1, SliceIsContents DEF Whole
    <3>2. saved = NoFile
      BY <3>1, <2>7 DEF CheckFresh, TargetComplete
    <3> QED BY <3>2, <2>7 DEF CheckFresh, HaveRecord
  <2>8. CASE DiscardTemp
    BY <2>8 DEF DiscardTemp
  <2>9. CASE CreateTemp
    <3>1. Slice(obj, 0, 0) = <<>>
      BY DEF Slice
    <3> QED BY <3>1, <2>9, <1>1, SentinelAssumption DEF CreateTemp
  <2> QED BY <1>5, <2>1, <2>2, <2>3, <2>4, <2>5, <2>6, <2>7, <2>8, <2>9 DEF Check
<1>6. CASE Fetch
  <2> USE DEF TempIsPrefix, SavedIsWhole, RecordNeverAhead
  <2>1. CASE FetchOk
    BY <2>1 DEF FetchOk, Fetching
  <2>2. CASE FetchWrongLength
    BY <2>2 DEF FetchWrongLength, Fetching
  <2>3. CASE FetchRetry
    BY <2>3 DEF FetchRetry, Fetching
  <2>4. CASE FetchGivesUp
    BY <2>4, LeaveKeepsFiles DEF FetchGivesUp, Results
  <2> QED BY <1>6, <2>1, <2>2, <2>3, <2>4 DEF Fetch
<1>7. CASE Write
  <2>1. ASSUME pc = "write", NEW k \in Nat, k <= Chunk - written,
               temp' = temp \o Slice(obj, offset + written, k),
               UNCHANGED <<saved, resume, obj, result>>, pc' \in {"write", "trunc"}
        PROVE  FilesInv'
    <3>1. TempIsPrefix' /\ temp' # NoFile /\ Len(temp') = offset + written + k
      BY <2>1, WriteExtendsPrefix
    <3>2. temp # NoFile /\ saved = NoFile /\ Len(temp) = offset + written
      BY <2>1 DEF BaseInv, OffsetTracksTemp
    <3>3. RecordNeverAhead'
      BY <2>1, <3>1, <3>2, <1>1 DEF RecordNeverAhead, BaseInv, TypeOK
    <3> QED BY <2>1, <3>1, <3>2, <3>3 DEF SavedIsWhole
  <2>2. Chunk \in Nat /\ written \in Nat
    BY ChunkIsNat, <1>1 DEF BaseInv, TypeOK
  <2>3. ASSUME NEW k \in 1..Chunk, WriteSome(k)
        PROVE  FilesInv'
    <3>1. k \in Nat /\ k <= Chunk - written
      BY <2>2, <2>3 DEF WriteSome
    <3>2. /\ pc = "write" /\ pc' \in {"write", "trunc"}
          /\ temp' = temp \o Slice(obj, offset + written, k)
          /\ UNCHANGED <<saved, resume, obj, result>>
      BY <2>3 DEF WriteSome
    <3> QED BY <2>1, <3>1, <3>2
  <2>4. CASE WriteRest
    <3>1. Chunk - written \in Nat
      BY <2>2, <2>4 DEF WriteRest, BaseInv
    <3>2. /\ pc = "write" /\ pc' \in {"write", "trunc"}
          /\ temp' = temp \o Slice(obj, offset + written, Chunk - written)
          /\ UNCHANGED <<saved, resume, obj, result>>
      BY <2>4 DEF WriteRest
    <3>3. Chunk - written <= Chunk - written
      BY <3>1
    <3> QED BY <2>1, <3>1, <3>2, <3>3
  <2> QED BY <1>7, <2>3, <2>4 DEF Write
<1>8. CASE TruncateRecord
  BY <1>8, SentinelAssumption
  DEF TruncateRecord, TempIsPrefix, SavedIsWhole, RecordNeverAhead, BaseInv, OffsetTracksTemp
<1>9. CASE WriteRecord
  <2>1. temp # NoFile /\ Len(temp) = offset /\ offset \in 0..Size[obj]
    BY <1>9 DEF WriteRecord, BaseInv, TypeOK, OffsetTracksTemp
  <2>2. obj' = obj /\ UNCHANGED <<saved, temp>> /\ resume' = offset
    BY <1>9 DEF WriteRecord, Leave
  <2>3. TempIsPrefix' /\ SavedIsWhole' /\ RecordNeverAhead'
    BY <2>1, <2>2, <1>1 DEF TempIsPrefix, SavedIsWhole, RecordNeverAhead, Whole, Slice
  <2>4. CASE after # "loop"
    BY <2>1, <2>2, <2>3, <2>4, <1>9 DEF WriteRecord, Leave
  <2>5. CASE after = "loop"
    BY <2>1, <2>2, <2>3, <2>5, <1>1, <1>9 DEF WriteRecord
  <2> QED BY <2>4, <2>5
<1>10. CASE Publish
  <2>1. temp = Whole(obj)
    BY <1>10, <1>1, CompleteTempIsWhole DEF Publish
  <2> QED BY <1>10, <2>1
          DEF Publish, TempIsPrefix, SavedIsWhole, RecordNeverAhead, Whole, Slice
<1>11. CASE PublishMissing
  BY <1>11, LeaveKeepsFiles DEF PublishMissing, Results
<1>12. CASE Clean
  BY <1>12, SentinelAssumption
  DEF Clean, Leave, TempIsPrefix, SavedIsWhole, RecordNeverAhead, Whole, Slice
<1>13. CASE IoFails
  BY <1>13, LeaveKeepsFiles DEF IoFails, Results
<1>14. CASE Crash
  BY <1>14, LeaveKeepsFiles DEF Crash, Results
<1>15. CASE UNCHANGED vars
  BY <1>15 DEF vars, TempIsPrefix, SavedIsWhole, RecordNeverAhead, Whole, Slice
<1> QED
  BY <1>2, <1>3, <1>4, <1>5, <1>6, <1>7, <1>8, <1>9, <1>10, <1>11, <1>12,
     <1>13, <1>14, <1>15 DEF Next, Step

LEMMA OneInvariant ==
    ASSUME OneObject
    PROVE  Spec => []OneInv
<1>1. Init => OneInv
  BY BaseInit, FilesInit DEF OneInv
<1>2. OneInv /\ [Next]_vars => OneInv'
  BY BaseNext, FilesNext DEF OneInv
<1> QED
  BY <1>1, <1>2, PTL DEF Spec

(***************************************************************************)
(* One object per path, of any size and in chunks of any size: whatever    *)
(* crashes, fails, is retried or resumed, the temporary file is a prefix   *)
(* of the object (commands.rs:388-420, 527-560).                           *)
(***************************************************************************)
THEOREM TempStaysPrefix ==
    ASSUME OneObject
    PROVE  Spec => []TempIsPrefix
<1>1. OneInv => TempIsPrefix
  BY DEF OneInv, FilesInv
<1> QED
  BY <1>1, OneInvariant, PTL

(***************************************************************************)
(* One object per path: the record never claims more bytes than the        *)
(* temporary file holds, at whichever operation a call was interrupted     *)
(* (commands.rs:399-420: bytes are written before they are recorded;       *)
(* commands.rs:539-540: a record is deleted before its file).              *)
(***************************************************************************)
THEOREM RecordIsNeverAhead ==
    ASSUME OneObject
    PROVE  Spec => []RecordNeverAhead
<1>1. OneInv => RecordNeverAhead
  BY DEF OneInv, FilesInv
<1> QED
  BY <1>1, OneInvariant, PTL

(***************************************************************************)
(* One object per path: a file at the save path is the whole object        *)
(* (commands.rs:429, 545).                                                 *)
(***************************************************************************)
THEOREM PublishedIsWhole ==
    ASSUME OneObject
    PROVE  Spec => []SavedIsWhole
<1>1. OneInv => SavedIsWhole
  BY DEF OneInv, FilesInv
<1> QED
  BY <1>1, OneInvariant, PTL

(***************************************************************************)
(* How a step of the download looks from outside.                          *)
(***************************************************************************)
LEMMA LeaveFails ==
    ASSUME OneInv, pc # "idle", NEW r, r # "ok", Leave(r), UNCHANGED saved
    PROVE  Atomic!Fail
<1>1. (IF pc = "idle" THEN NoFile ELSE obj) # NoFile
  BY SentinelAssumption DEF OneInv, BaseInv, TypeOK
<1>2. (IF pc' = "idle" THEN NoFile ELSE obj') = NoFile
  BY DEF Leave
<1>3. (result' = "ok") = (result = "ok")
  BY DEF Leave, OneInv, FilesInv
<1> QED
  BY <1>1, <1>2, <1>3 DEF Atomic!Fail

LEMMA InnerStutters ==
    ASSUME pc # "idle", pc' # "idle", UNCHANGED <<saved, obj, result>>
    PROVE  UNCHANGED <<saved, IF pc = "idle" THEN NoFile ELSE obj, result = "ok">>
OBVIOUS

LEMMA StepIsAtomicStep ==
    OneObject /\ OneInv /\ [Next]_vars
        => [Atomic!Next]_<<saved, IF pc = "idle" THEN NoFile ELSE obj, result = "ok">>
<1> SUFFICES ASSUME OneObject, OneInv, [Next]_vars
             PROVE  \/ Atomic!Next
                    \/ UNCHANGED <<saved, IF pc = "idle" THEN NoFile ELSE obj,
                                  result = "ok">>
  OBVIOUS
<1> USE DEF files, locals, Goto
<1>1. obj \in Objects /\ obj # NoFile /\ Size[obj] \in Nat
  BY SentinelAssumption, SizeAssumption DEF OneInv, BaseInv, TypeOK
<1>2. ASSUME pc # "idle", NEW r, r # "ok", Leave(r), UNCHANGED saved
      PROVE  Atomic!Next
  BY <1>2, LeaveFails DEF Atomic!Next
<1>3. ASSUME pc # "idle", pc' # "idle", temp # NoFile, Len(temp) >= Size[obj],
             saved' = temp, UNCHANGED <<obj, result>>
      PROVE  Atomic!Next
  <2>1. saved = NoFile
    BY <1>3 DEF OneInv, FilesInv
  <2>2. Len(temp) \in Nat
    BY <1>3 DEF OneInv, BaseInv, TypeOK, Contents
  <2>3. saved' = [o \in Objects |-> Whole(o)][obj]
    BY <1>1, <1>3, <2>2, CompleteTempIsWhole DEF OneInv, FilesInv
  <2>4. Atomic!Appear
    BY <1>1, <1>3, <2>1, <2>3 DEF Atomic!Appear
  <2> QED BY <2>4 DEF Atomic!Next
<1>4. CASE \E o \in Objects : Begin(o)
  <2>1. PICK o \in Objects : Begin(o)
    BY <1>4
  <2>2. Atomic!Start(o)
    BY <2>1 DEF Begin, Atomic!Start
  <2> QED BY <2>2 DEF Atomic!Next
<1>5. CASE Step
  <2>1. CASE InfoOk
    BY <2>1, InnerStutters DEF InfoOk
  <2>2. CASE InfoFails
    BY <2>2, <1>2 DEF InfoFails
  <2>3. CASE Check
    <3>1. CASE CheckUnparsable
      BY <3>1, <1>2 DEF CheckUnparsable
    <3>2. CASE CheckFinished
      BY <3>2, <1>3 DEF CheckFinished, HaveRecord
    <3>3. CASE ~CheckUnparsable /\ ~CheckFinished
      BY <2>3, <3>3, InnerStutters
      DEF Check, CheckComplete, CheckMismatch, ForgetRecord, CheckResume,
          CheckFresh, DiscardTemp, CreateTemp
    <3> QED BY <3>1, <3>2, <3>3
  <2>4. CASE Fetch
    BY <2>4, <1>2, InnerStutters
    DEF Fetch, FetchOk, FetchWrongLength, FetchRetry, FetchGivesUp, Fetching
  <2>5. CASE Write
    BY <2>5, InnerStutters DEF Write, WriteSome, WriteRest
  <2>6. CASE TruncateRecord
    BY <2>6, InnerStutters DEF TruncateRecord
  <2>7. CASE WriteRecord
    <3>1. CASE after = "loop"
      BY <2>7, <3>1, InnerStutters DEF WriteRecord
    <3>2. CASE after # "loop"
      BY <2>7, <3>2, <1>2 DEF WriteRecord, OneInv, BaseInv, TypeOK
    <3> QED BY <3>1, <3>2
  <2>8. CASE Publish
    BY <2>8, <1>1, <1>3 DEF Publish, OneInv, FilesInv
  <2>9. CASE PublishMissing
    BY <2>9, <1>2 DEF PublishMissing
  <2>10. CASE Clean
    <3>1. saved = [o \in Objects |-> Whole(o)][obj]
      BY <2>10, <1>1 DEF Clean, OneInv, FilesInv, SavedIsWhole
    <3>2. Atomic!Succeed
      BY <2>10, <3>1, <1>1 DEF Clean, Leave, Atomic!Succeed
    <3> QED BY <3>2 DEF Atomic!Next
  <2> QED
    BY <1>5, <2>1, <2>2, <2>3, <2>4, <2>5, <2>6, <2>7, <2>8, <2>9, <2>10 DEF Step
<1>6. CASE IoFails
  BY <1>6, <1>2 DEF IoFails
<1>7. CASE Crash
  BY <1>7, <1>2 DEF Crash
<1>8. CASE UNCHANGED vars
  BY <1>8 DEF vars
<1> QED
  BY <1>4, <1>5, <1>6, <1>7, <1>8 DEF Next

(***************************************************************************)
(* One object per path: download_photo (commands.rs:256-438), with all its *)
(* crashes, failures and resumptions, implements a file that appears whole *)
(* and once, and Ok is returned only when it is there.                     *)
(***************************************************************************)
THEOREM DownloadIsAtomic ==
    ASSUME OneObject
    PROVE  Spec => AppearsWhole
<1>1. Init => Atomic!Init
  BY DEF Init, Atomic!Init
<1>2. OneInv /\ [Next]_vars
        => [Atomic!Next]_<<saved, IF pc = "idle" THEN NoFile ELSE obj, result = "ok">>
  BY StepIsAtomicStep
<1> QED
  BY <1>1, <1>2, OneInvariant, PTL DEF Spec, AppearsWhole, Atomic!Spec

(***************************************************************************)
(* One object per path: no step removes or changes a file that is          *)
(* published.                                                              *)
(***************************************************************************)
THEOREM PublishedStays ==
    ASSUME OneObject
    PROVE  Spec => NeverUnpublished
<1>1. OneInv /\ [Next]_vars => [saved # NoFile => saved' = saved]_vars
  <2> SUFFICES ASSUME OneInv, [Next]_vars, saved # NoFile
               PROVE  saved' = saved
    BY DEF vars
  <2>1. [Atomic!Next]_<<saved, IF pc = "idle" THEN NoFile ELSE obj, result = "ok">>
    BY StepIsAtomicStep
  <2> QED
    BY <2>1 DEF Atomic!Next, Atomic!Start, Atomic!Appear, Atomic!Succeed, Atomic!Fail
<1> QED
  BY <1>1, OneInvariant, PTL DEF Spec, NeverUnpublished
=============================================================================
