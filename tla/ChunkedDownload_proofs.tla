----------------------- MODULE ChunkedDownload_proofs -----------------------
(***************************************************************************)
(* Proofs about ChunkedDownload, for any answers and any number of         *)
(* commands.                                                               *)
(***************************************************************************)
EXTENDS ChunkedDownload, Download_proofs

-----------------------------------------------------------------------------
(***************************************************************************)
(* A command that runs asks for what the call needs next: the size, or the *)
(* chunk at the offset of the file.  While a chunk is written, what its    *)
(* command returned is that chunk, of the length asked for.                *)
(***************************************************************************)
Request(t) ==
    /\ t \in 1..Len(asked)
    /\ asked[t] = [obj |-> obj, from |-> offset]

Awaited ==
    \/ pc = "info" /\ call.op = "simple"
    \/ Fetching /\ call.op = "chunk" /\ call.len = Chunk /\ Request(call.tid)

Held ==
    /\ Request(outcome.call.tid)
    /\ outcome.data = [i \in 1..Chunk |-> <<outcome.call.tid, i>>]

Requests == [obj : Objects, from : Nat]

CallInv ==
    /\ tid \in Nat
    /\ asked \in Seq(Requests) /\ Len(asked) = tid
    /\ call # Commands!None => Awaited
    /\ pc = "write" => Held

LEMMA ChunkedStart == ChunkedInit => BaseInv /\ CallInv
<1> SUFFICES ASSUME ChunkedInit PROVE CallInv
  BY BaseInit DEF ChunkedInit
<1>1. asked = <<>> /\ tid = 0 /\ call = Commands!None /\ pc = "idle"
  BY DEF ChunkedInit, Init, Commands!Init
<1>2. <<>> \in Seq(Requests) /\ Len(<<>>) = 0
  OBVIOUS
<1> QED
  BY <1>1, <1>2 DEF CallInv

(***************************************************************************)
(* What is written of a chunk that is held is the slice of the object.     *)
(***************************************************************************)
LEMMA HeldIsSlice ==
    ASSUME BaseInv, CallInv, pc = "write"
    PROVE  /\ Left = Chunk - written
           /\ \A k \in Nat : k <= Chunk - written =>
                  Taken(written, k) = Slice(obj, offset + written, k)
<1>1. /\ Chunk \in Nat /\ offset \in Nat /\ written \in Nat /\ written <= Chunk
  BY ChunkIsNat, SizeAssumption DEF BaseInv, TypeOK
<1> DEFINE t == outcome.call.tid
           data == outcome.data
<1>2. data = [i \in 1..Chunk |-> <<t, i>>] /\ asked[t] = [obj |-> obj, from |-> offset]
  BY DEF CallInv, Held, Request
<1>3. Len(data) = Chunk
  BY <1>1, <1>2
<1>4. ASSUME NEW k \in Nat, k <= Chunk - written, NEW i \in 1..k
      PROVE  Meaning(data[written + i]) = <<obj, offset + written + i>>
  <2>1. written + i \in 1..Chunk
    BY <1>1, <1>4
  <2>2. data[written + i] = <<t, written + i>>
    BY <1>2, <2>1
  <2>3. Meaning(<<t, written + i>>) = <<obj, offset + (written + i)>>
    BY <1>2 DEF Meaning
  <2>4. offset + (written + i) = offset + written + i
    BY <1>1
  <2> QED BY <2>2, <2>3, <2>4
<1>5. ASSUME NEW k \in Nat, k <= Chunk - written
      PROVE  Taken(written, k) = Slice(obj, offset + written, k)
  BY <1>4, <1>5 DEF Taken, Slice
<1> QED
  BY <1>3, <1>5 DEF Left

(***************************************************************************)
(* A command that begins asks for what the call needs.                     *)
(***************************************************************************)
LEMMA AskKeepsCall ==
    ASSUME BaseInv, CallInv, NEW op, NEW len, Ask(op, len),
           \/ pc = "info" /\ op = "simple"
           \/ Fetching /\ op = "chunk" /\ len = Chunk
    PROVE  CallInv'
<1>1. /\ tid' = tid + 1 /\ call' = [op |-> op, tid |-> tid + 1, len |-> len]
      /\ asked' = Append(asked, [obj |-> obj, from |-> offset])
      /\ UNCHANGED <<pc, obj, offset>>
  BY DEF Ask, Commands!Start, vars, locals
<1>2. obj \in Objects /\ offset \in Nat /\ [obj |-> obj, from |-> offset] \in Requests
  BY SizeAssumption DEF BaseInv, TypeOK, Requests
<1>3. /\ asked' \in Seq(Requests) /\ Len(asked') = tid + 1
      /\ asked'[tid + 1] = [obj |-> obj, from |-> offset]
  BY <1>1, <1>2, AppendProperties DEF CallInv
<1>4. tid + 1 \in Nat /\ tid + 1 \in 1..(tid + 1)
  BY DEF CallInv
<1>5. pc # "write"
  BY DEF Fetching
<1>6. Chunk' = Chunk /\ Fetching' = Fetching
  BY <1>1 DEF Chunk, Remaining, Fetching
<1>7. Awaited'
  BY <1>1, <1>3, <1>4, <1>6 DEF Awaited, Request
<1> QED
  BY <1>1, <1>3, <1>4, <1>5, <1>7 DEF CallInv

(***************************************************************************)
(* Where no command runs next and no chunk is about to be written, there   *)
(* is nothing to keep but the requests.                                    *)
(***************************************************************************)
LEMMA NoCommandLeft ==
    ASSUME CallInv, UNCHANGED <<tid, asked>>, call' = Commands!None, pc' # "write"
    PROVE  CallInv'
BY DEF CallInv, Commands!None

LEMMA ReturnEnds ==
    ASSUME NEW status, NEW data, Returns(status, data)
    PROVE  /\ call # Commands!None /\ call' = Commands!None
           /\ UNCHANGED <<tid, asked>>
           /\ outcome'.call = call /\ outcome'.status = status /\ outcome'.data = data
           /\ status = "ok" => Commands!OwnAnswer(call, data)
BY DEF Returns, Commands!End

(***************************************************************************)
(* A chunk of the right length is the chunk asked for.                     *)
(***************************************************************************)
LEMMA ArrivalIsHeld == ASSUME BaseInv, CallInv, ChunkArrives PROVE CallInv'
<1>1. PICK data \in Answers : Len(data) = Chunk /\ FetchOk /\ Returns("ok", data)
  BY DEF ChunkArrives
<1>2. /\ call # Commands!None /\ call' = Commands!None
      /\ UNCHANGED <<tid, asked>>
      /\ outcome'.call = call /\ outcome'.data = data
      /\ Commands!OwnAnswer(call, data)
  BY <1>1, ReturnEnds
<1>3. /\ pc = "loop" /\ pc' = "write" /\ UNCHANGED <<obj, offset>>
  BY <1>1 DEF FetchOk, Fetching
<1>4. call.op = "chunk" /\ call.len = Chunk /\ Request(call.tid)
  BY <1>2, <1>3 DEF CallInv, Awaited
<1>5. data = [i \in 1..Chunk |-> <<call.tid, i>>]
  BY <1>1, <1>2, <1>4 DEF Commands!OwnAnswer
<1>6. Chunk' = Chunk
  BY <1>3 DEF Chunk, Remaining
<1>7. Held'
  BY <1>2, <1>3, <1>4, <1>5, <1>6 DEF Held, Request
<1> QED
  BY <1>2, <1>7 DEF CallInv, Commands!None

(***************************************************************************)
(* Each step is a step of Download.                                        *)
(***************************************************************************)
LEMMA ChunkedIsDownload ==
    ASSUME BaseInv, CallInv, [ChunkedNext]_allvars PROVE [Next]_vars
<1>1. CASE AskInfo \/ AskChunk
  BY <1>1 DEF AskInfo, AskChunk, Ask
<1>2. CASE InfoArrives \/ InfoIsMissing
  BY <1>2 DEF InfoArrives, InfoIsMissing, Next, Step
<1>3. CASE ChunkArrives \/ ChunkIsWrong \/ ChunkIsMissing
  BY <1>3 DEF ChunkArrives, ChunkIsWrong, ChunkIsMissing, Next, Step, Fetch
<1>4. CASE Killed
  BY <1>4 DEF Killed, Next
<1>5. CASE Alone
  BY <1>5 DEF Alone, Next, Step
<1>6. CASE Take
  <2>1. pc = "write"
    BY <1>6 DEF Take, TakeRest, TakeSome, Goto
  <2>2. /\ Left = Chunk - written
        /\ \A k \in Nat : k <= Chunk - written =>
               Taken(written, k) = Slice(obj, offset + written, k)
    BY <2>1, HeldIsSlice
  <2>3. Chunk \in Nat /\ written \in Nat /\ written <= Chunk
    BY <2>1, ChunkIsNat, SizeAssumption DEF BaseInv, TypeOK
  <2>4. CASE TakeRest
    <3>1. Taken(written, Left) = Slice(obj, offset + written, Chunk - written)
      BY <2>2, <2>3
    <3>2. WriteRest
      BY <2>4, <3>1 DEF TakeRest, WriteRest
    <3> QED BY <3>2 DEF Next, Step, Write
  <2>5. ASSUME NEW k \in 1..Left, TakeSome(k) PROVE Next
    <3>1. k \in 1..Chunk /\ k \in Nat /\ k < Chunk - written /\ k <= Chunk - written
      BY <2>2, <2>3, <2>5 DEF TakeSome
    <3>2. Taken(written, k) = Slice(obj, offset + written, k)
      BY <2>2, <3>1
    <3>3. WriteSome(k)
      BY <2>5, <3>1, <3>2 DEF TakeSome, WriteSome
    <3> QED BY <3>1, <3>3 DEF Next, Step, Write
  <2> QED BY <1>6, <2>4, <2>5 DEF Take
<1>7. CASE UNCHANGED allvars
  BY <1>7 DEF allvars
<1> QED
  BY <1>1, <1>2, <1>3, <1>4, <1>5, <1>6, <1>7 DEF ChunkedNext

(***************************************************************************)
(* Without a command nothing is asked for, and nothing is written but what *)
(* a chunk command returned.                                               *)
(***************************************************************************)
LEMMA AloneKeepsCall ==
    ASSUME BaseInv, CallInv, Alone, UNCHANGED commands PROVE CallInv'
<1>1. call = Commands!None
  <2>1. offset \in Nat /\ Size[obj] \in Nat
    BY SizeAssumption DEF BaseInv, TypeOK
  <2>2. pc # "info" /\ (pc = "loop" => offset >= Size[obj])
    BY DEF Alone, Begin, Check, CheckComplete, CheckUnparsable, CheckMismatch, CheckFinished,
           ForgetRecord, CheckResume, CheckFresh, DiscardTemp, CreateTemp, TruncateRecord,
           WriteRecord, Publish, PublishMissing, Clean, IoFails, Goto
  <2> QED BY <2>1, <2>2 DEF CallInv, Awaited, Fetching
<1>2. pc' # "write"
  BY DEF Alone, Begin, Check, CheckComplete, CheckUnparsable, CheckMismatch, CheckFinished,
         ForgetRecord, CheckResume, CheckFresh, DiscardTemp, CreateTemp, TruncateRecord,
         WriteRecord, Publish, PublishMissing, Clean, IoFails, Goto, Leave
<1> QED
  BY <1>1, <1>2, NoCommandLeft DEF commands

LEMMA CallNext ==
    ASSUME BaseInv, CallInv, [ChunkedNext]_allvars PROVE CallInv'
<1>1. CASE AskInfo
  BY <1>1, AskKeepsCall DEF AskInfo
<1>2. CASE AskChunk
  BY <1>2, AskKeepsCall DEF AskChunk
<1>3. CASE InfoArrives \/ InfoIsMissing
  <2>1. call' = Commands!None /\ UNCHANGED <<tid, asked>>
    BY <1>3, ReturnEnds DEF InfoArrives, InfoIsMissing
  <2>2. pc' # "write"
    BY <1>3 DEF InfoArrives, InfoIsMissing, InfoOk, InfoFails, Goto, Leave
  <2> QED BY <2>1, <2>2, NoCommandLeft
<1>4. CASE ChunkArrives
  BY <1>4, ArrivalIsHeld
<1>5. CASE ChunkIsWrong \/ ChunkIsMissing
  <2>1. call' = Commands!None /\ UNCHANGED <<tid, asked>>
    BY <1>5, ReturnEnds DEF ChunkIsWrong, ChunkIsMissing
  <2>2. pc' # "write"
    BY <1>5 DEF ChunkIsWrong, ChunkIsMissing, FetchWrongLength, FetchRetry, FetchGivesUp,
                Fetching, Leave
  <2> QED BY <2>1, <2>2, NoCommandLeft
<1>6. CASE Killed
  <2>1. pc' # "write"
    BY <1>6 DEF Killed, Crash, Leave
  <2> QED BY <1>6, <2>1, NoCommandLeft DEF Killed
<1>7. CASE Take /\ UNCHANGED commands
  <2>1. pc = "write"
    BY <1>7 DEF Take, TakeRest, TakeSome, Goto
  <2>2. call = Commands!None
    BY <2>1 DEF CallInv, Awaited, Fetching
  <2>3. CASE TakeRest
    BY <1>7, <2>2, <2>3, NoCommandLeft DEF TakeRest, Goto, commands
  <2>4. ASSUME NEW k \in 1..Left, TakeSome(k) PROVE CallInv'
    <3>1. UNCHANGED <<pc, obj, offset, tid, call, outcome, asked>>
      BY <1>7, <2>4 DEF TakeSome, commands
    <3>2. Chunk' = Chunk
      BY <3>1 DEF Chunk, Remaining
    <3>3. Held'
      BY <2>1, <3>1, <3>2 DEF CallInv, Held, Request
    <3> QED BY <2>2, <3>1, <3>3 DEF CallInv, Commands!None
  <2> QED BY <1>7, <2>3, <2>4 DEF Take
<1>8. CASE Alone /\ UNCHANGED commands
  BY <1>8, AloneKeepsCall
<1>9. CASE UNCHANGED allvars
  BY <1>9 DEF allvars, vars, locals, commands, CallInv, Held, Awaited, Request, Fetching, Chunk,
              Remaining, Commands!None
<1> QED
  BY <1>1, <1>2, <1>3, <1>4, <1>5, <1>6, <1>7, <1>8, <1>9 DEF ChunkedNext

(***************************************************************************)
(* The download by commands implements the download by slices: what the    *)
(* commands promise is all that it needs of the connection                 *)
(* (commands.rs:380-399, 476-508).                                         *)
(***************************************************************************)
THEOREM ChunksAreSlices == ChunkedSpec => ImplementsDownload
<1>1. ChunkedInit => BaseInv /\ CallInv
  BY ChunkedStart
<1>2. BaseInv /\ CallInv /\ [ChunkedNext]_allvars => (BaseInv /\ CallInv)' /\ [Next]_vars
  BY CallNext, ChunkedIsDownload, BaseNext
<1>3. ChunkedInit => Init
  BY DEF ChunkedInit
<1> QED
  BY <1>1, <1>2, <1>3, PTL DEF ChunkedSpec, ImplementsDownload, Spec

(***************************************************************************)
(* One object per path: a file that appears under the target's name is,    *)
(* byte for byte, what commands returned for the object, and it appears    *)
(* whole and once, whatever commands failed, came short or were repeated   *)
(* on the way (commands.rs:256-437).                                       *)
(***************************************************************************)
THEOREM FetchedIsWhole ==
    ASSUME OneObject
    PROVE  ChunkedSpec => []SavedIsWhole /\ AppearsWhole
<1>1. ChunkedSpec => Spec
  BY ChunksAreSlices DEF ImplementsDownload
<1>2. Spec => []SavedIsWhole /\ AppearsWhole
  BY PublishedIsWhole, DownloadIsAtomic
<1> QED
  BY <1>1, <1>2
=============================================================================
