------------------------------ MODULE Download ------------------------------
(***************************************************************************)
(* The resumable chunked download of commands.rs: download_photo,          *)
(* download_object_with_resume, download_with_retry, check_resume_state    *)
(* and save_resume_state, all for ONE save path.                           *)
(*                                                                         *)
(* Three files outlive the process: the target (save_path), the temporary  *)
(* file (.NAME.download) and the resume record (.NAME.resume).  Everything *)
(* else is local to a call.  Every file-system operation is a step of its  *)
(* own, so that the process may be killed, or the operation may fail,      *)
(* between any two of them.  fs::write, which truncates and then writes,   *)
(* is two steps.  Reads that are not followed by a write are merged with   *)
(* the step they lead to: nothing else touches the files.                  *)
(*                                                                         *)
(* A byte is the pair <<object, position>>, so that the model can tell     *)
(* what a file holds and not only how long it is.                          *)
(***************************************************************************)
EXTENDS Integers, Sequences

CONSTANTS
    Objects,            \* the camera objects downloaded to this path
    Size,               \* Size[o]: object_size of the camera's ObjectInfo
    ChunkSize,          \* ChunkDownloadConfig.chunk_size
    MinChunkSize,       \* ChunkDownloadConfig.min_chunk_size
    ProgressInterval,   \* ChunkDownloadConfig.progress_interval, in percent
    MaxRetries,         \* SessionConfig.max_retries
    NoFile,             \* the file does not exist
    Unparsable          \* a resume record that is not a number

Bytes == Objects \X (Nat \ {0})
Contents == Seq(Bytes)

ASSUME SizeAssumption == Size \in [Objects -> Nat]
ASSUME ConfigAssumption ==
    /\ ChunkSize \in Nat
    /\ MinChunkSize \in Nat
    /\ ProgressInterval \in Nat
    /\ MaxRetries \in Nat
ASSUME SentinelAssumption ==
    /\ NoFile \notin Contents
    /\ NoFile \notin Nat
    /\ NoFile \notin Objects
    /\ Unparsable \notin Nat
    /\ NoFile # Unparsable

VARIABLES
    saved,      \* contents of save_path
    temp,       \* contents of the temporary file
    resume,     \* number in the resume file
    pc,         \* where the call is; "idle" when there is none
    obj,        \* object_handle of the current or last call
    offset,     \* current_offset
    written,    \* bytes of the current chunk already in the temporary file
    after,      \* where the saving of the record leads: on in the loop, or to
                \* the failure of a chunk of the wrong length
    retries,    \* retries of the current chunk
    reported,   \* last_reported_progress
    told,       \* the offset the progress callback was last called with
    result      \* how the last call ended

files == <<saved, temp, resume>>
locals == <<offset, written, after, retries, reported, told>>
vars == <<files, pc, obj, locals, result>>

Results == {"none", "ok", "Info", "InvalidResumeData", "Chunk", "Incomplete",
            "NotFound", "Io"}
Points == {"idle", "info", "check", "discard", "create", "forget", "loop",
           "write", "trunc", "note", "clean"}

(***************************************************************************)
(* Bytes from + 1 .. from + n of object o, and all of it.                  *)
(***************************************************************************)
Slice(o, from, n) == [i \in 1..n |-> <<o, from + i>>]
Whole(o) == Slice(o, 0, Size[o])

\* Faulty variant: the minimum with `remaining' is forgotten.
ChunkLenUncapped(remaining) ==
    IF remaining < MinChunkSize THEN remaining ELSE ChunkSize

(***************************************************************************)
(* The length asked for when `remaining' bytes are missing.                *)
(***************************************************************************)
ChunkLen(remaining) ==
    LET want == IF remaining < MinChunkSize THEN remaining ELSE ChunkSize
    IN  IF want < remaining THEN want ELSE remaining

Remaining == Size[obj] - offset
Chunk == ChunkLen(Remaining)

(***************************************************************************)
(* The twenty progress checkpoints, and those that a chunk ending at `off' *)
(* has passed and that were not reported yet.  The list is ascending, so   *)
(* the first match of the code is the least one.                           *)
(***************************************************************************)
Checkpoints == {(i * ProgressInterval * Size[obj]) \div 100 : i \in 1..20}
\* Faulty variant: a checkpoint is only seen when a chunk ends exactly on it.
DueExactly(off) == {p \in Checkpoints : p > reported /\ off = p}

Due(off) == {p \in Checkpoints : p > reported /\ off >= p}
Least(S) == CHOOSE p \in S : \A q \in S : p <= q

-----------------------------------------------------------------------------
Init ==
    /\ saved = NoFile /\ temp = NoFile /\ resume = NoFile
    /\ pc = "idle"
    /\ obj \in Objects
    /\ offset = 0 /\ written = 0 /\ after = "loop" /\ retries = 0
    /\ reported = 0 /\ told = 0
    /\ result = "none"

Goto(from, to) == pc = from /\ pc' = to

(***************************************************************************)
(* The call is over and its locals are gone.                               *)
(***************************************************************************)
Leave(r) ==
    /\ pc' = "idle"
    /\ result' = r
    /\ offset' = 0 /\ written' = 0 /\ after' = "loop" /\ retries' = 0
    /\ reported' = 0 /\ told' = 0
    /\ UNCHANGED obj

-----------------------------------------------------------------------------
(***************************************************************************)
(* download_photo: ask for the object's size.                              *)
(***************************************************************************)
Begin(o) ==
    /\ Goto("idle", "info")
    /\ obj' = o
    /\ result' = "none"
    /\ UNCHANGED <<files, locals>>

InfoOk ==
    /\ Goto("info", "check")
    /\ UNCHANGED <<files, obj, locals, result>>

InfoFails ==
    /\ pc = "info"
    /\ Leave("Info")
    /\ UNCHANGED files

-----------------------------------------------------------------------------
(***************************************************************************)
(* check_resume_state                                                      *)
(***************************************************************************)
TargetComplete == saved # NoFile /\ Len(saved) = Size[obj]
HaveRecord == resume # NoFile /\ temp # NoFile

\* Faulty variant: the finished target is opened with File::create.
CheckCompleteTruncates ==
    /\ Goto("check", "loop")
    /\ TargetComplete
    /\ saved' = <<>>
    /\ offset' = Size[obj]
    /\ UNCHANGED <<temp, resume, obj, written, after, retries, reported, told, result>>

CheckComplete ==
    /\ Goto("check", "loop")
    /\ TargetComplete
    /\ offset' = Size[obj]
    /\ UNCHANGED <<files, obj, written, after, retries, reported, told, result>>

CheckUnparsable ==
    /\ pc = "check"
    /\ ~TargetComplete /\ HaveRecord
    /\ resume = Unparsable
    /\ Leave("InvalidResumeData")
    /\ UNCHANGED files

\* Faulty variant: the record is believed and the file is not looked at.
CheckMismatchTrustsRecord ==
    /\ Goto("check", "loop")
    /\ ~TargetComplete /\ HaveRecord
    /\ resume # Unparsable /\ resume # Len(temp)
    /\ offset' = IF resume < Size[obj] THEN resume ELSE Size[obj]
    /\ UNCHANGED <<files, obj, written, after, retries, reported, told, result>>

\* Faulty variant: the file is deleted and the record is not.
CheckMismatchKeepsRecord ==
    /\ Goto("check", "create")
    /\ ~TargetComplete /\ HaveRecord
    /\ resume # Unparsable /\ resume # Len(temp)
    /\ temp' = NoFile
    /\ UNCHANGED <<saved, resume, obj, locals, result>>

\* Faulty variant: the record is compared with the size of the object.
CheckMismatchComparesSize ==
    /\ Goto("check", "discard")
    /\ ~TargetComplete /\ HaveRecord
    /\ resume # Unparsable /\ resume # Size[obj]
    /\ resume' = NoFile
    /\ UNCHANGED <<saved, temp, obj, locals, result>>

CheckMismatch ==
    /\ Goto("check", "discard")
    /\ ~TargetComplete /\ HaveRecord
    /\ resume # Unparsable /\ resume # Len(temp)
    /\ resume' = NoFile
    /\ UNCHANGED <<saved, temp, obj, locals, result>>

\* Faulty variant: a matching record is taken for a finished file.
CheckFinishedTooEarly ==
    /\ Goto("check", "forget")
    /\ ~TargetComplete /\ HaveRecord
    /\ resume # Unparsable /\ resume = Len(temp)
    /\ saved' = temp
    /\ temp' = NoFile
    /\ UNCHANGED <<resume, obj, locals, result>>

CheckFinished ==
    /\ Goto("check", "forget")
    /\ ~TargetComplete /\ HaveRecord
    /\ resume # Unparsable /\ resume = Len(temp) /\ resume >= Size[obj]
    /\ saved' = temp
    /\ temp' = NoFile
    /\ UNCHANGED <<resume, obj, locals, result>>

ForgetRecord ==
    /\ Goto("forget", "loop")
    /\ resume' = NoFile
    /\ offset' = Size[obj]
    /\ UNCHANGED <<saved, temp, obj, written, after, retries, reported, told, result>>

\* Faulty variant: a temporary file longer than the record is accepted.
CheckResumeLonger ==
    /\ Goto("check", "loop")
    /\ ~TargetComplete /\ HaveRecord
    /\ resume # Unparsable /\ resume <= Len(temp) /\ resume < Size[obj]
    /\ offset' = resume
    /\ UNCHANGED <<files, obj, written, after, retries, reported, told, result>>

CheckResume ==
    /\ Goto("check", "loop")
    /\ ~TargetComplete /\ HaveRecord
    /\ resume # Unparsable /\ resume = Len(temp) /\ resume < Size[obj]
    /\ offset' = resume
    /\ UNCHANGED <<files, obj, written, after, retries, reported, told, result>>

CheckFresh ==
    /\ Goto("check", IF temp # NoFile THEN "discard" ELSE "create")
    /\ ~TargetComplete /\ ~HaveRecord
    /\ UNCHANGED <<files, obj, locals, result>>

DiscardTemp ==
    /\ Goto("discard", "create")
    /\ temp' = NoFile
    /\ UNCHANGED <<saved, resume, obj, locals, result>>

CreateTemp ==
    /\ Goto("create", "loop")
    /\ temp' = <<>>
    /\ offset' = 0
    /\ UNCHANGED <<saved, resume, obj, written, after, retries, reported, told, result>>

-----------------------------------------------------------------------------
(***************************************************************************)
(* The chunk loop of download_object_with_resume, with the retries of      *)
(* download_with_retry.  A chunk of the length asked for holds the bytes   *)
(* asked for (see ChunkedDownload); one of another length is discarded     *)
(* unread, so its contents do not matter.                                  *)
(***************************************************************************)
Fetching == pc = "loop" /\ offset < Size[obj]

FetchOk ==
    /\ Fetching
    /\ pc' = "write"
    /\ written' = 0
    /\ retries' = 0
    /\ UNCHANGED <<files, obj, offset, after, reported, told, result>>

\* Faulty variant: a short chunk is asked for again, without counting.
FetchWrongLengthAgain ==
    /\ Fetching
    /\ pc' = "trunc"
    /\ retries' = 0
    /\ UNCHANGED <<files, obj, offset, written, after, reported, told, result>>

FetchWrongLength ==
    /\ Fetching
    /\ pc' = "trunc"
    /\ after' = "Incomplete"
    /\ retries' = 0
    /\ UNCHANGED <<files, obj, offset, written, reported, told, result>>

FetchRetry ==
    /\ Fetching
    /\ retries + 1 <= MaxRetries
    /\ retries' = retries + 1
    /\ UNCHANGED <<files, pc, obj, offset, written, after, reported, told, result>>

FetchGivesUp ==
    /\ Fetching
    /\ retries + 1 > MaxRetries
    /\ Leave("Chunk")
    /\ UNCHANGED files

(***************************************************************************)
(* write_all may need several writes; the last one ends the chunk, which   *)
(* is then counted and reported if a checkpoint was passed.                *)
(***************************************************************************)
WriteSome(k) ==
    /\ pc = "write"
    /\ k < Chunk - written
    /\ temp' = temp \o Slice(obj, offset + written, k)
    /\ written' = written + k
    /\ UNCHANGED <<saved, resume, pc, obj, offset, after, retries, reported, told, result>>

Report(off) ==
    IF Due(off) # {}
    THEN told' = off /\ reported' = Least(Due(off))
    ELSE UNCHANGED <<told, reported>>

WriteRest ==
    /\ Goto("write", "trunc")
    /\ temp' = temp \o Slice(obj, offset + written, Chunk - written)
    /\ written' = 0
    /\ offset' = offset + Chunk
    /\ Report(offset + Chunk)
    /\ UNCHANGED <<saved, resume, obj, after, retries, result>>

(***************************************************************************)
(* save_resume_state: fs::write empties the record, then writes it.        *)
(***************************************************************************)
TruncateRecord ==
    /\ Goto("trunc", "note")
    /\ resume' = Unparsable
    /\ UNCHANGED <<saved, temp, obj, locals, result>>

\* Faulty variant: a short chunk is taken for the end of the object.
WriteRecordShortIsOk ==
    /\ pc = "note"
    /\ resume' = offset
    /\ IF after = "loop" THEN pc' = "loop" /\ UNCHANGED <<obj, locals, result>>
                         ELSE Leave("ok")
    /\ UNCHANGED <<saved, temp>>

WriteRecord ==
    /\ pc = "note"
    /\ resume' = offset
    /\ IF after = "loop" THEN pc' = "loop" /\ UNCHANGED <<obj, locals, result>>
                         ELSE Leave(after)
    /\ UNCHANGED <<saved, temp>>

(***************************************************************************)
(* After the loop: rename the temporary file to the target, delete the     *)
(* record (a failure to do so is ignored), make the final callback.        *)
(***************************************************************************)
Publish ==
    /\ Goto("loop", "clean")
    /\ offset >= Size[obj]
    /\ temp # NoFile
    /\ saved' = temp
    /\ temp' = NoFile
    /\ UNCHANGED <<resume, obj, locals, result>>

PublishMissing ==
    /\ pc = "loop"
    /\ offset >= Size[obj]
    /\ temp = NoFile
    /\ Leave("NotFound")
    /\ UNCHANGED files

Clean ==
    /\ pc = "clean"
    /\ resume' \in {NoFile, resume}
    /\ Leave("ok")
    /\ UNCHANGED <<saved, temp>>

-----------------------------------------------------------------------------
(***************************************************************************)
(* The file operation at hand fails without effect and `?' returns.        *)
(***************************************************************************)
IoFails ==
    /\ \/ pc \in {"check", "discard", "create", "forget", "write", "trunc", "note"}
       \/ pc = "loop" /\ offset >= Size[obj]
    /\ Leave("Io")
    /\ UNCHANGED files

(***************************************************************************)
(* The process is killed: the files stay, the call never returns.          *)
(***************************************************************************)
Crash ==
    /\ pc # "idle"
    /\ Leave("none")
    /\ UNCHANGED files

Check ==
    \/ CheckComplete \/ CheckUnparsable \/ CheckMismatch \/ CheckFinished
    \/ ForgetRecord \/ CheckResume \/ CheckFresh \/ DiscardTemp \/ CreateTemp
Fetch == FetchOk \/ FetchWrongLength \/ FetchRetry \/ FetchGivesUp
Write == WriteRest \/ \E k \in 1..Chunk : WriteSome(k)

Step ==
    \/ InfoOk \/ InfoFails \/ Check \/ Fetch \/ Write
    \/ TruncateRecord \/ WriteRecord
    \/ Publish \/ PublishMissing \/ Clean

Next == (\E o \in Objects : Begin(o)) \/ Step \/ IoFails \/ Crash

Spec == Init /\ [][Next]_vars

(***************************************************************************)
(* A running call is never suspended for ever: each of its steps returns   *)
(* (reads of the socket have a timeout).  Nobody promises that a call is   *)
(* ever made, that it fails or that the process is killed.                 *)
(***************************************************************************)
FairSpec == Spec /\ WF_vars(Step)

-----------------------------------------------------------------------------
(***************************************************************************)
(* Every variable has its type (and offset never exceeds the size).        *)
(***************************************************************************)
TypeOK ==
    /\ saved \in Contents \cup {NoFile}
    /\ temp \in Contents \cup {NoFile}
    /\ resume \in Nat \cup {NoFile, Unparsable}
    /\ pc \in Points
    /\ obj \in Objects
    /\ offset \in 0..Size[obj]
    /\ written \in Nat
    /\ after \in {"loop", "Incomplete"}
    /\ retries \in 0..MaxRetries
    /\ reported \in Nat
    /\ told \in Nat
    /\ result \in Results

(***************************************************************************)
(* While a call is in the loop with bytes to fetch, the temporary file     *)
(* ends exactly at the offset the next request names, whatever call began  *)
(* it (commands.rs: "metadata.len() != current_offset" restarts).          *)
(***************************************************************************)
OffsetTracksTemp ==
    /\ Fetching => temp # NoFile /\ Len(temp) = offset
    /\ pc = "write" => temp # NoFile /\ Len(temp) = offset + written
    /\ pc \in {"trunc", "note"} => temp # NoFile /\ Len(temp) = offset

(***************************************************************************)
(* One object per path: the temporary file is a prefix of the object,      *)
(* across every crash, failed write, restart and resume.                   *)
(***************************************************************************)
TempIsPrefix ==
    temp # NoFile =>
        /\ Len(temp) <= Size[obj]
        /\ temp = Slice(obj, 0, Len(temp))

(***************************************************************************)
(* One object per path: a file under the target's name is the whole        *)
(* object; the rename never exposes a partial one.                         *)
(***************************************************************************)
SavedIsWhole == saved # NoFile => saved = Whole(obj)

(***************************************************************************)
(* One object per path: the record never claims more bytes than the        *)
(* temporary file holds (bytes are written before they are recorded, and   *)
(* on a mismatch the record is deleted before the file).                   *)
(***************************************************************************)
RecordNeverAhead ==
    resume \in Nat /\ temp # NoFile => resume <= Len(temp)

(***************************************************************************)
(* A chunk leaves the callback at most one interval behind, in a resumed   *)
(* call too (commands.rs:411-417).  It takes an interval of at least 5%:   *)
(* there are always twenty checkpoints, and below 5% the last one is       *)
(* passed long before the end.                                             *)
(***************************************************************************)
ProgressTimely ==
    pc = "trunc" /\ after = "loop" =>
        100 * (offset - told) < ProgressInterval * Size[obj] + 100

(***************************************************************************)
(* One object per path: a published file is never removed nor changed.     *)
(***************************************************************************)
NeverUnpublished == [][saved # NoFile => saved' = saved]_vars

(***************************************************************************)
(* What calls have fetched is not fetched again.  Bytes in the temporary   *)
(* file that are on record stay, with what is added to them, through any   *)
(* failure, kill and later call until they are published.  They are at     *)
(* risk only from the first byte of a chunk to the end of its record: if   *)
(* the call is killed or fails there, the next one finds a file that does  *)
(* not match its record and deletes it all (commands.rs:534-541); if it is *)
(* not, they are on record again.                                          *)
(***************************************************************************)
OnRecord == temp # NoFile /\ resume = Len(temp)
BeingRecorded == temp # NoFile /\ pc \in {"write", "trunc", "note"}
Safe == OnRecord \/ BeingRecorded

Interrupted == (Crash \/ IoFails) /\ ~OnRecord

TrustedBytesKept ==
    [][Safe /\ ~Interrupted
          => (Safe' /\ Len(temp') >= Len(temp)) \/ saved' = temp]_vars

(***************************************************************************)
(* Every call returns.                                                     *)
(***************************************************************************)
CallReturns == pc # "idle" ~> pc = "idle"

(***************************************************************************)
(* One object per path: the calls, retries and crashes of this module look *)
(* from outside like a file that appears whole, once.                      *)
(***************************************************************************)
Atomic == INSTANCE AtomicDownload WITH
    Content <- [o \in Objects |-> Whole(o)],
    NoCall <- NoFile,
    file <- saved,
    call <- IF pc = "idle" THEN NoFile ELSE obj,
    succeeded <- (result = "ok")

AppearsWhole == Atomic!Spec

-----------------------------------------------------------------------------
(***************************************************************************)
(* What comments and tests say of this code and the code does not do.      *)
(***************************************************************************)

(***************************************************************************)
(* "Target file exists and is complete" (commands.rs:519): a call for a    *)
(* file that is already there succeeds.                                    *)
(***************************************************************************)
CompleteTargetSucceeds == result = "NotFound" => saved # Whole(obj)

(***************************************************************************)
(* "Save resume point" (commands.rs:419): what the code itself saved can   *)
(* be read back by the next call.                                          *)
(***************************************************************************)
OwnRecordIsReadable == result # "InvalidResumeData"

(***************************************************************************)
(* "Complete download" (commands.rs:423): after Ok the file at the save    *)
(* path is the object that was asked for.                                  *)
(***************************************************************************)
OkMeansWhole == result = "ok" => saved = Whole(obj)

=============================================================================
