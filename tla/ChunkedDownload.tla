--------------------------- MODULE ChunkedDownload ---------------------------
(***************************************************************************)
(* The download of module Download with the commands it is made of         *)
(* (commands.rs): get_object_info asks for the size, get_partial_object    *)
(* for a chunk, each is one command of the client, and what goes into the  *)
(* file is what the command returned.  Of the commands nothing is known    *)
(* but CommandPromise, which module Client implements.  So a chunk that    *)
(* failed may be followed by its retry, by a call for another object, or   *)
(* by a client that begins anew after the process was killed.              *)
(*                                                                         *)
(* The bytes of an answer are named as in CommandPromise, by the command   *)
(* and their position.  What they mean depends on what the command asked   *)
(* for, which is remembered.                                               *)
(***************************************************************************)
EXTENDS Download

CONSTANTS
    Answers,        \* the byte sequences that a chunk command may return
    MaxCommands     \* bound on the commands

ASSUME AnswersAssumption ==
    /\ Answers \subseteq Seq(Nat \X Nat)
    /\ MaxCommands \in Nat

VARIABLES
    tid,        \* the last transaction id
    call,       \* the command that runs
    outcome,    \* how the last one ended, with the data it returned
    asked       \* history: asked[t] is the object and offset of command t

commands == <<tid, call, outcome, asked>>
allvars == <<vars, commands>>

Commands == INSTANCE CommandPromise WITH ChunkLengths <- Nat

NoOutcome == [call |-> Commands!None, status |-> "none", data |-> <<>>]

ChunkedInit == Init /\ Commands!Init /\ asked = <<>>

(***************************************************************************)
(* The camera: byte i of the answer to a request at an offset is byte      *)
(* offset + i of the object.                                               *)
(***************************************************************************)
Meaning(b) == <<asked[b[1]].obj, asked[b[1]].from + b[2]>>

Ask(op, len) ==
    /\ tid < MaxCommands
    /\ Commands!Start(op, len)
    /\ asked' = Append(asked, [obj |-> obj, from |-> offset])
    /\ UNCHANGED vars

Returns(status, data) ==
    /\ outcome' = [call |-> call, status |-> status, data |-> data]
    /\ Commands!End
    /\ UNCHANGED asked

-----------------------------------------------------------------------------
(***************************************************************************)
(* get_object_info: the response may also be one that cannot be parsed.    *)
(***************************************************************************)
AskInfo == pc = "info" /\ Ask("simple", 0)
InfoArrives == (InfoOk \/ InfoFails) /\ Returns("ok", <<call.tid>>)
InfoIsMissing == InfoFails /\ Returns("error", <<>>)

(***************************************************************************)
(* get_partial_object, in the loop of download_with_retry.                 *)
(***************************************************************************)
AskChunk == Fetching /\ Ask("chunk", Chunk)

\* Faulty variant: too many bytes are no reason to fail.
ChunkMayBeLonger ==
    \E data \in Answers : Len(data) >= Chunk /\ FetchOk /\ Returns("ok", data)

ChunkArrives ==
    \E data \in Answers : Len(data) = Chunk /\ FetchOk /\ Returns("ok", data)

ChunkIsWrong ==
    \E data \in Answers : Len(data) # Chunk /\ FetchWrongLength /\ Returns("ok", data)

ChunkIsMissing == (FetchRetry \/ FetchGivesUp) /\ Returns("error", <<>>)

(***************************************************************************)
(* write_all: bytes from + 1 .. from + n of what the command returned.     *)
(***************************************************************************)
Taken(from, n) == [i \in 1..n |-> Meaning(outcome.data[from + i])]

Left == Len(outcome.data) - written

TakeSome(k) ==
    /\ pc = "write" /\ k < Left
    /\ temp' = temp \o Taken(written, k)
    /\ written' = written + k
    /\ UNCHANGED <<saved, resume, pc, obj, offset, after, retries, reported, told, result>>

TakeRest ==
    /\ Goto("write", "trunc")
    /\ temp' = temp \o Taken(written, Left)
    /\ written' = 0
    /\ offset' = offset + Chunk
    /\ Report(offset + Chunk)
    /\ UNCHANGED <<saved, resume, obj, after, retries, result>>

Take == TakeRest \/ \E k \in 1..Left : TakeSome(k)

-----------------------------------------------------------------------------
(***************************************************************************)
(* Everything else is done without a command.                              *)
(***************************************************************************)
Alone ==
    \/ \E o \in Objects : Begin(o)
    \/ Check \/ TruncateRecord \/ WriteRecord
    \/ Publish \/ PublishMissing \/ Clean \/ IoFails

(***************************************************************************)
(* The process is killed, and with it the client; the next one begins with *)
(* no command.                                                             *)
(***************************************************************************)
Killed ==
    /\ Crash
    /\ call' = Commands!None /\ outcome' = NoOutcome
    /\ UNCHANGED <<tid, asked>>

ChunkedNext ==
    \/ AskInfo \/ InfoArrives \/ InfoIsMissing
    \/ AskChunk \/ ChunkArrives \/ ChunkIsWrong \/ ChunkIsMissing
    \/ Killed
    \/ (Take \/ Alone) /\ UNCHANGED commands

ChunkedSpec == ChunkedInit /\ [][ChunkedNext]_allvars

-----------------------------------------------------------------------------
(***************************************************************************)
(* The bytes of the commands are the bytes of the object: a download that  *)
(* writes what its commands return does what Download says, which writes   *)
(* slices of the object.  It takes all of: commands that promise the bytes *)
(* asked for when the length is right, the comparison of the length        *)
(* (commands.rs:390), a request that names the offset of the file, and an  *)
(* answer used at the offset it was asked for.                             *)
(***************************************************************************)
ImplementsDownload == Spec
=============================================================================
