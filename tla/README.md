# Verification of ptpip_core

TLA+ models of `ptpip_core`, a Rust library that controls cameras over PTP/IP: TLC checks small
instances, TLAPS proves the central properties for every value of the constants. File names in this
text and in the modules are those of `src/src/`.

## 1. The system

| part | state it keeps | operations | with whom it interacts |
|---|---|---|---|
| Resumable download (`commands.rs:255-588`) | three files per save path: target, `.NAME.download`, `.NAME.resume`; per call: offset, retries, last reported checkpoint | `download_photo`, `check_resume_state`, chunk loop, `save_resume_state` | asks the client for chunks; survives kills through the files |
| `CameraClient` (`commands.rs:41-338, 590-688, 825-866`) | one TCP stream, a session, a transaction per command | `connect`, the operations, `close` | shares its stream with the event listener |
| Event listener (`commands.rs:81-112`) | a clone of the stream, a channel | receive, parse, forward | reads from the *same* socket as the commands |
| Packet reception (`transport.rs:14-78, 146-253`) | none; the position in the stream | `recv_packet`, `recv_packet_filtered` | called by both threads |
| Sending (`transport.rs:88-144`, `commands.rs:594-628`) | retries of one packet | `send_command`, `send_packet_with_retry` | writes to the stream of the commands |
| Discovery (`discovery.rs:49-249`) | UDP socket, clock, addresses seen, cameras found | `discover_cameras` | datagrams of the network |
| `Session` (`session.rs:16-251`) | stream, session id, last activity, `is_connected` | `connect`, operations with heartbeat, `Drop` | `connect` is rejected by `send_command` |
| C interface (`session.rs:253-331`, `discovery.rs:255-336`) | raw `Arc` pointers, a C array of cameras | create, close, query, discover, free | callers in C or Swift |
| Parsers (`commands.rs:656-815`, `transport.rs:255-360`) | a cursor over a payload | `check_response_error`, `parse_*`, `extract_string` | called with the payload of a response |
| Types, utilities, build script | none | pure functions | |

### What is hard here

* **Interruptions.** A download may be killed, or one of its file operations may fail, between any
  two operations and inside `write_all` and `fs::write`; the next call starts from what is left.
* **Sharing.** Two calls for different objects may use one save path one after the other. Two
  threads read packets from one socket, each read being several `read_exact` calls.
* **Time.** A command that timed out leaves its answer to the next one; a retry of a chunk meets the
  late blocks of the first try; the attempts of the discovery share one clock.
* **Retries.** A write may accept a part of a packet and then fail; the whole packet is sent again.
* **Ownership.** Two threads hold the connection and end at different times; a C caller frees what
  the discovery allocated, also after a call that failed halfway.
* **Boundaries.** A payload cut in the middle of a number, a list or a string; the last chunk, the checkpoints of the progress callback, empty objects, a full
  list of cameras, a `recv_from` that starts just before the timeout.

`PROJECT.json` lists each hazard with its line and the properties that cover it.

### What makes the parts correct

* Download: a file at the save path is the whole object; what is in the temporary file is a prefix of
  it; the record is never ahead of the file; recorded bytes stay until they are published, unless a
  call ends between the first byte of a chunk and its record; every call ends; the caller keeps being told.
* Client: success means the own answer, which the command does not throw away; a chunk of
  full length holds the bytes asked for; the stream keeps its place; every command returns; the
  listener lives as long as the session and not longer.
* Sending: the packet of a command is whole on the stream once after `Ok` and never after an error, and
  the sending ends.
* Discovery: no camera twice, bounded duration, it ends; its C interface hands out what was found and
  leaves nothing in the heap.
* Parsers: a whole payload becomes what the camera described, a cut one an error.

## 2. Modules

| module | contents |
|---|---|
| `AtomicDownload` | the promise of `download_photo`: a file that appears whole, once, and a call that only succeeds when it is there |
| `Download` | the download, one save path |
| `Download_proofs` | its theorems |
| `ChunkedDownload` | the download made of commands of `CommandPromise`: it implements `Download` |
| `ChunkedDownload_proofs` | its theorems |
| `CommandPromise` | the promise of a `CameraClient`: commands one after the other, each ends once, success means its own answer |
| `Client` | client, listener and packet reception over one byte stream, with camera and network as environment |
| `Client_proofs`, `ClientStream_proofs`, `ClientPlace_proofs` | its theorems; the second one follows the packets through the stream, the third one the place of the readers in it |
| `Send` | `send_command` and the retries of its packet, on a stream that accepts parts |
| `Session` | `ptpip_create_session` and `Session::connect`, composed with `Send` |
| `Send_proofs` | the theorems of both |
| `Discovery` | `discover_cameras` and `parse_discovery_response` |
| `CDiscovery` | the C interface of the discovery, composed with `Discovery` |
| `Discovery_proofs` | the theorems of both |
| `Parsers` | the parsers of payloads as one walk over bytes |
| `Parsers_proofs` | its theorems |
| `MCDownload`, `MCChunked`, `MCClient`, `MCSend`, `MCSession`, `MCDiscovery`, `MCParsers` | values for TLC |

Definitions with the comment "Faulty variant" are not part of a specification: each is a plausible
bug of the definition below it, and `PROJECT.json` names the property that TLC finds violated when
it takes that definition's place.

### Download

`saved`, `temp` and `resume` are the contents of the target, the temporary file and the record, or
`NoFile`. A byte is `<<object, position>>`, so that a file spliced from two objects or with a gap is
told from a good one. `pc` walks through the code:

| `pc` | code | actions |
|---|---|---|
| `idle` -> `info` | `download_photo`, `get_object_info` | `Begin`, `InfoOk`, `InfoFails` |
| `check` | `check_resume_state` | `CheckComplete`, `CheckUnparsable`, `CheckMismatch`, `CheckFinished`, `CheckResume`, `CheckFresh` |
| `discard`, `create`, `forget` | its deletions and `File::create` | `DiscardTemp`, `CreateTemp`, `ForgetRecord` |
| `loop` | the head of the chunk loop, `download_with_retry` | `FetchOk`, `FetchWrongLength`, `FetchRetry`, `FetchGivesUp` |
| `write` | `write_all`, the callback | `WriteSome`, `WriteRest` |
| `trunc`, `note` | the two halves of `fs::write` in `save_resume_state` | `TruncateRecord`, `WriteRecord` |
| `loop` with nothing to fetch, `clean` | rename, deletion of the record | `Publish`, `PublishMissing`, `Clean` |

`IoFails` makes the operation at hand return an error, `Crash` kills the process. Both leave the
files as they are; partial effects are the intermediate states of the two-step writes. A killed
process loses what is in its memory only: the loss of unsynced data in a power failure is not
modelled, nor are two clients that use one path at the same time.

`FetchOk` says that a chunk of the length asked for holds the bytes asked for. That is the only thing
`Download` takes from the client.

### ChunkedDownload

Here it is not taken but shown. `ChunkedDownload` is `Download` with the commands of the client beside it:
`AskInfo` and `AskChunk` start a command (`get_object_info`, `get_partial_object`), `InfoArrives`,
`ChunkArrives`, `ChunkIsWrong`, `InfoIsMissing` and `ChunkIsMissing` are the ways it returns, each one
step with what the download does next, and `TakeSome` and `TakeRest` write what the command returned
instead of slices of the object. `Killed` takes the running command with it; everything else (`Alone`) is
as in `Download`. A byte of an answer is named by its command and position; `asked` remembers object and offset of each
command, and `Meaning` is the byte of the object that the camera sent for it. Of the commands only the
actions `Start` and `End` of `CommandPromise` are used, which `Client` implements (`KeepsPromise`) for as long as its readers
are in step with the stream: after a misread byte its model, and with it the promise, ends.

### Client

The byte stream is a sequence of parts (`type`, `head`, `len`, `body` of a packet): exactly the
units of the `read_exact` calls of `recv_packet`. The camera puts packets into `outbox`, the network
moves them part by part (`Arrive`, `arrived`) into `wire`. Each reader, the command thread and the
listener, is at a part (`at`), in a packet (`cur`). A reader that finds another part than the one it
is at has lost its place (`Misread`): it may find a packet type that is none, which is a
`ProtocolError` for a command and ends the listener, or anything else. The model sets `aligned` to
`FALSE` and follows the connection no further. `After` holds what the code believes about the layout, `Parts` the layout itself: data
blocks and responses with a length, events with a payload and none.

`connect` starts the listener (`ReturnOk`), as the code always does. `recv_packet_filtered` is
`SkipType` and `Expire` (its clock is read only before a packet, hence `skipped`), `get_response` is
`GotResponse`, `GotRefusal` and `SkipTransaction`, `receive_data_block` is `GotData`, `GotEnd` and
`SkipTransaction`. `LengthTimesOut` is the read in `recv_packet` whose error is swallowed.
`timeoutKind`, chosen once, is what the operating system returns from a read that times out. `Drop` is
a client that goes out of scope while its listener reads on. `Close` is the end of the connection,
from the camera or the network: what has arrived can be read, then every read fails with `Io`
(`Failure`).

The camera answers in order, as the parsing code expects, after any delay or never: with a response,
with a refusal, or with the blocks of a chunk, cut anywhere (`Cuts`), that may end early. Sending
succeeds in one step (`Send` has its failures). Transaction ids are fresh.

`KeepsPromise` is the refinement of `CommandPromise`; its variables are the transaction, the running
command and the last outcome, and everything about the stream is hidden. `InPlace` says that what is
unread, arrived or not, continues where the command thread is, and `KeepsPlace` that no step disturbs
this except an event, the listener and a timeout in the middle of a packet. `discarded` remembers the
responses that readers ignored, and no other packets, of which nothing is said.

### Send

The stream is what the local socket accepted, counted in words of four bytes, each marked with its
command and its place in the packet. `pc` tells which of the two `write_all` calls runs, or that the thread sleeps. `Write(k)`
is one write that accepts k words; the last one ends the send with `Ok`. A write that fails is
`Retry`, which leaves the part already accepted where it is, sleeps (`Wake`) and begins the packet
again, or `GiveUp`.
`CommandRejected` is the loop of `send_command` over the parameters: six bytes are a word and a rest,
which `read_u32_be` refuses.

An accepted part of a packet followed by the whole packet is not a sequence of packets any more:
a retry after a partial write costs the camera the framing of the stream, although the packet of the
command is on it exactly once in full. `SentAtMostOnce` counts packets as they were meant, and says
nothing of a part that the first words of a retry happen to complete.

### Session

`Session` puts the address check, the TCP connection and `OpenSession` around `Send`, whose
`Command(6)` is what `send_open_session` asks for. It ends with a handle or with `NULL`; `obstacle`
records whether address, network or camera gave a reason. Since the six bytes are rejected, `Open`,
the sending and the response are never reached, and neither is anything that needs a session.

### Discovery

`now` is the time since `start_time`. It passes while `recv_from` waits (`Tick`), between attempts
(`Rest`), and perhaps while a datagram or a receive error is handled (`TimePasses`). Datagrams arrive at
any time, without end, and are queued by the socket; receiving may fail any number of times. A datagram carries the
source address and what `parse_discovery_response` looks at: the address family, the length, the
message type, the version and the port (`Accepted`). The source is remembered before the datagram is
parsed, as in the code.

`CDiscovery` adds a caller in C that makes one call after the other and frees after each what its
variables describe. The heap holds arrays, at addresses that are used
again, and strings; `AllocationFails` is the failing `calloc`, after `out_count` is set.

### Parsers

All parsers check a minimum length and then read numbers of fixed width, perhaps a list whose length
is the last number, and strings named by offset and length. `Layout` holds what differs. A run of the
walk is one payload: the camera encodes a description (`Encoded`), the payload is cut at any byte, and
each read is a step. Bytes are numbers, and the walk computes with them. `IsUtf8` is the well-formedness
that `String::from_utf8` asks for: leading bytes with the continuation bytes they call for, none of them
overlong, a surrogate or above the last character.

## 3. Runs

| run | question | bounds |
|---|---|---|
| `MCDownloadOne` | Is the target whole, the temporary file a prefix, the record not ahead, the callback in time? Does the download implement `AtomicDownload`? Does each call end? | one object of 40 bytes, chunks of 3 (so the last has one byte), checkpoints every 4 bytes, 2 retries |
| `MCChunked` | Does a download that writes what its commands returned implement `Download`? Is the offset right, and do recorded bytes stay, when calls for two objects alternate? | objects of 3 and 2 bytes on one path, chunks of 2, one retry, six commands; a command may return up to two bytes, of any command and position, unless the promise forbids it; a leftover may be shorter than, as long as, or longer than the other object |
| `MCDownloadComplete`, `MCDownloadRecord`, `MCDownloadStale` | see section 5 | as small as shows it |
| `MCClientShared` | Is a full chunk exact, and no awaited response thrown away by its command? Does the connection implement `CommandPromise`, and keep its place? | three commands (`connect`, one that times out, and its retry or another operation), chunks of two bytes in every cut, both kinds of timeout, no events, a connection that does not end |
| `MCClientReturns` | Does each command return, does the listener of an open session survive all but the end of the connection and a read out of step where a timeout is `TimedOut`, and end with its client where it is `WouldBlock` or the connection ends? | two commands, one event (after which the next read is out of step), a connection that may end at any time |
| `MCClientSteals` | see section 5 | two commands |
| `MCSend` | Is the packet of a command whole on the stream once or not at all, are the attempts bounded, does each send return? | two commands without, with one and with one and a half parameters; two retries |
| `MCSession` | see section 5 | one call |
| `MCDiscovery` | Is the list proper, the time bounded, and does the search end, whatever arrives and fails? Does each call of the C interface return what was found, and can it be freed? | two C calls of three attempts, timeout 2, a list of two, one datagram queued at a time, datagrams and receive errors without end; device a answers from two addresses, b also with a datagram too short and with a NUL in its name |
| `MCParsers` | Is a whole payload parsed into what it says, a cut one refused? Does the walk end? | six kinds, lists of up to two, texts that are empty, a character of two bytes, half of one, and a byte with a NUL and a byte of no UTF-8 behind it, a good and a bad code, every length |

In `MCDownloadOne` no bound limits the number of calls, crashes and failures: its state space is finite
without. `MaxCommands`, `MaxEvents`, `MaxCalls` and `MayClose` bound what callers and
environment do, `MaxQueue` what a socket holds, not what arrives. Three commands are what the properties of the client need (open, one that fails, one
that meets its remains), and `ChunkedDownload` needs six (two calls
that ask for a size and two chunks), and the theorems of section 4 lift the bound; chunks of two bytes have all
the forms a chunk has (no block, one, several, cut short). The discovery needs more devices than
the list holds, and a second call for memory that is used again. Its clock needs no bound: `DurationBound`
says how far it goes. Deadlock is checked in `MCDownloadOne`,
which can always begin a call; the other models stop at their bounds or with their result.

**Fairness.** `FairSpec` of `Download` is `WF_vars(Step)`: a running call continues, because every
read has a timeout (`transport.rs:82`) and file operations return. `FairSpec` of `Client` is
`WF_vars(CommandReads)` and `WF_vars(ListenerReads)`: a read of either thread returns, with bytes or
with its timeout or the end of the connection. Camera, network and caller need not do anything. What they
can do is bounded by `MaxCommands` and `MaxEvents`, and `CommandReturns` rests on that: in the code each packet
of another transaction starts a new timeout (`commands.rs:643`), so that a camera that sends such packets
without end would keep a command waiting. `FairSpec` of `Send` is `WF_vars(Sending)`: a write
returns, with bytes accepted or with the write timeout (`transport.rs:83`). `FairSpec` of `Discovery`
is `WF_vars(Search)` and `SF_vars(SlowRound)`: the thread runs, and endless rounds of the receive loop take
time without end, each as little as you like. So it is the look at the clock in every round
(`discovery.rs:82`) that ends a flood of datagrams or errors, in the model as in the code; if the clock is
started anew in the loop (`ListenWithNewClock`), TLC finds a search without end. `CFairSpec` adds that the C call returns when its search has ended (`WF_allvars(Return)`). The
walk of `Parsers` is a loop without waiting (`WF_vars(Next)`). `CallReturns` needs a positive `chunk_size`; with 0 the chunk loop of
the code never ends.

## 4. Proofs

`Download_proofs` takes the assumptions of `Download`: sizes, chunk sizes, interval and retries are
numbers, and the markers `NoFile` and `Unparsable` are none of the values they stand beside.

* `BaseInv` is the inductive invariant for any set of objects. It is `TypeOK`, `OffsetTracksTemp` and
  what they need to be inductive: no offset before `check_resume_state` gave one, a chunk not written
  past its end, and in which order files and records are deleted. From it follow `TypeCorrect`,
  `OffsetIsTracked` and `TrustedBytesAreKept` (an action property).
* `OneInv` adds, under `OneObject` (one object per path: the property is false otherwise, section
  5), the three file properties and which files exist together: a published file has no temporary one
  beside it unless the code is about to delete it, the offset is the full size only when the temporary
  file is complete or published, and so on. From it follow `TempStaysPrefix`,
  `RecordIsNeverAhead`, `PublishedIsWhole`, `DownloadIsAtomic` (the refinement: every step is a step of
  `AtomicDownload` or stutters) and `PublishedStays`.
* `ReportInv` says that the callback was called at or behind the checkpoint it reported last, and that the
  offset is less than an interval ahead of that call. Two neighbouring checkpoints are at most an interval
  and a rounding apart (`CheckpointsAreClose`), so that a chunk behind which no checkpoint is due leaves the
  callback in time (`SilentIsShort`). The checkpoints are integers; those of the code, computed in `f32`, are a
  byte or two off below 16 MiB and more above. `ProgressIsTimely` needs an interval of at least 5%, and no
  `OneObject`: below 5% the twenty checkpoints end before the object does, and the property is false
  (section 5).
* The lemmas `SliceIsContents` and `SlicesConcatenate` say what a write does to a sequence of bytes,
  `LeastIsLeast` that the checkpoint reported is a number, `ChunkLenBounds` that a chunk is not longer
  than what remains.

`ChunkedDownload_proofs` proves `ChunksAreSlices`, that `ChunkedDownload` implements `Download` for any objects,
configuration, answers and number of commands. `CallInv` is inductive together with `BaseInv`: a command
that runs asks for what the call needs next (the size, or the chunk at the offset of the file,
`Awaited`), and while a chunk is written the data at hand are, by the promise and the check of their
length, the bytes of that request (`Held`). So what a write takes from them is the slice of the object
(`HeldIsSlice`). Every theorem about `Download` thereby holds of the download by commands;
`FetchedIsWhole` says so of the published file. Together with `ClientKeepsPromise` the argument reaches from the
packets on the stream to the file: on a stream that is read in step, late and short blocks, retries, kills
and leftovers of the same object never put a wrong byte under the target's name.

`Discovery_proofs`, for any configuration and any datagrams: `DurationIsBounded` and
`OnlyFirstAttemptFinds` (a defect, section 5) follow from `ClockInv`, which relates the clock, the attempt and
the wait of the current `recv_from`, however often datagrams and errors come (`RoundKeepsClock`); `ListStaysProper` from `ListInv`, since the loop does not
receive with a full list; `TypeCorrect` from `SendInv`, which counts the requests. Of the heap of the C interface `HeapInv` says
that it is empty except between the return of a successful call and the free, when the variables of the
caller describe all of it. `OutputIsHeap`, `HeapIsGivenBack` and `FreesWhatIsThere` follow, for any number
of calls.

`Client_proofs` and `ClientStream_proofs` hold for any chunk lengths, any number of commands and events and
both kinds of timeouts.

* `ReadersInv` says who reads when: the command thread exactly while a command runs, which other than
  `connect` needs an open session. `ListenerIsKept` is part of it; it excepts the end of the connection and a
  read out of step, which end the listener.
* `FlowInv` follows the blocks of a chunk. The transactions on the stream are not larger than the last
  one and smaller than those of the commands that are not answered (`FlowTids`), so that a new command
  finds no packet of its own; the blocks of the running chunk are in its order behind what was collected
  (`WireInOrder`, `OutboxInOrder`), whichever of them the listener takes away; hence what was collected
  is in order, perhaps with gaps (`TotalInOrder`), and as many bytes as were asked for leave no room for
  a gap (`FullTotalIsExact`). From it follow `FullChunksAreExact` and, with `ReadersInv`, the refinement
  `ClientKeepsPromise`.
* `ReadSoFar` and `OwnKept` say that ignored packets were sent and that a command which runs has not
  ignored its own response: `OwnResponsesAreTaken`.
* `InPacket` (a reader knows a packet exactly while it is in one, and there is no listener before a
  session) and `Limits` complete `TypeCorrect`.

`ClientPlace_proofs` proves `PlaceIsKept`. `InPlace` alone does not say enough for a next step: the camera
may append a packet to a stream that ends inside one, or a command thread may be inside a packet of which
nothing is unread. `PlaceInv` excludes both: what is unread, on the wire or not arrived yet, may begin
inside a packet but ends with a whole one, each part followed by the next of its packet (`Linked`); a
reader inside a packet finds the part it waits for at the front of what is unread; and no two readers are
inside a packet. Each step then appends whole packets at the end, takes the first part, moves parts
from `outbox` to `wire` (which changes nothing unread), begins a new stream, or only lets readers wait or go
back (`ReadsPlace`). The parts of a sequence of packets (`PartsOf`) are defined by recursion; what the
proof needs of them is shown by induction stated with sets of numbers and sequences
(`NumbersByInduction`, `SequencesByInduction`, from well-foundedness), because an induction theorem over
operators cannot be used here.

`Send_proofs`, for any parameters, retries and number of commands: `WordsInv` says that the words of the
current packet up to the position of the attempt are the end of the stream, `LastInv` that only an
attempt that ends with `Ok` writes the last word of its packet; together they give `SendsAtMostOnce`.
`StartsInv` counts the first words of a packet against the retries (`AttemptsAreBounded`). `NoSessionIsCreated` says of `Session` what the run `MCSession`
finds: `NotOpened` (nothing is sent and there is no handle) is inductive, since six bytes are never a whole
number of words, so that the call returns `NULL` for every number of retries and whatever address, network
and camera do.

`Parsers_proofs`, for all kinds of responses and any lists, texts, codes and numbers. `ParsersAssumption` asks
that each number fits into its field, offsets, lengths and the count of the list included: what does not fit
cannot be sent.

* The numbers and payloads of the model are recursive functions. That each has a solution is shown
  once (`RecursionHasSolution`, by induction over sets of numbers), and used for what the bytes of a number
  are worth (`BytesAreReadBack`: a number is read as it was written, in any number of bytes), for where the
  parts of a payload lie (`PlaceStep`) and for the payload itself (`EncodedIs`: each part is found at its
  place).
* A part that is in a cut payload as a whole is therefore read as it was written: `CodeIsRead`,
  `NumberIsRead`, `EntryIsRead`, `TextIsRead`. `Proper` is what this needs of the layouts: the offsets and
  lengths of the strings are among the numbers, in front of the count of the list.
* `WalkInv` is the inductive invariant: the numbers, entries and strings read are those of the description;
  the cursor is at the place of the next one, which is inside the payload; what comes later has not been
  read; and an error has a reason (`Excused`: a cut, another code, an invalid text, or less than the minimum
  length). The properties alone are not inductive: they speak of the end, and a walk that had lost its place
  would satisfy them until then. With `WalkIsFollowed` follow `TypeCorrect`, `WholeIsParsed` and `CutFails`;
  the latter since the last string, even an empty one, ends where the payload does.

Only model-checked is liveness (`CallReturns`, `CommandReturns`, `ListenerEnds`, `SendReturns`,
`SearchEnds`, `DiscoverReturns`, `ParseReturns`), which is beyond the prover.

## 5. Where code and words differ

Each of these has a run that ends in a counterexample:

* `MCDownloadComplete`: "Target file exists and is complete" (`commands.rs:519`), yet the call
  fails: line 429 renames a temporary file that does not exist.
* `MCDownloadRecord`: "Save resume point" (`commands.rs:419`) may leave an empty record, after which
  every call for the path fails with `InvalidResumeData`.
* `MCDownloadStale`: "Complete download" (`commands.rs:423`): a call for one object records a part of it and
  is killed. A call for a longer object and the same path finds a record that matches the length of the
  temporary file, takes it for its own ("Resuming download from", line 550), fetches the rest of its object and
  publishes the bytes of both with `Ok`: neither file names its object.
* `MCClientSteals`: "Get command response" (`commands.rs:630`): the listener takes it away.
* `MCSession`: "TCP session lifecycle" (`src/README.md:20`): `OpenSession` has six bytes of parameters
  (`session.rs:203`), which `send_command` refuses, so that `ptpip_create_session` always returns `NULL`.

Further differences, visible in the models without a run of their own:

* "Send requests multiple times" and "Sent discovery request attempt {}, waiting for responses..."
  (`discovery.rs:67, 78`), and "shorten wait time for next retry" (line 129): only the first attempt ever waits
  for a response. All share the clock that starts before the first (`discovery.rs:64`), the first uses it up, and
  the others send, find it past the timeout and sleep. `OnlyFirstAttemptFinds` proves that none of them finds a
  camera, whatever the configuration; it is the one theorem of this project about what should not be so.
* A kill or an error between the first byte of a chunk and the end of its record leaves a file that does not
  match its record, and the next call deletes all of it, also what was recorded long before
  (`commands.rs:534-541`): `TrustedBytesKept` excepts it (`Interrupted`).
* A chunk that the camera refuses is not refused but times out, since only data blocks are looked at
  (`commands.rs:838`, against "Check response for errors", line 656).
* The payload of an event stays in the stream and is read as the next packet (`transport.rs:232`,
  against "Receive PTP/IP packet" in line 177). Unless its first bytes happen to be a packet type, that is an
  unknown one (`transport.rs:193`): a command fails, and the listener leaves its loop (`commands.rs:108`) after
  its first event.
  `KeepsPlace` excepts events, `ListenerStays` what is read out of step. A timeout in the middle of a packet has
  the same effect.
* A retry of a partly written packet breaks the framing of the stream (`transport.rs:97`).
* A read timeout is `WouldBlock` on Unix and ends the listener (`error.rs:63`, against
  `commands.rs:106`): `ListenerStays` needs `TimedOut`. Where it is `TimedOut`, the listener of a dropped
  client does not end while the connection lasts, since it looks for the lost channel only with an event.
* Events never reach the channel: they have no payload after `recv_packet`, and `parse_event_packet`
  wants six bytes (`GotEvent`).
* The minimum lengths of the parsers are not what the parsers need: 24 bytes for 42, 40 for 54, 10 for
  12, and 64 for an object that takes 60. Cut payloads fail all the same, some with `Io`.
* A test places the response code at byte 4 (`commands.rs:1092`), `check_response_error` reads it at
  byte 2 (`commands.rs:665`).
* A camera name with a NUL inside reaches C as a null pointer (`utils.rs:153`).
* `min_chunk_size` is no minimum (`commands.rs:28`): the final chunk has what remains.
* With an interval below 5% the callback falls silent before the end; a resumed call reports after
  each chunk until it used up the checkpoints passed before (`commands.rs:35`, "Trigger every 5%").

## 6. Not modelled

* What needs a session in `session.rs`: `connect` is the only way to one and always fails (section 5), so
  that heartbeat, activity clock, operations, `Drop` and the functions that take a handle have no state
  the program can be in.
* `parse_event_packet` beyond its minimum length, which it never gets over (`GotEvent`).
* A clash of two random transaction ids; `chunk_size` above 4 GiB, which `as u32` cuts; the rounding
  of `f32` in the checkpoints; a record that was cut in the middle of its
  digits (the model has only the empty one); the memory that `with_capacity` takes for a claimed count;
  the unlocked use of one client by several commands, which `&mut self` rules out; `DownloadStats` and
  logging.
* Checksum, hex output, timestamps and writers of `utils.rs`, which are pure and have no caller in the
  modelled parts; the build script, whose output no source includes.

## 7. Plan

1. `Send` under `Client`: what the camera answers after a partial write.
