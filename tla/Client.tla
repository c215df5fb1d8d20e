------------------------------- MODULE Client -------------------------------
(***************************************************************************)
(* The connection of a CameraClient (commands.rs, transport.rs): the       *)
(* command thread sends commands and reads packets until it finds its      *)
(* answer, the event listener thread reads packets from a clone of the     *)
(* SAME socket, and both read a packet in several read_exact calls.        *)
(*                                                                         *)
(* The byte stream is a sequence of parts: the two bytes of the type, the  *)
(* six of the rest of the header, the four of a length, and a body.  A     *)
(* read_exact for one part that meets another leaves its reader in the     *)
(* middle of a packet: it may find a packet type that it does not know,    *)
(* which is an error, or anything else.  `aligned' is FALSE from then on   *)
(* and the model follows the connection no further.                        *)
(*                                                                         *)
(* A command is "open" (OpenSession), "simple" (any operation that ends    *)
(* with get_response, CloseSession included) or "chunk" (GetPartialObject, *)
(* that ends with receive_data_block).  Transaction ids are random 32-bit  *)
(* numbers in the code and fresh ones here.                                *)
(*                                                                         *)
(* The camera is not part of the code: it answers commands in order, as    *)
(* the parsing code expects, with any delay or never.                      *)
(***************************************************************************)
EXTENDS Integers, Sequences

CONSTANTS
    ChunkLengths,   \* lengths of the chunks that are asked for
    TimeoutKinds,   \* what a read that times out may return: "WouldBlock"
                    \* (Unix) or "TimedOut" (Windows)
    MaxCommands,    \* bound on the commands sent
    MaxEvents,      \* bound on the events of the camera
    MayClose        \* bound: whether a connection may end

ASSUME ClientAssumption ==
    /\ ChunkLengths \subseteq Nat \ {0}
    /\ TimeoutKinds \subseteq {"WouldBlock", "TimedOut"}
    /\ MaxCommands \in Nat
    /\ MaxEvents \in Nat
    /\ MayClose \in BOOLEAN

VARIABLES
    timeoutKind,    \* what a read that times out returns on this platform
    session,    \* "off", "opening", "open" or "dropped"
    tid,        \* the last transaction id
    call,       \* the command that runs, NoCall if there is none
    total,      \* total_data of receive_data_block
    outcome,    \* how the last command ended
    at,         \* at[r]: the part reader r waits for, "off" if it does not
    cur,        \* cur[r]: the packet r is in
    skipped,    \* skipped[r]: this recv_packet_filtered ignored a packet
    commands,   \* commands the camera has not taken
    outbox,     \* packets the camera sent and that did not arrive in full
    arrived,    \* parts of the first of them that arrived
    wire,       \* parts that arrived and were not read
    closed,     \* nothing will arrive any more
    aligned,    \* every reader read what it thinks it read
    discarded,  \* history: <<reader, response>> ignored by a reader
    events      \* events sent so far

Readers == {"command", "listener"}
NoCall == [op |-> "none", tid |-> 0, len |-> 0]
NoPacket == [type |-> "none", tid |-> 0, body |-> <<>>]
NoOutcome == [call |-> NoCall, status |-> "none", data |-> <<>>]

command == <<session, tid, call, total, outcome>>
readers == <<at, cur, skipped>>
network == <<commands, outbox, arrived, wire, closed, events>>
vars == <<timeoutKind, command, readers, network, aligned, discarded>>

Data(t, body) == [type |-> "data", tid |-> t, body |-> body]
Response(t, code) == [type |-> "response", tid |-> t, body |-> <<code>>]
Event == [type |-> "event", tid |-> 0, body |-> <<"event">>]

(***************************************************************************)
(* The parts of a packet in the stream.                                    *)
(***************************************************************************)
Parts(p) ==
    LET part(name) == [name |-> name, pkt |-> p]
        body == IF p.body = <<>> THEN <<>> ELSE <<part("body")>>
    IN  <<part("type"), part("head")>>
        \o (IF p.type = "event" THEN <<>> ELSE <<part("len")>>) \o body

\* Faulty variant: the header of a response is taken to be all of it.
AfterNoResponseLength(p, part) ==
    CASE part = "type" -> "head"
      [] part = "head" -> IF p.type = "data" THEN "len" ELSE "done"
      [] part = "len"  -> IF p.body = <<>> THEN "done" ELSE "body"
      [] part = "body" -> "done"

(***************************************************************************)
(* What recv_packet reads after a part: an event is taken to have no       *)
(* payload, data blocks and responses carry a length.                      *)
(***************************************************************************)
After(p, part) ==
    CASE part = "type" -> "head"
      [] part = "head" -> IF p.type = "event" THEN "done" ELSE "len"
      [] part = "len"  -> IF p.body = <<>> THEN "done" ELSE "body"
      [] part = "body" -> "done"

Init ==
    /\ timeoutKind \in TimeoutKinds
    /\ session = "off" /\ tid = 0 /\ call = NoCall /\ total = <<>>
    /\ outcome = NoOutcome
    /\ at = [r \in Readers |-> "off"]
    /\ cur = [r \in Readers |-> NoPacket]
    /\ skipped = [r \in Readers |-> FALSE]
    /\ commands = <<>> /\ outbox = <<>> /\ arrived = 0 /\ wire = <<>> /\ closed = FALSE
    /\ events = 0
    /\ aligned = TRUE
    /\ discarded = {}

\* Faulty variant: the last packet is not forgotten.
RestartDirty(r, again) ==
    /\ at' = [at EXCEPT ![r] = "type"]
    /\ skipped' = [skipped EXCEPT ![r] = again]
    /\ UNCHANGED cur

(***************************************************************************)
(* Reader r starts a recv_packet: in a new recv_packet_filtered, or in the *)
(* same one after it ignored a packet.                                     *)
(***************************************************************************)
Restart(r, again) ==
    /\ at' = [at EXCEPT ![r] = "type"]
    /\ cur' = [cur EXCEPT ![r] = NoPacket]
    /\ skipped' = [skipped EXCEPT ![r] = again]

Stop(r) ==
    /\ at' = [at EXCEPT ![r] = "off"]
    /\ cur' = [cur EXCEPT ![r] = NoPacket]
    /\ skipped' = [skipped EXCEPT ![r] = FALSE]

-----------------------------------------------------------------------------
\* Faulty variant: the data of an earlier chunk is kept.
BeginKeepsData(op, len) ==
    /\ aligned /\ call = NoCall /\ tid < MaxCommands
    /\ tid' = tid + 1
    /\ call' = [op |-> op, tid |-> tid + 1, len |-> len]
    /\ outcome' = NoOutcome
    /\ Restart("command", FALSE)
    /\ UNCHANGED <<timeoutKind, total, events, aligned, discarded>>

(***************************************************************************)
(* Commands.  connect opens a new stream, every other operation uses the   *)
(* one there is.                                                           *)
(***************************************************************************)
Begin(op, len) ==
    /\ aligned /\ call = NoCall /\ tid < MaxCommands
    /\ tid' = tid + 1
    /\ call' = [op |-> op, tid |-> tid + 1, len |-> len]
    /\ total' = <<>>
    /\ outcome' = NoOutcome
    /\ Restart("command", FALSE)
    /\ UNCHANGED <<timeoutKind, events, aligned, discarded>>

Connect ==
    /\ session = "off"
    /\ session' = "opening"
    /\ Begin("open", 0)
    /\ commands' = <<call'>> /\ outbox' = <<>> /\ arrived' = 0 /\ wire' = <<>> /\ closed' = FALSE

Operation ==
    /\ session = "open"
    /\ Begin("simple", 0) \/ \E len \in ChunkLengths : Begin("chunk", len)
    /\ commands' = Append(commands, call')
    /\ UNCHANGED <<session, outbox, arrived, wire, closed>>

(***************************************************************************)
(* The client goes out of scope: its end of the stream is closed.  The     *)
(* listener has its clone, and looks for the lost channel only when it has *)
(* an event to send.                                                       *)
(***************************************************************************)
Drop ==
    /\ aligned /\ session = "open" /\ call = NoCall
    /\ session' = "dropped"
    /\ UNCHANGED <<timeoutKind, tid, call, total, outcome, readers, network, aligned, discarded>>

(***************************************************************************)
(* The command returns.  A connect that fails drops its stream; one that   *)
(* succeeds starts the listener.                                           *)
(***************************************************************************)
Return(status, data) ==
    /\ outcome' = [call |-> call, status |-> status, data |-> data]
    /\ call' = NoCall
    /\ UNCHANGED <<timeoutKind, tid, total>>

ReturnOk(data) ==
    /\ Return("ok", data)
    /\ session' = "open"
    /\ IF call.op = "open"
       THEN /\ at' = [command |-> "off", listener |-> "type"]
            /\ cur' = [cur EXCEPT !["command"] = NoPacket]
            /\ skipped' = [r \in Readers |-> FALSE]
       ELSE Stop("command")

ReturnError(status) ==
    /\ Return(status, <<>>)
    /\ session' = IF call.op = "open" THEN "off" ELSE session
    /\ Stop("command")

-----------------------------------------------------------------------------
(***************************************************************************)
(* recv_packet: one step for each read_exact.  The last one completes the  *)
(* packet and is one step with what its caller then does.                  *)
(***************************************************************************)
Front == Head(wire).pkt
Ready(r) == aligned /\ at[r] # "off" /\ wire # <<>>
InStep(r) == Ready(r) /\ Head(wire).name = at[r]
Consume == wire' = Tail(wire) /\ UNCHANGED <<commands, outbox, arrived, closed, events, aligned>>

ReadPart(r) ==
    /\ InStep(r) /\ After(Front, at[r]) # "done"
    /\ Consume
    /\ at' = [at EXCEPT ![r] = After(Front, at[r])]
    /\ cur' = [cur EXCEPT ![r] = Front]
    /\ UNCHANGED <<timeoutKind, command, skipped, discarded>>

(***************************************************************************)
(* A type that is none is a ProtocolError, which the command returns and   *)
(* which ends the listener.  What else may be read is left open.           *)
(***************************************************************************)
Misread(r) ==
    /\ Ready(r) /\ ~InStep(r)
    /\ aligned' = FALSE
    /\ \/ UNCHANGED <<timeoutKind, command, readers>>
       \/ r = "command" /\ ReturnError("ProtocolError")
       \/ r = "listener" /\ Stop(r) /\ UNCHANGED <<timeoutKind, command>>
    /\ UNCHANGED <<network, discarded>>

Received(r) == InStep(r) /\ After(Front, at[r]) = "done" /\ Consume

\* Only responses are remembered: nothing is said of the other packets that
\* are ignored, and remembering them would only multiply the states of a run.
Ignore(r, p) ==
    IF p.type = "response" THEN discarded' = discarded \cup {<<r, p>>}
                           ELSE UNCHANGED discarded

(***************************************************************************)
(* recv_packet_filtered ignores a packet of another type; get_response and *)
(* receive_data_block ignore one of another transaction.                   *)
(***************************************************************************)
\* Faulty variant: only OpenSession waits for a response.
WantedDataOnly(r) == IF r = "listener" THEN "event"
                     ELSE IF call.op = "open" THEN "response" ELSE "data"

Wanted(r) == IF r = "listener" THEN "event"
             ELSE IF call.op = "chunk" THEN "data" ELSE "response"

SkipType(r) ==
    /\ Received(r)
    /\ Front.type # Wanted(r)
    /\ Ignore(r, Front)
    /\ Restart(r, TRUE)
    /\ UNCHANGED <<timeoutKind, command>>

SkipTransaction ==
    /\ Received("command")
    /\ Front.type = Wanted("command") /\ Front.tid # call.tid
    /\ Ignore("command", Front)
    /\ Restart("command", FALSE)
    /\ UNCHANGED <<timeoutKind, command>>

\* Faulty variant: the transaction id is not compared.
MineAnyTransaction(type) ==
    /\ Received("command")
    /\ Wanted("command") = type /\ Front.type = type
    /\ UNCHANGED discarded

Mine(type) ==
    /\ Received("command")
    /\ Wanted("command") = type /\ Front.type = type /\ Front.tid = call.tid
    /\ UNCHANGED discarded

(***************************************************************************)
(* get_response: check_response_error decides.                             *)
(***************************************************************************)
GotResponse == Mine("response") /\ Front.body = <<"ok">> /\ ReturnOk(<<Front.tid>>)
GotRefusal == Mine("response") /\ Front.body # <<"ok">> /\ ReturnError("DeviceError")

(***************************************************************************)
(* receive_data_block: collect until an empty block.                       *)
(***************************************************************************)
GotData ==
    /\ Mine("data")
    /\ Front.body # <<>>
    /\ total' = total \o Front.body
    /\ Restart("command", FALSE)
    /\ UNCHANGED <<timeoutKind, session, tid, call, outcome>>

GotEnd == Mine("data") /\ Front.body = <<>> /\ ReturnOk(total)

(***************************************************************************)
(* The listener: recv_packet gave the event no payload, parse_event_packet *)
(* wants six bytes of it, and the error is dropped.                        *)
(***************************************************************************)
GotEvent ==
    /\ Received("listener")
    /\ Front.type = "event"
    /\ Ignore("listener", Front)
    /\ Restart("listener", FALSE)
    /\ UNCHANGED <<timeoutKind, command>>

-----------------------------------------------------------------------------
(***************************************************************************)
(* Reads that fail.  One finds nothing for config.timeout, or the end of   *)
(* the connection: TimedOut becomes Timeout, after which the listener      *)
(* listens on, WouldBlock and the end are Io errors, which end it.  Only a *)
(* response whose length does not come is returned, without a payload.     *)
(***************************************************************************)
Silent(r) == aligned /\ at[r] # "off" /\ wire = <<>>
LengthMissing(r) == at[r] = "len" /\ cur[r].type = "response"
Failure == IF closed \/ timeoutKind = "WouldBlock" THEN "Io" ELSE "Timeout"

\* Faulty variant: the command waits on, as the listener does.
CommandWaitsOn ==
    /\ Silent("command") /\ ~LengthMissing("command")
    /\ Restart("command", FALSE)
    /\ UNCHANGED <<timeoutKind, command, network, aligned, discarded>>

CommandTimesOut ==
    /\ Silent("command") /\ ~LengthMissing("command")
    /\ ReturnError(Failure)
    /\ UNCHANGED <<network, aligned, discarded>>

\* Faulty variant: every error ends the listener.
ListenerGivesUp ==
    /\ Silent("listener") /\ ~LengthMissing("listener")
    /\ Stop("listener")
    /\ UNCHANGED <<timeoutKind, command, network, aligned, discarded>>

\* Faulty variant: every failed read is a timeout.
ListenerStaysOn ==
    /\ Silent("listener") /\ ~LengthMissing("listener")
    /\ Restart("listener", FALSE)
    /\ UNCHANGED <<timeoutKind, command, network, aligned, discarded>>

ListenerTimesOut ==
    /\ Silent("listener") /\ ~LengthMissing("listener")
    /\ IF Failure = "Timeout" THEN Restart("listener", FALSE) ELSE Stop("listener")
    /\ UNCHANGED <<timeoutKind, command, network, aligned, discarded>>

LengthTimesOut(r) ==
    /\ Silent(r) /\ LengthMissing(r)
    /\ IF r = "command" /\ Wanted(r) = "response" /\ cur[r].tid = call.tid
       THEN ReturnError("ProtocolError")
       ELSE Restart(r, Wanted(r) # "response") /\ UNCHANGED <<timeoutKind, command>>
    /\ Ignore(r, cur[r])
    /\ UNCHANGED <<network, aligned>>

(***************************************************************************)
(* recv_packet_filtered looks at the clock before each recv_packet: a      *)
(* packet it ignored may have used up the time.                            *)
(***************************************************************************)
Expire(r) ==
    /\ aligned /\ at[r] = "type" /\ skipped[r]
    /\ IF r = "command" THEN ReturnError("Timeout")
       ELSE Restart("listener", FALSE) /\ UNCHANGED <<timeoutKind, command>>
    /\ UNCHANGED <<network, aligned, discarded>>

-----------------------------------------------------------------------------
(***************************************************************************)
(* The camera and the network.  The bytes of the answer to a command name  *)
(* it; a chunk is cut into blocks of any sizes and may end early.          *)
(***************************************************************************)
Bytes(c, from, to) == [i \in 1..(to - from) |-> <<c.tid, from + i>>]

Cuts(c) ==
    {cuts \in UNION {[1..n -> 1..c.len] : n \in 0..c.len} :
        \A i, j \in DOMAIN cuts : i < j => cuts[i] < cuts[j]}

Blocks(c, cuts) ==
    [i \in DOMAIN cuts |->
        Data(c.tid, Bytes(c, IF i = 1 THEN 0 ELSE cuts[i - 1], cuts[i]))]

Answers(c) ==
    IF c.op = "chunk"
    THEN {Blocks(c, cuts) \o end : cuts \in Cuts(c),
             end \in {<<Data(c.tid, <<>>), Response(c.tid, "ok")>>, <<Response(c.tid, "error")>>}}
    ELSE {<<Response(c.tid, "ok")>>, <<Response(c.tid, "error")>>}

Answer ==
    /\ aligned /\ ~closed /\ commands # <<>>
    /\ \E a \in Answers(Head(commands)) : outbox' = outbox \o a
    /\ commands' = Tail(commands)
    /\ UNCHANGED <<timeoutKind, command, readers, arrived, wire, closed, events, aligned, discarded>>

Signal ==
    /\ aligned /\ ~closed /\ session # "off" /\ events < MaxEvents
    /\ events' = events + 1
    /\ outbox' = Append(outbox, Event)
    /\ UNCHANGED <<timeoutKind, command, readers, commands, arrived, wire, closed, aligned, discarded>>

Arrive ==
    /\ aligned /\ ~closed /\ outbox # <<>>
    /\ LET parts == Parts(Head(outbox))
       IN  /\ wire' = Append(wire, parts[arrived + 1])
           /\ IF arrived + 1 < Len(parts)
              THEN arrived' = arrived + 1 /\ UNCHANGED outbox
              ELSE arrived' = 0 /\ outbox' = Tail(outbox)
    /\ UNCHANGED <<timeoutKind, command, readers, commands, closed, events, aligned, discarded>>

(***************************************************************************)
(* The camera or the network ends the connection.  What has not arrived is *)
(* lost, what has arrived can still be read.                               *)
(***************************************************************************)
Close ==
    /\ aligned /\ MayClose /\ session # "off" /\ ~closed
    /\ closed' = TRUE
    /\ UNCHANGED <<timeoutKind, command, readers, commands, outbox, arrived, wire, events, aligned,
                   discarded>>

-----------------------------------------------------------------------------
Read(r) == ReadPart(r) \/ Misread(r) \/ SkipType(r)

CommandReads ==
    \/ Read("command") \/ SkipTransaction
    \/ GotResponse \/ GotRefusal \/ GotData \/ GotEnd
    \/ CommandTimesOut \/ LengthTimesOut("command") \/ Expire("command")

ListenerReads ==
    \/ Read("listener") \/ GotEvent
    \/ ListenerTimesOut \/ LengthTimesOut("listener") \/ Expire("listener")

Camera == Answer \/ Signal \/ Arrive \/ Close

Next == Connect \/ Operation \/ Drop \/ CommandReads \/ ListenerReads \/ Camera

Spec == Init /\ [][Next]_vars

(***************************************************************************)
(* A read returns: with bytes that are there, or by the read timeout of    *)
(* configure_stream.  The camera, the network and the caller need not do   *)
(* anything; that they can do only so much, MaxCommands and MaxEvents, is  *)
(* what ends the loops that ignore packets.                                *)
(***************************************************************************)
FairSpec == Spec /\ WF_vars(CommandReads) /\ WF_vars(ListenerReads)

-----------------------------------------------------------------------------
(***************************************************************************)
(* Every variable has its type, and a reader that waits for the rest of a  *)
(* packet knows which.                                                     *)
(***************************************************************************)
TypeOK ==
    /\ timeoutKind \in TimeoutKinds
    /\ session \in {"off", "opening", "open", "dropped"}
    /\ tid \in 0..MaxCommands
    /\ call.op \in {"none", "open", "simple", "chunk"} /\ call.tid \in {0, tid}
    /\ total \in Seq((1..MaxCommands) \X Nat)
    /\ outcome.status \in {"none", "ok", "DeviceError", "ProtocolError", "Io", "Timeout"}
    /\ at \in [Readers -> {"off", "type", "head", "len", "body"}]
    /\ \A r \in Readers : cur[r] = NoPacket <=> at[r] \in {"off", "type"}
    /\ skipped \in [Readers -> BOOLEAN]
    /\ call # NoCall <=> at["command"] # "off"
    /\ \A i \in 1..Len(wire) : wire[i].name \in {"type", "head", "len", "body"}
    /\ closed \in BOOLEAN /\ aligned \in BOOLEAN
    /\ events \in 0..MaxEvents

(***************************************************************************)
(* receive_data_block: data of the length asked for are the bytes asked    *)
(* for, in order, although late blocks of earlier chunks arrive first and  *)
(* the listener may take blocks away.  It is what the length check of      *)
(* download_object_with_resume (commands.rs:390) relies on.                *)
(***************************************************************************)
FullChunkIsExact ==
    LET c == outcome.call
    IN  outcome.status = "ok" /\ c.op = "chunk" /\ Len(outcome.data) = c.len
            => outcome.data = Bytes(c, 0, c.len)

(***************************************************************************)
(* Every command returns, or the stream is lost.                           *)
(***************************************************************************)
CommandReturns == call # NoCall ~> call = NoCall \/ ~aligned

(***************************************************************************)
(* The command thread is where the stream is: the unread parts, arrived or *)
(* not, begin with the one it waits for, and each is followed by what      *)
(* recv_packet expects.                                                    *)
(***************************************************************************)
Following(part) ==
    LET next == After(part.pkt, part.name) IN IF next = "done" THEN "type" ELSE next

PartsOf(packets) ==
    LET f[i \in 0..Len(packets)] ==
            IF i = 0 THEN <<>> ELSE f[i - 1] \o Parts(packets[i])
    IN  f[Len(packets)]

Unread ==
    LET sent == PartsOf(outbox)
    IN  wire \o SubSeq(sent, arrived + 1, Len(sent))

InPlace ==
    /\ aligned
    /\ Unread # <<>> =>
           Unread[1].name = IF at["command"] = "off" THEN "type" ELSE at["command"]
    /\ \A i \in 1..(Len(Unread) - 1) : Unread[i + 1].name = Following(Unread[i])

TimeoutCutsPacket ==
    /\ wire = <<>> /\ at["command"] \in {"head", "len", "body"}
    /\ at'["command"] # at["command"]

(***************************************************************************)
(* recv_packet, "Receive PTP/IP packet" (transport.rs:177), starts at the  *)
(* first byte of a packet: once the listener has ended, a stream that is   *)
(* in place stays so through every answer, early end, late block, ignored  *)
(* packet and timeout, except a timeout in the middle of a packet.  An     *)
(* event loses the place (transport.rs:232).                               *)
(***************************************************************************)
KeepsPlace ==
    [][InPlace /\ at["listener"] = "off" /\ events' = events /\ ~TimeoutCutsPacket
          => InPlace']_vars

(***************************************************************************)
(* A command that fails for want of a response has not itself read that    *)
(* response and thrown it away, in any of the loops that ignore packets    *)
(* (transport.rs:164, commands.rs:643).                                    *)
(***************************************************************************)
OwnResponseIsTaken ==
    outcome.status \in {"Io", "Timeout"} /\ outcome.call.op # "chunk" =>
        \A d \in discarded :
            d[1] = "command" /\ d[2].type = "response" => d[2].tid # outcome.call.tid

(***************************************************************************)
(* commands.rs:630, "Get command response": a command does not fail for    *)
(* want of a response that was received and thrown away.                   *)
(***************************************************************************)
ResponseReachesCaller ==
    outcome.status \in {"Io", "Timeout"} /\ outcome.call.op # "chunk" =>
        \A d \in discarded : ~(d[2].type = "response" /\ d[2].tid = outcome.call.tid)

(***************************************************************************)
(* commands.rs:106, "Timeout is normal, keep listening": where a silence   *)
(* is TimedOut, neither silences nor late, ignored or cut packets end the  *)
(* listener of an open session.  What ends it is the end of the connection *)
(* and a read out of step, as after any event that has a payload           *)
(* (transport.rs:193, 232).  A WouldBlock is an Io error (error.rs:63) and *)
(* ends it at once.                                                        *)
(***************************************************************************)
ListenerStays ==
    session = "open" /\ timeoutKind = "TimedOut" /\ aligned /\ ~closed
        => at["listener"] # "off"

(***************************************************************************)
(* commands.rs:81-112: the listener of a dropped client ends, and with it  *)
(* the last handle of the connection.  Here it takes the WouldBlock or the *)
(* end of the connection that ends it at the first silence: the lost       *)
(* channel is noticed only with an event, which it never has (GotEvent).   *)
(***************************************************************************)
ListenerEnds ==
    session = "dropped" /\ (timeoutKind = "WouldBlock" \/ closed)
        ~> at["listener"] = "off" \/ ~aligned

-----------------------------------------------------------------------------
(***************************************************************************)
(* The connection implements the promise of CommandPromise: commands end   *)
(* one by one, each once, and success means the own answer.                *)
(***************************************************************************)
Promise == INSTANCE CommandPromise
KeepsPromise == Promise!Spec
=============================================================================
