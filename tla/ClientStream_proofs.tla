------------------------ MODULE ClientStream_proofs ------------------------
(***************************************************************************)
(* Proofs about Client that follow the packets from the camera through the *)
(* stream to the command thread: a chunk of the right length is exact, the *)
(* connection implements CommandPromise, and a response that is awaited is *)
(* not thrown away.  The stream is shared with the listener and may hold   *)
(* what is left of any number of earlier commands.                         *)
(***************************************************************************)
EXTENDS Client_proofs, SequenceTheorems

(***************************************************************************)
(* What travels: packets, their parts, and the commands they answer.       *)
(***************************************************************************)

DataPackets == [type : {"data"}, tid : Nat, body : Seq(Nat \X Nat)]
ResponsePackets == [type : {"response"}, tid : Nat, body : {<<"ok">>, <<"error">>}]
Packets == DataPackets \cup ResponsePackets \cup {Event}
StreamParts == [name : {"type", "head", "len", "body"}, pkt : Packets]
Calls == [op : {"open", "simple", "chunk"}, tid : Nat, len : Nat]

(***************************************************************************)
(* Some of the parts of packet p; at most the last one is its body.        *)
(***************************************************************************)
Pieces(p, s) ==
    /\ s \in Seq(StreamParts) /\ Len(s) \in Nat
    /\ \A k \in 1..Len(s) : s[k].pkt = p /\ (s[k].name = "body" => k = Len(s))

Bodiless(s) == \A k \in 1..Len(s) : s[k].name # "body"

(***************************************************************************)
(* Pieces of a packet follow one another, the body last.                   *)
(***************************************************************************)
LEMMA JoinsPieces ==
    ASSUME NEW p, NEW s, NEW t, Pieces(p, s), Bodiless(s), Pieces(p, t)
    PROVE  /\ Pieces(p, s \o t) /\ Len(s \o t) = Len(s) + Len(t)
           /\ Bodiless(t) => Bodiless(s \o t)
<1>1. s \in Seq(StreamParts) /\ t \in Seq(StreamParts) /\ Len(s) \in Nat /\ Len(t) \in Nat
  BY DEF Pieces
<1>2. /\ s \o t \in Seq(StreamParts) /\ Len(s \o t) = Len(s) + Len(t)
      /\ \A k \in 1..(Len(s) + Len(t)) :
            (s \o t)[k] = IF k <= Len(s) THEN s[k] ELSE t[k - Len(s)]
  BY <1>1, ConcatProperties
<1>3. ASSUME NEW k \in 1..(Len(s) + Len(t))
      PROVE  /\ (s \o t)[k].pkt = p
             /\ (s \o t)[k].name = "body" => k = Len(s) + Len(t)
             /\ Bodiless(t) => (s \o t)[k].name # "body"
  <2>1. CASE k <= Len(s)
    <3>1. k \in 1..Len(s) /\ (s \o t)[k] = s[k]
      BY <1>1, <1>2, <2>1
    <3> QED BY <3>1 DEF Pieces, Bodiless
  <2>2. CASE k > Len(s)
    <3> DEFINE j == k - Len(s)
    <3>1. j \in 1..Len(t) /\ (s \o t)[k] = t[j] /\ k = Len(s) + j
      BY <1>1, <1>2, <2>2
    <3> HIDE DEF j
    <3> QED BY <3>1 DEF Pieces, Bodiless
  <2> QED BY <1>1, <2>1, <2>2
<1>4. Len(s) + Len(t) \in Nat
  BY <1>1
<1> QED
  BY <1>2, <1>3, <1>4 DEF Pieces, Bodiless

(***************************************************************************)
(* Parts cuts a packet into a type, a header and at most one body.         *)
(***************************************************************************)
LEMMA PartsOfPacket ==
    ASSUME NEW p \in Packets
    PROVE  Pieces(p, Parts(p)) /\ Len(Parts(p)) >= 2
<1> DEFINE part(name) == [name |-> name, pkt |-> p]
           first == <<part("type"), part("head")>>
           length == IF p.type = "event" THEN <<>> ELSE <<part("len")>>
           body == IF p.body = <<>> THEN <<>> ELSE <<part("body")>>
<1>1. part("type") \in StreamParts /\ part("head") \in StreamParts
      /\ part("len") \in StreamParts /\ part("body") \in StreamParts
  BY DEF StreamParts
<1>2. Pieces(p, first) /\ Len(first) = 2 /\ Bodiless(first)
  BY <1>1 DEF Pieces, Bodiless
<1>3. Pieces(p, length) /\ Bodiless(length)
  BY <1>1 DEF Pieces, Bodiless
<1>4. Pieces(p, body)
  BY <1>1 DEF Pieces
<1>5. Parts(p) = first \o length \o body
  BY DEF Parts
<1> HIDE DEF first, length, body
<1>6. Pieces(p, first \o length) /\ Bodiless(first \o length)
      /\ Len(first \o length) = Len(first) + Len(length)
  BY <1>2, <1>3, JoinsPieces
<1>7. Pieces(p, first \o length \o body)
      /\ Len(first \o length \o body) = Len(first \o length) + Len(body)
  BY <1>4, <1>6, JoinsPieces
<1>8. Len(length) \in Nat /\ Len(body) \in Nat
  BY <1>3, <1>4 DEF Pieces
<1> QED
  BY <1>2, <1>5, <1>6, <1>7, <1>8

-----------------------------------------------------------------------------
(***************************************************************************)
(* The data of transaction c, and the first and last of its bytes that a   *)
(* block holds.                                                            *)
(***************************************************************************)
IsBlock(c, p) == p.type = "data" /\ p.tid = c.tid /\ p.body # <<>>

First(p) == p.body[1][2]
Last(p) == First(p) + Len(p.body) - 1

(***************************************************************************)
(* A block of chunk c holds bytes of c that follow one another.            *)
(***************************************************************************)
Consecutive(c, p) ==
    /\ Len(p.body) \in Nat \ {0}
    /\ First(p) \in Nat \ {0} /\ Last(p) <= c.len
    /\ \A k \in 1..Len(p.body) : p.body[k] = <<c.tid, First(p) + k - 1>>

(***************************************************************************)
(* A data packet of the bytes from one position to a later one.            *)
(***************************************************************************)
LEMMA BytesAreConsecutive ==
    ASSUME NEW c \in Calls, NEW from \in Nat, NEW to \in Nat, from < to, to <= c.len,
           NEW p, p = Data(c.tid, Bytes(c, from, to))
    PROVE  /\ p \in DataPackets /\ IsBlock(c, p) /\ Consecutive(c, p)
           /\ First(p) = from + 1 /\ Last(p) = to
<1> DEFINE b == Bytes(c, from, to)
<1>1. to - from \in Nat /\ to - from >= 1 /\ c.tid \in Nat
  BY DEF Calls
<1>2. b = [i \in 1..(to - from) |-> <<c.tid, from + i>>]
  BY DEF Bytes
<1>3. /\ b \in Seq(Nat \X Nat) /\ Len(b) = to - from
      /\ \A k \in 1..(to - from) : b[k] = <<c.tid, from + k>>
  BY <1>1, <1>2
<1> HIDE DEF b
<1>4. p.type = "data" /\ p.tid = c.tid /\ p.body = b /\ p \in DataPackets
  BY <1>1, <1>3 DEF b, Data, DataPackets
<1>5. b # <<>>
  BY <1>1, <1>3
<1>6. 1 \in 1..(to - from)
  BY <1>1
<1>7. First(p) = from + 1
  BY <1>3, <1>4, <1>6 DEF First
<1>8. Last(p) = to
  <2>1. Last(p) = from + 1 + (to - from) - 1
    BY <1>3, <1>4, <1>7 DEF Last
  <2> QED BY <1>1, <2>1
<1>9. \A k \in 1..Len(p.body) : p.body[k] = <<c.tid, First(p) + k - 1>>
  <2> TAKE k \in 1..Len(p.body)
  <2>1. k \in 1..(to - from) /\ p.body[k] = b[k]
    BY <1>3, <1>4
  <2>2. from + k = from + 1 + k - 1
    BY <1>1, <2>1
  <2> QED BY <1>3, <1>7, <2>1, <2>2
<1> QED
  BY <1>1, <1>3, <1>4, <1>5, <1>7, <1>8, <1>9 DEF IsBlock, Consecutive

(***************************************************************************)
(* Packets in the order of the chunk they are blocks of.                   *)
(***************************************************************************)
InOrder(c, a) ==
    /\ \A i \in 1..Len(a) : IsBlock(c, a[i]) => Consecutive(c, a[i])
    /\ \A i, j \in 1..Len(a) :
          i < j /\ IsBlock(c, a[i]) /\ IsBlock(c, a[j]) => Last(a[i]) < First(a[j])

(***************************************************************************)
(* The blocks into which the camera cuts a chunk come in its order.        *)
(***************************************************************************)
LEMMA BlocksInOrder ==
    ASSUME NEW c \in Calls, NEW cuts \in Cuts(c)
    PROVE  /\ Blocks(c, cuts) \in Seq(Packets)
           /\ \A i \in 1..Len(Blocks(c, cuts)) : Blocks(c, cuts)[i].tid = c.tid
           /\ InOrder(c, Blocks(c, cuts))
<1>1. c.len \in Nat
  BY DEF Calls
<1>2. PICK n \in 0..c.len : cuts \in [1..n -> 1..c.len]
  BY DEF Cuts
<1>3. \A i, j \in 1..n : i < j => cuts[i] < cuts[j]
  BY <1>2 DEF Cuts
<1> DEFINE b == Blocks(c, cuts)
           from(i) == IF i = 1 THEN 0 ELSE cuts[i - 1]
<1>4. ASSUME NEW i \in 1..n
      PROVE  /\ b[i] \in DataPackets /\ IsBlock(c, b[i]) /\ Consecutive(c, b[i])
             /\ First(b[i]) = from(i) + 1 /\ Last(b[i]) = cuts[i]
             /\ from(i) \in Nat /\ cuts[i] \in Nat
  <2>1. b[i] = Data(c.tid, Bytes(c, from(i), cuts[i]))
    BY <1>2 DEF Blocks
  <2>2. cuts[i] \in Nat /\ cuts[i] >= 1 /\ cuts[i] <= c.len
    BY <1>1, <1>2
  <2>3. from(i) \in Nat /\ from(i) < cuts[i]
    <3>1. CASE i = 1
      BY <2>2, <3>1
    <3>2. CASE i # 1
      <4>1. i - 1 \in 1..n /\ i - 1 < i
        BY <1>1, <1>2, <3>2
      <4>2. cuts[i - 1] \in Nat /\ cuts[i - 1] < cuts[i]
        BY <1>1, <1>2, <1>3, <4>1
      <4> QED BY <3>2, <4>2
    <3> QED BY <3>1, <3>2
  <2> HIDE DEF b, from
  <2> QED BY <2>1, <2>2, <2>3, BytesAreConsecutive
<1>5. b = [i \in 1..n |-> Data(c.tid, Bytes(c, from(i), cuts[i]))] /\ n \in Nat
  BY <1>1, <1>2 DEF Blocks
<1> HIDE DEF b
<1>6. b \in Seq(Packets) /\ Len(b) = n
  BY <1>4, <1>5 DEF Packets
<1>7. ASSUME NEW i \in 1..n, NEW j \in 1..n, i < j PROVE Last(b[i]) < First(b[j])
  <2>1. j # 1 /\ j - 1 \in 1..n /\ i <= j - 1
    BY <1>5, <1>7
  <2>2. from(j) = cuts[j - 1] /\ cuts[i] <= cuts[j - 1]
    BY <1>2, <1>3, <1>5, <2>1
  <2>3. Last(b[i]) = cuts[i] /\ First(b[j]) = from(j) + 1 /\ cuts[i] \in Nat /\ from(j) \in Nat
    BY <1>4
  <2> QED BY <2>2, <2>3
<1> HIDE DEF from
<1>8. InOrder(c, b)
  BY <1>4, <1>6, <1>7 DEF InOrder
<1>9. \A i \in 1..Len(b) : b[i].tid = c.tid
  BY <1>4, <1>6 DEF IsBlock
<1> QED
  BY <1>6, <1>8, <1>9 DEF b

(***************************************************************************)
(* So do the packets of any answer, and they carry the transaction of the  *)
(* command they answer.                                                    *)
(***************************************************************************)
LEMMA AnswersInOrder ==
    ASSUME NEW c \in Calls, NEW a \in Answers(c)
    PROVE  /\ a \in Seq(Packets)
           /\ \A i \in 1..Len(a) : a[i].tid = c.tid
           /\ InOrder(c, a)
<1>1. /\ Data(c.tid, <<>>) \in Packets /\ ~IsBlock(c, Data(c.tid, <<>>))
      /\ \A code \in {"ok", "error"} :
            Response(c.tid, code) \in Packets /\ ~IsBlock(c, Response(c.tid, code))
      /\ Data(c.tid, <<>>).tid = c.tid
      /\ \A code \in {"ok", "error"} : Response(c.tid, code).tid = c.tid
  BY DEF Data, Response, Packets, DataPackets, ResponsePackets, IsBlock, Calls
<1>2. CASE c.op # "chunk"
  <2>1. PICK code \in {"ok", "error"} : a = <<Response(c.tid, code)>>
    BY <1>2 DEF Answers
  <2>2. a \in Seq(Packets) /\ Len(a) = 1 /\ a[1] = Response(c.tid, code)
    BY <1>1, <2>1
  <2> QED BY <1>1, <2>2 DEF InOrder
<1>3. CASE c.op = "chunk"
  <2>1. PICK cuts \in Cuts(c),
             end \in {<<Data(c.tid, <<>>), Response(c.tid, "ok")>>, <<Response(c.tid, "error")>>} :
                a = Blocks(c, cuts) \o end
    BY <1>3 DEF Answers
  <2>2. /\ end \in Seq(Packets) /\ Len(end) \in Nat
        /\ \A i \in 1..Len(end) : ~IsBlock(c, end[i]) /\ end[i].tid = c.tid
    <3> DEFINE d == Data(c.tid, <<>>)
               ok == Response(c.tid, "ok")
               error == Response(c.tid, "error")
    <3>1. /\ d \in Packets /\ ok \in Packets /\ error \in Packets
          /\ ~IsBlock(c, d) /\ ~IsBlock(c, ok) /\ ~IsBlock(c, error)
          /\ d.tid = c.tid /\ ok.tid = c.tid /\ error.tid = c.tid
      BY <1>1
    <3>2. end = <<d, ok>> \/ end = <<error>>
      OBVIOUS
    <3> HIDE DEF d, ok, error
    <3>3. CASE end = <<d, ok>>
      <4>1. end \in Seq(Packets) /\ Len(end) = 2 /\ end[1] = d /\ end[2] = ok
        BY <3>1, <3>3
      <4> QED BY <3>1, <4>1
    <3>4. CASE end = <<error>>
      <4>1. end \in Seq(Packets) /\ Len(end) = 1 /\ end[1] = error
        BY <3>1, <3>4
      <4> QED BY <3>1, <4>1
    <3> QED BY <3>2, <3>3, <3>4
  <2> DEFINE b == Blocks(c, cuts)
  <2>3. b \in Seq(Packets) /\ Len(b) \in Nat /\ InOrder(c, b)
        /\ \A i \in 1..Len(b) : b[i].tid = c.tid
    BY BlocksInOrder, LenProperties
  <2> HIDE DEF b
  <2>4. /\ a \in Seq(Packets) /\ Len(a) = Len(b) + Len(end)
        /\ \A i \in 1..Len(a) : a[i] = IF i <= Len(b) THEN b[i] ELSE end[i - Len(b)]
    BY <2>1, <2>2, <2>3, ConcatProperties DEF b
  <2>5. ASSUME NEW i \in 1..Len(a)
        PROVE  a[i].tid = c.tid /\ (IsBlock(c, a[i]) => i \in 1..Len(b) /\ a[i] = b[i])
    <3>1. CASE i <= Len(b)
      BY <2>3, <2>4, <3>1
    <3>2. CASE ~(i <= Len(b))
      <4>1. i - Len(b) \in 1..Len(end) /\ a[i] = end[i - Len(b)]
        BY <2>2, <2>3, <2>4, <3>2
      <4> QED BY <2>2, <4>1
    <3> QED BY <3>1, <3>2
  <2> QED BY <2>3, <2>4, <2>5 DEF InOrder
<1> QED
  BY <1>2, <1>3

-----------------------------------------------------------------------------
(***************************************************************************)
(* The stream: commands that are not answered, packets that are not in     *)
(* full at the client, and the parts it has not read.                      *)
(***************************************************************************)
FlowTypes ==
    /\ tid \in Nat
    /\ call = NoCall \/ (call \in Calls /\ call.tid = tid)
    /\ total \in Seq(Nat \X Nat)
    /\ commands \in Seq(Calls) /\ outbox \in Seq(Packets) /\ wire \in Seq(StreamParts)
    /\ arrived \in Nat
    /\ IF outbox = <<>> THEN arrived = 0 ELSE arrived < Len(Parts(Head(outbox)))

\* The command goes on, or returns.
CallStep ==
    /\ UNCHANGED <<tid, total>>
    /\ UNCHANGED call \/ call' = NoCall

Takes == wire # <<>> /\ wire' = Tail(wire) /\ UNCHANGED <<commands, outbox, arrived>>

Begins ==
    /\ call = NoCall /\ call' \in Calls /\ call'.tid = tid + 1 /\ tid' = tid + 1 /\ total' = <<>>
    /\ \/ commands' = <<call'>> /\ outbox' = <<>> /\ arrived' = 0 /\ wire' = <<>>
       \/ commands' = Append(commands, call') /\ UNCHANGED <<outbox, arrived, wire>>

(***************************************************************************)
(* What the steps do to the command and the stream.                        *)
(***************************************************************************)
LEMMA StepKinds ==
    ASSUME tid \in Nat, [Next]_vars
    PROVE  \/ CallStep /\ UNCHANGED <<commands, outbox, arrived, wire>>
           \/ CallStep /\ Takes
           \/ GotData \/ Begins \/ Answer \/ Signal \/ Arrive
<1>1. ASSUME Connect \/ Operation PROVE Begins
  <2>1. PICK op \in {"open", "simple", "chunk"}, len \in Nat : Begin(op, len)
    BY <1>1, ClientAssumption DEF Connect, Operation
  <2>2. /\ call = NoCall /\ tid' = tid + 1 /\ total' = <<>>
        /\ call' = [op |-> op, tid |-> tid + 1, len |-> len]
    BY <2>1 DEF Begin
  <2>3. call' \in Calls /\ call'.tid = tid + 1
    BY <2>2 DEF Calls
  <2> QED BY <1>1, <2>2, <2>3 DEF Connect, Operation, Begins
<1>2. ASSUME NEW r \in Readers, Read(r)
      PROVE  CallStep /\ (UNCHANGED <<commands, outbox, arrived, wire>> \/ Takes)
  BY <1>2 DEF Read, ReadPart, Misread, SkipType, Received, InStep, Ready, Consume, ReturnError,
              Return, command, network, CallStep, Takes
<1>3. ASSUME SkipTransaction \/ GotEvent PROVE CallStep /\ Takes
  BY <1>3 DEF SkipTransaction, GotEvent, Received, InStep, Ready, Consume, command, CallStep, Takes
<1>4. ASSUME GotResponse \/ GotRefusal \/ GotEnd PROVE CallStep /\ Takes
  BY <1>4 DEF GotResponse, GotRefusal, GotEnd, Mine, Received, InStep, Ready, Consume,
              ReturnOk, ReturnError, Return, CallStep, Takes
<1>5. ASSUME CommandTimesOut \/ ListenerTimesOut \/ Drop \/ Close
      PROVE  CallStep /\ UNCHANGED <<commands, outbox, arrived, wire>>
  BY <1>5 DEF CommandTimesOut, ListenerTimesOut, Drop, Close, ReturnError, Return, command,
              network, CallStep
<1>6. ASSUME NEW r \in Readers, LengthTimesOut(r) \/ Expire(r)
      PROVE  CallStep /\ UNCHANGED <<commands, outbox, arrived, wire>>
  BY <1>6 DEF LengthTimesOut, Expire, ReturnError, Return, command, network, CallStep
<1>7. ASSUME UNCHANGED vars PROVE CallStep /\ UNCHANGED <<commands, outbox, arrived, wire>>
  BY <1>7 DEF vars, command, network, CallStep
<1> QED
  BY <1>1, <1>2, <1>3, <1>4, <1>5, <1>6, <1>7
     DEF Next, CommandReads, ListenerReads, Camera, Readers

(***************************************************************************)
(* A part arrives: not the body, or the last part of its packet.           *)
(***************************************************************************)
LEMMA ArriveMoves ==
    ASSUME FlowTypes, Arrive
    PROVE  /\ outbox # <<>> /\ UNCHANGED <<tid, call, total, commands>>
           /\ \E part \in StreamParts :
                 /\ part.pkt = Head(outbox) /\ wire' = Append(wire, part)
                 /\ \/ /\ part.name # "body" /\ UNCHANGED outbox
                       /\ arrived' \in Nat /\ arrived' < Len(Parts(Head(outbox)))
                    \/ outbox' = Tail(outbox) /\ arrived' = 0
<1> DEFINE p == Head(outbox)
           parts == Parts(p)
           part == parts[arrived + 1]
<1>1. /\ outbox # <<>> /\ UNCHANGED <<tid, call, total, commands>>
      /\ wire' = Append(wire, part)
      /\ IF arrived + 1 < Len(parts)
         THEN arrived' = arrived + 1 /\ UNCHANGED outbox
         ELSE arrived' = 0 /\ outbox' = Tail(outbox)
  BY DEF Arrive, command
<1>2. p \in Packets
  BY <1>1, HeadTailProperties DEF FlowTypes
<1>3. /\ parts \in Seq(StreamParts) /\ Len(parts) \in Nat
      /\ \A k \in 1..Len(parts) : parts[k].pkt = p /\ (parts[k].name = "body" => k = Len(parts))
  BY <1>2, PartsOfPacket DEF Pieces
<1>4. arrived \in Nat /\ arrived < Len(parts)
  BY <1>1 DEF FlowTypes
<1> HIDE DEF parts, p
<1>5. arrived + 1 \in 1..Len(parts) /\ arrived + 1 \in Nat
  BY <1>3, <1>4
<1>6. part \in StreamParts /\ part.pkt = p /\ (part.name = "body" => arrived + 1 = Len(parts))
  BY <1>3, <1>5, ElementOfSeq
<1>7. \/ part.name # "body" /\ UNCHANGED outbox /\ arrived' \in Nat /\ arrived' < Len(parts)
      \/ outbox' = Tail(outbox) /\ arrived' = 0
  BY <1>1, <1>3, <1>5, <1>6
<1> HIDE DEF part
<1> QED
  BY <1>1, <1>6, <1>7 DEF p, parts

(***************************************************************************)
(* The camera answers the first command, in order, behind what it has      *)
(* sent.                                                                   *)
(***************************************************************************)
LEMMA AnswerAppends ==
    ASSUME FlowTypes, Answer
    PROVE  /\ commands # <<>> /\ commands' = Tail(commands) /\ Head(commands) \in Calls
           /\ UNCHANGED <<tid, call, total, arrived, wire>>
           /\ \E a \in Seq(Packets) :
                 /\ outbox' = outbox \o a
                 /\ \A i \in 1..Len(a) : a[i].tid = Head(commands).tid
                 /\ InOrder(Head(commands), a)
<1>1. commands # <<>> /\ Head(commands) \in Calls
  BY HeadTailProperties DEF FlowTypes, Answer
<1>2. PICK a \in Answers(Head(commands)) : outbox' = outbox \o a
  BY DEF Answer
<1>3. /\ a \in Seq(Packets) /\ \A i \in 1..Len(a) : a[i].tid = Head(commands).tid
      /\ InOrder(Head(commands), a)
  BY <1>1, AnswersInOrder
<1> QED
  BY <1>1, <1>2, <1>3 DEF Answer, command

(***************************************************************************)
(* The command thread collects a block: the first body on the stream, of   *)
(* its own transaction.                                                    *)
(***************************************************************************)
LEMMA DataTaken ==
    ASSUME FlowTypes, GotData
    PROVE  /\ Takes /\ UNCHANGED <<tid, call>> /\ total' = total \o Front.body
           /\ wire[1].name = "body" /\ Front = wire[1].pkt /\ Front \in Packets
           /\ IsBlock(call, Front) /\ Front.body \in Seq(Nat \X Nat)
<1>1. /\ Takes /\ UNCHANGED <<tid, call>> /\ total' = total \o Front.body
      /\ Front.type = "data" /\ Front.tid = call.tid /\ Front.body # <<>>
      /\ Head(wire).name = at["command"] /\ After(Front, at["command"]) = "done"
  BY DEF GotData, Mine, Received, InStep, Ready, Consume, Takes
<1>2. Head(wire) = wire[1] /\ Head(wire) \in StreamParts
  BY <1>1, HeadTailProperties DEF Takes, FlowTypes
<1>3. wire[1].name = "body"
  <2>1. wire[1].name \in {"type", "head", "len", "body"}
    BY <1>2 DEF StreamParts
  <2> QED BY <1>1, <1>2, <2>1 DEF After
<1>4. Front = wire[1].pkt /\ Front \in Packets
  BY <1>2 DEF Front, StreamParts
<1>5. Front.body \in Seq(Nat \X Nat)
  BY <1>1, <1>4 DEF Packets, DataPackets, ResponsePackets, Event
<1> QED
  BY <1>1, <1>3, <1>4, <1>5 DEF IsBlock

(***************************************************************************)
(* The stream keeps its shape.                                             *)
(***************************************************************************)
LEMMA FlowTypesNext == FlowTypes /\ [Next]_vars => FlowTypes'
<1> SUFFICES ASSUME FlowTypes, [Next]_vars PROVE FlowTypes'
  OBVIOUS
<1>1. CASE CallStep /\ UNCHANGED <<commands, outbox, arrived, wire>>
  BY <1>1 DEF CallStep, FlowTypes
<1>2. CASE CallStep /\ Takes
  <2>1. wire' \in Seq(StreamParts)
    BY <1>2, HeadTailProperties DEF Takes, FlowTypes
  <2> QED BY <1>2, <2>1 DEF CallStep, Takes, FlowTypes
<1>3. CASE GotData
  <2>1. /\ Takes /\ UNCHANGED <<tid, call>>
        /\ Front.body \in Seq(Nat \X Nat) /\ total' = total \o Front.body
    BY <1>3, DataTaken
  <2>2. wire' \in Seq(StreamParts)
    BY <2>1, HeadTailProperties DEF FlowTypes, Takes
  <2>3. total' \in Seq(Nat \X Nat)
    BY <2>1, ConcatProperties DEF FlowTypes
  <2> QED BY <2>1, <2>2, <2>3 DEF FlowTypes, Takes
<1>4. CASE Begins
  <2>1. total' \in Seq(Nat \X Nat) /\ tid' \in Nat /\ call' \in Calls /\ call'.tid = tid'
    BY <1>4 DEF Begins, FlowTypes
  <2>2. CASE commands' = <<call'>> /\ outbox' = <<>> /\ arrived' = 0 /\ wire' = <<>>
    BY <2>1, <2>2 DEF FlowTypes
  <2>3. CASE commands' = Append(commands, call') /\ UNCHANGED <<outbox, arrived, wire>>
    <3>1. commands' \in Seq(Calls)
      BY <2>1, <2>3, AppendProperties DEF FlowTypes
    <3> QED BY <2>1, <2>3, <3>1 DEF FlowTypes
  <2> QED BY <1>4, <2>2, <2>3 DEF Begins
<1>5. CASE Answer
  <2>1. PICK a \in Seq(Packets) : outbox' = outbox \o a
    BY <1>5, AnswerAppends
  <2>2. /\ commands' = Tail(commands) /\ commands # <<>>
        /\ UNCHANGED <<tid, call, total, arrived, wire>>
    BY <1>5, AnswerAppends
  <2>3. outbox' \in Seq(Packets) /\ commands' \in Seq(Calls)
    BY <2>1, <2>2, ConcatProperties, HeadTailProperties DEF FlowTypes
  <2>4. IF outbox' = <<>> THEN arrived = 0 ELSE arrived < Len(Parts(Head(outbox')))
    <3>1. CASE outbox # <<>>
      <4>1. outbox' # <<>> /\ Head(outbox') = Head(outbox)
        BY <2>1, <2>3, <3>1 DEF FlowTypes
      <4> QED BY <3>1, <4>1 DEF FlowTypes
    <3>2. CASE outbox = <<>>
      <4>1. arrived = 0
        BY <3>2 DEF FlowTypes
      <4>2. outbox' # <<>> => Len(Parts(Head(outbox'))) \in Nat /\ Len(Parts(Head(outbox'))) >= 2
        BY <2>3, HeadTailProperties, PartsOfPacket DEF Pieces
      <4> QED BY <4>1, <4>2
    <3> QED BY <3>1, <3>2
  <2> QED BY <2>2, <2>3, <2>4 DEF FlowTypes
<1>6. CASE Signal
  <2>1. outbox' = Append(outbox, Event) /\ UNCHANGED <<tid, call, total, commands, arrived, wire>>
    BY <1>6 DEF Signal, command
  <2>2. outbox' \in Seq(Packets) /\ outbox' # <<>>
    BY <2>1, AppendProperties DEF FlowTypes, Packets
  <2>3. arrived < Len(Parts(Head(outbox')))
    <3>1. CASE outbox # <<>>
      <4>1. Head(outbox') = Head(outbox)
        BY <2>1, <3>1, HeadTailAppend DEF FlowTypes
      <4> QED BY <3>1, <4>1 DEF FlowTypes
    <3>2. CASE outbox = <<>>
      <4>1. arrived = 0
        BY <3>2 DEF FlowTypes
      <4>2. Len(Parts(Head(outbox'))) \in Nat /\ Len(Parts(Head(outbox'))) >= 2
        BY <2>2, HeadTailProperties, PartsOfPacket DEF Pieces
      <4> QED BY <4>1, <4>2
    <3> QED BY <3>1, <3>2
  <2> QED BY <2>1, <2>2, <2>3 DEF FlowTypes
<1>7. CASE Arrive
  <2>1. outbox # <<>> /\ UNCHANGED <<tid, call, total, commands>>
    BY <1>7, ArriveMoves
  <2>2. PICK part \in StreamParts :
           /\ part.pkt = Head(outbox) /\ wire' = Append(wire, part)
           /\ \/ /\ part.name # "body" /\ UNCHANGED outbox
                 /\ arrived' \in Nat /\ arrived' < Len(Parts(Head(outbox)))
              \/ outbox' = Tail(outbox) /\ arrived' = 0
    BY <1>7, ArriveMoves
  <2>3. wire' \in Seq(StreamParts)
    BY <2>2, AppendProperties DEF FlowTypes
  <2>4. CASE UNCHANGED outbox /\ arrived' \in Nat /\ arrived' < Len(Parts(Head(outbox)))
    BY <2>1, <2>3, <2>4 DEF FlowTypes
  <2>5. CASE outbox' = Tail(outbox) /\ arrived' = 0
    <3>1. outbox' \in Seq(Packets)
      BY <2>1, <2>5, HeadTailProperties DEF FlowTypes
    <3>2. outbox' # <<>> => Len(Parts(Head(outbox'))) \in Nat /\ Len(Parts(Head(outbox'))) >= 2
      BY <3>1, HeadTailProperties, PartsOfPacket DEF Pieces
    <3>3. IF outbox' = <<>> THEN arrived' = 0 ELSE arrived' < Len(Parts(Head(outbox')))
      BY <2>5, <3>2
    <3> QED BY <2>1, <2>3, <2>5, <3>1, <3>3 DEF FlowTypes
  <2> QED BY <2>2, <2>4, <2>5
<1> QED
  BY <1>1, <1>2, <1>3, <1>4, <1>5, <1>6, <1>7, StepKinds DEF FlowTypes

-----------------------------------------------------------------------------
(***************************************************************************)
(* The transactions with a packet in the stream.  Commands are sent and    *)
(* answered in the order of their transactions.                            *)
(***************************************************************************)
Tids == {outbox[i].tid : i \in 1..Len(outbox)} \cup {wire[i].pkt.tid : i \in 1..Len(wire)}

FlowTids ==
    /\ Tids \subseteq 0..tid
    /\ \A i \in 1..Len(commands) :
          /\ commands[i].tid \in 1..tid
          /\ \A t \in Tids : t < commands[i].tid
          /\ \A j \in 1..Len(commands) : i < j => commands[i].tid < commands[j].tid
          /\ call # NoCall /\ commands[i].tid = call.tid => commands[i] = call /\ total = <<>>

(***************************************************************************)
(* No transaction comes to the stream but by an answer.                    *)
(***************************************************************************)
LEMMA TidsNext ==
    ASSUME FlowTypes, [Next]_vars
    PROVE  Tids' \subseteq Tids \cup (IF Signal THEN {0} ELSE {})
                                \cup (IF Answer THEN {Head(commands).tid} ELSE {})
<1>1. CASE CallStep /\ UNCHANGED <<commands, outbox, arrived, wire>>
  BY <1>1 DEF Tids
<1>2. CASE Takes
  <2>1. /\ wire \in Seq(StreamParts) /\ UNCHANGED outbox
        /\ Len(wire') = Len(wire) - 1 /\ Len(wire) \in Nat
        /\ \A i \in 1..Len(wire') : wire'[i] = wire[i + 1]
    BY <1>2, HeadTailProperties, LenProperties DEF Takes, FlowTypes
  <2>2. \A i \in 1..Len(wire') : i + 1 \in 1..Len(wire)
    BY <2>1
  <2> QED BY <2>1, <2>2 DEF Tids
<1>3. CASE Begins
  <2>1. CASE outbox' = <<>> /\ wire' = <<>>
    BY <2>1 DEF Tids
  <2> QED BY <1>3, <2>1 DEF Begins, Tids
<1>4. CASE Answer
  <2>1. PICK a \in Seq(Packets) :
           /\ outbox' = outbox \o a
           /\ \A i \in 1..Len(a) : a[i].tid = Head(commands).tid
    BY <1>4, AnswerAppends
  <2>2. /\ UNCHANGED wire /\ Len(outbox) \in Nat /\ Len(a) \in Nat
        /\ Len(outbox') = Len(outbox) + Len(a)
        /\ \A i \in 1..Len(outbox') :
              outbox'[i] = IF i <= Len(outbox) THEN outbox[i] ELSE a[i - Len(outbox)]
    BY <1>4, <2>1, AnswerAppends, ConcatProperties, LenProperties DEF FlowTypes
  <2>3. ASSUME NEW i \in 1..Len(outbox')
        PROVE  outbox'[i].tid \in Tids \cup {Head(commands).tid}
    <3>1. CASE i <= Len(outbox)
      <4>1. i \in 1..Len(outbox)
        BY <2>2, <3>1
      <4> QED BY <2>2, <3>1, <4>1 DEF Tids
    <3>2. CASE ~(i <= Len(outbox))
      <4>1. i - Len(outbox) \in 1..Len(a)
        BY <2>2, <3>2
      <4> QED BY <2>1, <2>2, <3>2, <4>1
    <3> QED BY <3>1, <3>2
  <2>4. \A i \in 1..Len(wire') : wire'[i].pkt.tid \in Tids
    BY <2>2 DEF Tids
  <2> QED BY <1>4, <2>3, <2>4 DEF Tids
<1>5. CASE Signal
  <2>1. /\ outbox' = Append(outbox, Event) /\ UNCHANGED wire
        /\ Len(outbox) \in Nat /\ Len(outbox') = Len(outbox) + 1
        /\ \A i \in 1..Len(outbox) : outbox'[i] = outbox[i]
        /\ outbox'[Len(outbox) + 1] = Event
    <3>1. outbox \in Seq(Packets) /\ Event \in Packets
      BY DEF FlowTypes, Packets
    <3> QED BY <1>5, <3>1, AppendProperties, LenProperties DEF Signal
  <2>2. ASSUME NEW i \in 1..Len(outbox') PROVE outbox'[i].tid \in Tids \cup {0}
    <3>1. CASE i <= Len(outbox)
      <4>1. i \in 1..Len(outbox)
        BY <2>1, <3>1
      <4> QED BY <2>1, <4>1 DEF Tids
    <3>2. CASE ~(i <= Len(outbox))
      <4>1. i = Len(outbox) + 1
        BY <2>1, <3>2
      <4> QED BY <2>1, <4>1 DEF Event
    <3> QED BY <3>1, <3>2
  <2>3. \A i \in 1..Len(wire') : wire'[i].pkt.tid \in Tids
    BY <2>1 DEF Tids
  <2> QED BY <1>5, <2>2, <2>3 DEF Tids
<1>6. CASE Arrive
  <2>1. PICK part \in StreamParts :
           /\ part.pkt = Head(outbox) /\ wire' = Append(wire, part)
           /\ UNCHANGED outbox \/ outbox' = Tail(outbox)
    BY <1>6, ArriveMoves
  <2>2. outbox # <<>> /\ outbox \in Seq(Packets) /\ wire \in Seq(StreamParts)
    BY <1>6, ArriveMoves DEF FlowTypes
  <2>3. ASSUME NEW i \in 1..Len(outbox') PROVE outbox'[i].tid \in Tids
    <3>1. CASE UNCHANGED outbox
      BY <3>1 DEF Tids
    <3>2. CASE outbox' = Tail(outbox)
      <4>1. i + 1 \in 1..Len(outbox) /\ outbox'[i] = outbox[i + 1]
        BY <2>2, <3>2, HeadTailProperties, LenProperties
      <4> QED BY <4>1 DEF Tids
    <3> QED BY <2>1, <3>1, <3>2
  <2>4. part.pkt.tid \in Tids
    <3>1. 1 \in 1..Len(outbox) /\ Head(outbox) = outbox[1]
      BY <2>2, EmptySeq
    <3> QED BY <2>1, <3>1 DEF Tids
  <2>5. ASSUME NEW i \in 1..Len(wire') PROVE wire'[i].pkt.tid \in Tids
    <3>1. /\ Len(wire) \in Nat /\ Len(wire') = Len(wire) + 1
          /\ \A k \in 1..Len(wire) : wire'[k] = wire[k]
          /\ wire'[Len(wire) + 1] = part
      BY <2>1, <2>2, AppendProperties, LenProperties
    <3>2. CASE i <= Len(wire)
      <4>1. i \in 1..Len(wire)
        BY <3>1, <3>2
      <4> QED BY <3>1, <4>1 DEF Tids
    <3>3. CASE ~(i <= Len(wire))
      <4>1. i = Len(wire) + 1
        BY <3>1, <3>3
      <4> QED BY <2>4, <3>1, <4>1
    <3> QED BY <3>2, <3>3
  <2> QED BY <2>3, <2>5 DEF Tids
<1> QED
  BY <1>1, <1>2, <1>3, <1>4, <1>5, <1>6, StepKinds, DataTaken DEF FlowTypes

LEMMA FlowTidsNext == FlowTypes /\ FlowTids /\ [Next]_vars => FlowTids'
<1> SUFFICES ASSUME FlowTypes, FlowTids, [Next]_vars PROVE FlowTids'
  OBVIOUS
<1>1. tid \in Nat /\ commands \in Seq(Calls) /\ Len(commands) \in Nat
  BY LenProperties DEF FlowTypes
<1>2. CASE Tids' \subseteq Tids /\ UNCHANGED <<tid, commands>> /\ (UNCHANGED call \/ call' = NoCall)
           /\ (UNCHANGED total \/ GotData)
  <2>1. ASSUME GotData, NEW i \in 1..Len(commands) PROVE commands[i].tid # call.tid
    <3>1. wire \in Seq(StreamParts) /\ wire # <<>> /\ wire[1].pkt.tid = call.tid
      BY <2>1, DataTaken DEF FlowTypes, IsBlock, Takes
    <3>2. call.tid \in Tids
      BY <3>1, EmptySeq DEF Tids
    <3>3. call.tid < commands[i].tid
      BY <3>2 DEF FlowTids
    <3>4. call.tid \in 0..tid
      BY <3>2 DEF FlowTids
    <3> QED BY <1>1, <3>3, <3>4
  <2> QED BY <1>2, <2>1 DEF FlowTids
<1>3. CASE Begins
  <2>1. Tids' \subseteq 0..tid
    <3>1. ~Answer /\ ~Signal => Tids' \subseteq Tids
      BY TidsNext
    <3>2. CASE Answer \/ Signal
      BY <1>1, <1>3, <3>2 DEF Begins, Answer, Signal, command
    <3> QED BY <3>1, <3>2 DEF FlowTids
  <2>2. tid' = tid + 1 /\ call' \in Calls /\ call'.tid = tid + 1 /\ total' = <<>>
    BY <1>3 DEF Begins
  <2>3. CASE commands' = <<call'>>
    <3>1. Len(commands') = 1 /\ commands'[1] = call'
      BY <2>3
    <3> QED BY <1>1, <2>1, <2>2, <3>1 DEF FlowTids
  <2>4. CASE commands' = Append(commands, call')
    <3>1. /\ Len(commands') = Len(commands) + 1
          /\ \A i \in 1..Len(commands) : commands'[i] = commands[i]
          /\ commands'[Len(commands) + 1] = call'
      BY <1>1, <2>2, <2>4, AppendProperties
    <3>2. Tids' \subseteq Tids
      <4>1. UNCHANGED <<outbox, wire>> \/ (outbox' = <<>> /\ wire' = <<>>)
        BY <1>3 DEF Begins
      <4>2. CASE outbox' = <<>> /\ wire' = <<>>
        BY <4>2 DEF Tids
      <4> QED BY <4>1, <4>2 DEF Tids
    <3>3. ASSUME NEW i \in 1..Len(commands')
          PROVE  \/ i = Len(commands) + 1 /\ commands'[i].tid = tid + 1 /\ commands'[i] = call'
                 \/ i \in 1..Len(commands) /\ commands'[i] = commands[i] /\ commands[i].tid \in 1..tid
      BY <1>1, <2>2, <3>1 DEF FlowTids
    <3>4. \A i, j \in 1..Len(commands') : i < j => commands'[i].tid < commands'[j].tid
      BY <1>1, <3>1, <3>3 DEF FlowTids
    <3>5. \A i \in 1..Len(commands') : \A t \in Tids' : t < commands'[i].tid
      BY <1>1, <2>1, <3>2, <3>3 DEF FlowTids
    <3>6. \A i \in 1..Len(commands') : commands'[i].tid \in 1..tid'
      BY <1>1, <2>2, <3>3
    <3>7. \A i \in 1..Len(commands') : commands'[i].tid = call'.tid => commands'[i] = call'
      BY <1>1, <2>2, <3>3
    <3> QED BY <1>1, <2>1, <2>2, <3>4, <3>5, <3>6, <3>7 DEF FlowTids
  <2> QED BY <1>3, <2>3, <2>4 DEF Begins
<1>4. CASE Answer
  <2>1. /\ commands # <<>> /\ commands' = Tail(commands) /\ UNCHANGED <<tid, call, total>>
    BY <1>4, AnswerAppends
  <2>2. /\ Len(commands') = Len(commands) - 1 /\ Len(commands) >= 1
        /\ \A i \in 1..Len(commands') : commands'[i] = commands[i + 1]
        /\ Head(commands) = commands[1]
    BY <1>1, <2>1, HeadTailProperties, EmptySeq
  <2>3. 1 \in 1..Len(commands) /\ \A i \in 1..Len(commands') : i + 1 \in 1..Len(commands) /\ 1 < i + 1
    BY <1>1, <2>2
  <2>4. ~Signal
    <3>1. Len(commands') # Len(commands)
      BY <1>1, <2>2
    <3> QED BY <3>1 DEF Signal
  <2>5. Tids' \subseteq Tids \cup {commands[1].tid}
    BY <2>2, <2>4, TidsNext
  <2>6. Tids' \subseteq 0..tid
    BY <1>1, <2>3, <2>5 DEF FlowTids
  <2>7. ASSUME NEW i \in 1..Len(commands')
        PROVE  /\ commands'[i].tid \in 1..tid
               /\ \A t \in Tids' : t < commands'[i].tid
               /\ \A j \in 1..Len(commands') : i < j => commands'[i].tid < commands'[j].tid
               /\ call # NoCall /\ commands'[i].tid = call.tid => commands'[i] = call /\ total = <<>>
    <3>1. /\ commands'[i] = commands[i + 1] /\ i + 1 \in 1..Len(commands)
          /\ commands[1].tid < commands[i + 1].tid /\ commands[i + 1].tid \in 1..tid
      BY <2>2, <2>3 DEF FlowTids
    <3>2. \A t \in Tids' : t < commands[i + 1].tid
      BY <2>3, <2>5, <3>1 DEF FlowTids
    <3>3. ASSUME NEW j \in 1..Len(commands'), i < j PROVE commands'[i].tid < commands'[j].tid
      <4>1. commands'[j] = commands[j + 1] /\ j + 1 \in 1..Len(commands) /\ i + 1 < j + 1
        BY <1>1, <2>2, <2>3, <3>3
      <4> QED BY <3>1, <4>1 DEF FlowTids
    <3>4. call # NoCall /\ commands[i + 1].tid = call.tid => commands[i + 1] = call /\ total = <<>>
      BY <3>1 DEF FlowTids
    <3> QED BY <3>1, <3>2, <3>3, <3>4
  <2> QED BY <2>1, <2>6, <2>7 DEF FlowTids
<1>5. CASE Signal
  <2>1. UNCHANGED <<tid, call, total, commands>>
    BY <1>5 DEF Signal, command
  <2>2. ~Answer
    <3>1. ASSUME Answer PROVE FALSE
      <4>1. commands # <<>> /\ commands' = Tail(commands)
        BY <3>1, AnswerAppends
      <4> QED BY <1>1, <2>1, <4>1, HeadTailProperties
    <3> QED BY <3>1
  <2>3. Tids' \subseteq Tids \cup {0}
    BY <2>2, TidsNext
  <2> QED BY <1>1, <2>1, <2>3 DEF FlowTids
<1>6. CASE ~Answer /\ ~Signal
  <2>1. Tids' \subseteq Tids
    BY <1>6, TidsNext
  <2> QED BY <1>1, <1>2, <1>3, <1>6, <2>1, StepKinds, DataTaken, ArriveMoves
          DEF CallStep, Takes
<1> QED
  BY <1>4, <1>5, <1>6

-----------------------------------------------------------------------------
(***************************************************************************)
(* The position of the last byte the running command collected, and the    *)
(* bodies of its blocks that arrived and were not read.                    *)
(***************************************************************************)
Top == IF total = <<>> THEN 0 ELSE total[Len(total)][2]

WireBlock(i) == wire[i].name = "body" /\ IsBlock(call, wire[i].pkt)

(***************************************************************************)
(* The blocks of the running chunk come in its order: those collected,     *)
(* those that arrived, those on the way.                                   *)
(***************************************************************************)
WireInOrder ==
    \A i \in 1..Len(wire) : WireBlock(i) =>
        /\ Consecutive(call, wire[i].pkt) /\ Top < First(wire[i].pkt)
        /\ \A j \in 1..Len(wire) : i < j /\ WireBlock(j) => Last(wire[i].pkt) < First(wire[j].pkt)
        /\ \A j \in 1..Len(outbox) : IsBlock(call, outbox[j]) => Last(wire[i].pkt) < First(outbox[j])

OutboxInOrder ==
    /\ InOrder(call, outbox)
    /\ \A i \in 1..Len(outbox) : IsBlock(call, outbox[i]) => Top < First(outbox[i])

(***************************************************************************)
(* Whoever takes a part from the stream leaves the rest in order.          *)
(***************************************************************************)
LEMMA TakeKeepsWire ==
    ASSUME FlowTypes, Takes, call' = call, Top' = Top, WireInOrder PROVE WireInOrder'
<1>1. /\ wire \in Seq(StreamParts) /\ Len(wire) \in Nat /\ Len(wire') = Len(wire) - 1
      /\ \A i \in 1..Len(wire') : wire'[i] = wire[i + 1]
  BY HeadTailProperties, LenProperties DEF FlowTypes, Takes
<1>2. \A i \in 1..Len(wire') : i + 1 \in 1..Len(wire) /\ wire'[i] = wire[i + 1]
                               /\ (WireBlock(i)' <=> WireBlock(i + 1))
  BY <1>1 DEF WireBlock
<1> SUFFICES ASSUME NEW i \in 1..Len(wire'), WireBlock(i)'
             PROVE  /\ Consecutive(call, wire'[i].pkt) /\ Top < First(wire'[i].pkt)
                    /\ \A j \in 1..Len(wire') :
                          i < j /\ WireBlock(j)' => Last(wire'[i].pkt) < First(wire'[j].pkt)
                    /\ \A j \in 1..Len(outbox) :
                          IsBlock(call, outbox[j]) => Last(wire'[i].pkt) < First(outbox[j])
  BY DEF WireInOrder, Takes
<1>3. i + 1 \in 1..Len(wire) /\ wire'[i] = wire[i + 1] /\ WireBlock(i + 1)
  BY <1>2
<1>4. ASSUME NEW j \in 1..Len(wire'), i < j, WireBlock(j)'
      PROVE  Last(wire'[i].pkt) < First(wire'[j].pkt)
  <2>1. j + 1 \in 1..Len(wire) /\ wire'[j] = wire[j + 1] /\ WireBlock(j + 1) /\ i + 1 < j + 1
    BY <1>1, <1>2, <1>4
  <2> QED BY <1>3, <2>1 DEF WireInOrder
<1> QED
  BY <1>3, <1>4 DEF WireInOrder

(***************************************************************************)
(* What the running command collected are bytes of its chunk, in order,    *)
(* possibly with gaps.                                                     *)
(***************************************************************************)
TotalInOrder ==
    \A k \in 1..Len(total) :
        /\ total[k][1] = call.tid /\ total[k][2] \in 1..call.len
        /\ \A j \in 1..Len(total) : j <= k => total[k][2] - total[j][2] >= k - j

(***************************************************************************)
(* A block that is collected comes behind those collected before.          *)
(***************************************************************************)
LEMMA GotDataKeepsOrder ==
    ASSUME FlowTypes, GotData, call # NoCall, WireInOrder, OutboxInOrder, TotalInOrder
    PROVE  Top' = Last(Front) /\ WireInOrder' /\ OutboxInOrder' /\ TotalInOrder'
<1> DEFINE p == Front
           n == Len(total)
           b == Len(p.body)
<1>1. /\ Takes /\ UNCHANGED <<tid, call>> /\ total' = total \o p.body
      /\ wire[1].name = "body" /\ p = wire[1].pkt
      /\ IsBlock(call, p) /\ p.body \in Seq(Nat \X Nat)
  BY DataTaken
<1>2. call \in Calls /\ call.len \in Nat /\ total \in Seq(Nat \X Nat) /\ n \in Nat
      /\ wire \in Seq(StreamParts) /\ Len(wire) \in Nat
  BY LenProperties DEF FlowTypes, Calls
<1>3. 1 \in 1..Len(wire) /\ WireBlock(1)
  BY <1>1, <1>2, EmptySeq DEF WireBlock, Takes
<1>4. Consecutive(call, p) /\ Top < First(p)
  BY <1>1, <1>3 DEF WireInOrder
<1>5. /\ b \in Nat \ {0} /\ First(p) \in Nat \ {0} /\ First(p) + b - 1 <= call.len
      /\ \A k \in 1..b : p.body[k] = <<call.tid, First(p) + k - 1>>
      /\ Last(p) = First(p) + b - 1
  BY <1>4 DEF Consecutive, Last
<1>6. /\ Len(total') = n + b
      /\ \A k \in 1..(n + b) : total'[k] = IF k <= n THEN total[k] ELSE p.body[k - n]
  BY <1>1, <1>2, ConcatProperties
<1> DEFINE f == First(p)
<1>0. n \in Nat /\ b \in Nat /\ b >= 1 /\ f \in Nat /\ f >= 1 /\ f + b - 1 <= call.len
      /\ call.len \in Nat
  BY <1>2, <1>5
<1> HIDE DEF p, n, b, f
<1>7. ASSUME NEW m \in 1..b
      PROVE  n + m \in 1..(n + b) /\ total'[n + m] = <<call.tid, f + m - 1>>
  <2> DEFINE i == n + m
  <2>1. i \in 1..(n + b) /\ ~(i <= n) /\ i - n = m
    BY <1>0
  <2> HIDE DEF i
  <2>2. total'[i] = p.body[i - n]
    BY <1>6, <2>1
  <2>3. p.body[m] = <<call.tid, f + m - 1>>
    BY <1>5 DEF f
  <2> QED BY <2>1, <2>2, <2>3 DEF i
<1>8. \A k \in 1..n : k \in 1..(n + b) /\ total'[k] = total[k]
  BY <1>2, <1>5, <1>6
<1>9. Top' = Last(p)
  <2>1. b \in 1..b /\ total' # <<>>
    BY <1>2, <1>5, <1>6, EmptySeq
  <2>2. total'[n + b][2] = f + b - 1
    BY <1>7, <2>1
  <2> QED BY <1>5, <1>6, <2>1, <2>2 DEF Top, f
<1>10. \A k \in 1..n : Top - total[k][2] >= n - k
  <2> SUFFICES ASSUME NEW k \in 1..n PROVE Top - total[k][2] >= n - k
    OBVIOUS
  <2>1. n \in 1..n /\ k <= n /\ total # <<>>
    BY <1>2 DEF n
  <2> QED BY <2>1 DEF TotalInOrder, Top, n
<1>11. Top \in Nat
  <2>1. CASE total = <<>>
    BY <2>1 DEF Top
  <2>2. CASE total # <<>>
    <3>1. n \in 1..n
      BY <1>2, <2>2, EmptySeq DEF n
    <3> QED BY <1>2, <2>2, <3>1 DEF Top, TotalInOrder, n
  <2> QED BY <2>1, <2>2
<1>12. TotalInOrder'
  <2>1. ASSUME NEW k \in 1..(n + b)
        PROVE  \/ k \in 1..n /\ total'[k] = total[k]
               \/ k - n \in 1..b /\ total'[k] = <<call.tid, f + (k - n) - 1>>
    <3>1. CASE k <= n
      <4>1. k \in 1..n
        BY <1>0, <3>1
      <4> QED BY <1>8, <4>1
    <3>2. CASE k > n
      <4>1. k - n \in 1..b /\ n + (k - n) = k
        BY <1>0, <3>2
      <4> QED BY <1>7, <4>1
    <3> QED BY <1>0, <3>1, <3>2
  <2>2. ASSUME NEW k \in 1..(n + b)
        PROVE  total'[k][1] = call.tid /\ total'[k][2] \in 1..call.len
    <3>1. CASE k \in 1..n /\ total'[k] = total[k]
      BY <3>1 DEF TotalInOrder, n
    <3>2. CASE k - n \in 1..b /\ total'[k] = <<call.tid, f + (k - n) - 1>>
      <4>1. f + (k - n) - 1 \in 1..call.len
        BY <1>0, <3>2
      <4> QED BY <3>2, <4>1
    <3> QED BY <2>1, <3>1, <3>2
  <2>3. ASSUME NEW k \in 1..(n + b), NEW j \in 1..(n + b), j <= k
        PROVE  total'[k][2] - total'[j][2] >= k - j
    <3>1. CASE k \in 1..n /\ total'[k] = total[k]
      <4>1. j \in 1..n
        BY <1>0, <2>3, <3>1
      <4>2. total'[j] = total[j]
        BY <1>8, <4>1
      <4> QED BY <2>3, <3>1, <4>1, <4>2 DEF TotalInOrder, n
    <3>2. CASE k - n \in 1..b /\ total'[k] = <<call.tid, f + (k - n) - 1>>
      <4>1. CASE j \in 1..n /\ total'[j] = total[j]
        <5>1. Top - total[j][2] >= n - j
          BY <1>10, <4>1
        <5>2. total[j][2] \in Nat
          BY <1>2, <4>1 DEF TotalInOrder, n
        <5>3. Top < f
          BY <1>4 DEF f
        <5> DEFINE x == total'[k][2]
                   y == total'[j][2]
        <5>4. x = f + (k - n) - 1 /\ y = total[j][2]
          BY <3>2, <4>1
        <5> HIDE DEF x, y
        <5>5. x - y >= k - j
          BY <1>0, <1>11, <4>1, <5>1, <5>2, <5>3, <5>4
        <5> QED BY <5>5 DEF x, y
      <4>2. CASE j - n \in 1..b /\ total'[j] = <<call.tid, f + (j - n) - 1>>
        <5> DEFINE x == total'[k][2]
                   y == total'[j][2]
        <5>1. x = f + (k - n) - 1 /\ y = f + (j - n) - 1
          BY <3>2, <4>2
        <5> HIDE DEF x, y
        <5>2. x - y >= k - j
          BY <1>0, <5>1
        <5> QED BY <5>2 DEF x, y
      <4> QED BY <2>1, <4>1, <4>2
    <3> QED BY <2>1, <3>1, <3>2
  <2>4. call' = call /\ Len(total') = n + b
    BY <1>1, <1>6
  <2> QED BY <2>2, <2>3, <2>4 DEF TotalInOrder
<1>13. OutboxInOrder'
  <2>1. \A j \in 1..Len(outbox) : IsBlock(call, outbox[j]) => Last(p) < First(outbox[j])
    BY <1>1, <1>3 DEF WireInOrder
  <2> QED BY <1>1, <1>9, <2>1 DEF OutboxInOrder, Takes
<1>14. WireInOrder'
  <2>1. /\ Len(wire') = Len(wire) - 1
        /\ \A i \in 1..Len(wire') : wire'[i] = wire[i + 1]
    BY <1>1, <1>2, HeadTailProperties DEF Takes
  <2>2. ASSUME NEW i \in 1..Len(wire')
        PROVE  /\ i + 1 \in 1..Len(wire) /\ wire'[i] = wire[i + 1] /\ 1 < i + 1
               /\ (WireBlock(i)' <=> WireBlock(i + 1))
    BY <1>1, <1>2, <2>1 DEF WireBlock
  <2>3. ASSUME NEW i \in 1..Len(wire'), WireBlock(i)'
        PROVE  /\ Consecutive(call, wire'[i].pkt) /\ Top' < First(wire'[i].pkt)
               /\ \A j \in 1..Len(outbox) :
                     IsBlock(call, outbox[j]) => Last(wire'[i].pkt) < First(outbox[j])
    <3>1. Last(wire[1].pkt) < First(wire[i + 1].pkt)
      BY <1>3, <2>2, <2>3 DEF WireInOrder
    <3> QED BY <1>1, <1>9, <2>2, <2>3, <3>1 DEF WireInOrder
  <2>4. ASSUME NEW i \in 1..Len(wire'), WireBlock(i)', NEW j \in 1..Len(wire'), i < j, WireBlock(j)'
        PROVE  Last(wire'[i].pkt) < First(wire'[j].pkt)
    <3>1. i + 1 < j + 1
      BY <1>2, <2>1, <2>4
    <3> QED BY <2>2, <2>4, <3>1 DEF WireInOrder
  <2> QED BY <1>1, <2>3, <2>4 DEF WireInOrder, Takes
<1> QED
  BY <1>9, <1>12, <1>13, <1>14 DEF p

\* A command without packets in the stream.
LEMMA NoBlocks ==
    ASSUME call'.tid \notin Tids' PROVE WireInOrder' /\ OutboxInOrder'
<1>1. \A i \in 1..Len(outbox') : ~IsBlock(call', outbox'[i])
  BY DEF Tids, IsBlock
<1>2. \A i \in 1..Len(wire') : ~IsBlock(call', wire'[i].pkt)
  BY DEF Tids, IsBlock
<1> QED
  BY <1>1, <1>2 DEF WireInOrder, OutboxInOrder, InOrder, WireBlock

LEMMA BeginsKeepsOrder ==
    ASSUME FlowTypes, FlowTids, Begins PROVE WireInOrder' /\ OutboxInOrder'
<1>1. Tids' \subseteq 0..tid
  <2>1. CASE outbox' = <<>> /\ wire' = <<>>
    BY <2>1 DEF Tids
  <2>2. CASE UNCHANGED <<outbox, wire>>
    BY <2>2 DEF Tids, FlowTids
  <2> QED BY <2>1, <2>2 DEF Begins
<1>2. call'.tid = tid + 1 /\ tid \in Nat
  BY DEF Begins, FlowTypes
<1> QED
  BY <1>1, <1>2, NoBlocks

LEMMA AnswerKeepsOrder ==
    ASSUME FlowTypes, FlowTids, Answer, call # NoCall, WireInOrder, OutboxInOrder
    PROVE  WireInOrder' /\ OutboxInOrder'
<1> DEFINE c == Head(commands)
           n == Len(outbox)
<1>1. /\ commands # <<>> /\ UNCHANGED <<call, total, wire>> /\ c \in Calls
  BY AnswerAppends
<1>2. PICK a \in Seq(Packets) :
         /\ outbox' = outbox \o a
         /\ \A i \in 1..Len(a) : a[i].tid = c.tid
         /\ InOrder(c, a)
  BY AnswerAppends
<1>3. c = commands[1] /\ 1 \in 1..Len(commands)
  BY <1>1, EmptySeq DEF FlowTypes
<1>4. /\ n \in Nat /\ Len(a) \in Nat /\ Len(outbox') = n + Len(a)
      /\ \A j \in 1..(n + Len(a)) : outbox'[j] = IF j <= n THEN outbox[j] ELSE a[j - n]
  BY <1>2, ConcatProperties, LenProperties DEF FlowTypes
<1>5. /\ \A t \in Tids : t < c.tid
      /\ c.tid = call.tid => c = call /\ total = <<>>
      /\ c.tid \in Nat
  BY <1>1, <1>3 DEF FlowTids, Calls
<1> HIDE DEF c, n
<1>6. ASSUME NEW j \in 1..Len(outbox')
      PROVE  \/ j \in 1..n /\ outbox'[j] = outbox[j]
             \/ j - n \in 1..Len(a) /\ outbox'[j] = a[j - n]
  <2>1. CASE j <= n
    BY <1>4, <2>1
  <2>2. CASE ~(j <= n)
    BY <1>4, <2>2
  <2> QED BY <2>1, <2>2
<1>7. CASE c.tid # call.tid
  <2>1. \A j \in 1..Len(outbox') : IsBlock(call, outbox'[j]) => j \in 1..n /\ outbox'[j] = outbox[j]
    BY <1>2, <1>6, <1>7 DEF IsBlock
  <2>2. OutboxInOrder'
    BY <1>1, <2>1 DEF OutboxInOrder, InOrder, Top, n
  <2>3. WireInOrder'
    BY <1>1, <2>1 DEF WireInOrder, WireBlock, Top, n
  <2> QED BY <2>2, <2>3
<1>8. CASE c.tid = call.tid
  <2>1. call.tid \notin Tids /\ c = call /\ Top = 0
    BY <1>5, <1>8 DEF Top
  <2>2. \A j \in 1..n : ~IsBlock(call, outbox[j])
    BY <2>1 DEF Tids, IsBlock, n
  <2>3. \A i \in 1..Len(wire') : ~WireBlock(i)'
    BY <1>1, <2>1 DEF Tids, IsBlock, WireBlock
  <2>4. \A j \in 1..Len(outbox') :
           IsBlock(call, outbox'[j]) => j - n \in 1..Len(a) /\ outbox'[j] = a[j - n]
    BY <1>6, <2>2
  <2>5. InOrder(call, a)
    BY <1>2, <2>1
  <2>6. \A j \in 1..Len(outbox') : IsBlock(call, outbox'[j]) => Consecutive(call, outbox'[j])
    BY <2>4, <2>5 DEF InOrder
  <2>7. ASSUME NEW i \in 1..Len(outbox'), NEW j \in 1..Len(outbox'), i < j,
               IsBlock(call, outbox'[i]), IsBlock(call, outbox'[j])
        PROVE  Last(outbox'[i]) < First(outbox'[j])
    <3>1. i - n < j - n
      BY <1>4, <2>7
    <3> QED BY <2>4, <2>5, <2>7, <3>1 DEF InOrder
  <2>8. \A j \in 1..Len(outbox') : IsBlock(call, outbox'[j]) => Top' < First(outbox'[j])
    <3>1. Top' = 0
      BY <1>1, <2>1 DEF Top
    <3> QED BY <2>6, <3>1 DEF Consecutive
  <2> QED BY <1>1, <2>3, <2>6, <2>7, <2>8 DEF OutboxInOrder, InOrder, WireInOrder
<1> QED
  BY <1>7, <1>8

LEMMA SignalKeepsOrder ==
    ASSUME FlowTypes, Signal, WireInOrder, OutboxInOrder PROVE WireInOrder' /\ OutboxInOrder'
<1>1. /\ UNCHANGED <<call, total, wire>> /\ outbox' = Append(outbox, Event)
  BY DEF Signal, command
<1>2. /\ Len(outbox) \in Nat /\ Len(outbox') = Len(outbox) + 1
      /\ \A j \in 1..Len(outbox) : outbox'[j] = outbox[j]
      /\ outbox'[Len(outbox) + 1] = Event
  <2>1. outbox \in Seq(Packets) /\ Event \in Packets
    BY DEF FlowTypes, Packets
  <2> QED BY <1>1, <2>1, AppendProperties, LenProperties
<1>3. ASSUME NEW j \in 1..Len(outbox'), IsBlock(call, outbox'[j])
      PROVE  j \in 1..Len(outbox) /\ outbox'[j] = outbox[j]
  <2>1. j # Len(outbox) + 1
    BY <1>2, <1>3 DEF IsBlock, Event
  <2>2. j \in 1..Len(outbox)
    BY <1>2, <2>1
  <2> QED BY <1>2, <2>2
<1> QED
  BY <1>1, <1>3 DEF WireInOrder, OutboxInOrder, InOrder, WireBlock, Top

LEMMA ArriveKeepsOrder ==
    ASSUME FlowTypes, Arrive, WireInOrder, OutboxInOrder PROVE WireInOrder' /\ OutboxInOrder'
<1> DEFINE n == Len(wire)
<1>1. /\ outbox # <<>> /\ UNCHANGED <<call, total>>
      /\ outbox \in Seq(Packets) /\ wire \in Seq(StreamParts) /\ n \in Nat /\ Len(outbox) \in Nat
  BY ArriveMoves, LenProperties DEF FlowTypes
<1>2. PICK part \in StreamParts :
         /\ part.pkt = Head(outbox) /\ wire' = Append(wire, part)
         /\ \/ part.name # "body" /\ UNCHANGED outbox
            \/ outbox' = Tail(outbox)
  BY ArriveMoves
<1>3. /\ Len(wire') = n + 1 /\ wire'[n + 1] = part
      /\ \A i \in 1..n : wire'[i] = wire[i] /\ (WireBlock(i)' <=> WireBlock(i))
  BY <1>1, <1>2, AppendProperties DEF WireBlock
<1>4. Head(outbox) = outbox[1] /\ 1 \in 1..Len(outbox)
  BY <1>1, EmptySeq
<1> HIDE DEF n
<1>5. \A i \in 1..Len(wire') : i \in 1..n \/ i = n + 1
  BY <1>1, <1>3
<1>6. CASE part.name # "body" /\ UNCHANGED outbox
  <2>1. \A i \in 1..Len(wire') : WireBlock(i)' => i \in 1..n
    BY <1>3, <1>5, <1>6 DEF WireBlock
  <2> QED BY <1>1, <1>3, <1>6, <2>1 DEF WireInOrder, OutboxInOrder, InOrder, Top, n
<1>7. CASE outbox' = Tail(outbox)
  <2>1. \A j \in 1..Len(outbox') : j + 1 \in 1..Len(outbox) /\ outbox'[j] = outbox[j + 1] /\ 1 < j + 1
    <3>1. Len(outbox') = Len(outbox) - 1 /\ \A j \in 1..Len(outbox') : outbox'[j] = outbox[j + 1]
      BY <1>1, <1>7, HeadTailProperties
    <3> QED BY <1>1, <3>1
  <2>2. ASSUME NEW i \in 1..Len(wire'), i = n + 1, WireBlock(i)'
        PROVE  IsBlock(call, outbox[1]) /\ wire'[i].pkt = outbox[1]
    BY <1>1, <1>2, <1>3, <1>4, <2>2 DEF WireBlock
  <2>3. OutboxInOrder'
    <3>1. ASSUME NEW i \in 1..Len(outbox'), NEW j \in 1..Len(outbox'), i < j,
                 IsBlock(call, outbox'[i]), IsBlock(call, outbox'[j])
          PROVE  Last(outbox'[i]) < First(outbox'[j])
      <4>1. i + 1 < j + 1
        BY <1>1, <2>1, <3>1
      <4> QED BY <2>1, <3>1, <4>1 DEF OutboxInOrder, InOrder
    <3>2. \A i \in 1..Len(outbox') : IsBlock(call, outbox'[i]) =>
             Consecutive(call, outbox'[i]) /\ Top < First(outbox'[i])
      BY <2>1 DEF OutboxInOrder, InOrder
    <3> QED BY <1>1, <3>1, <3>2 DEF OutboxInOrder, InOrder, Top
  <2>4. ASSUME NEW i \in 1..Len(wire'), WireBlock(i)'
        PROVE  /\ Consecutive(call, wire'[i].pkt) /\ Top < First(wire'[i].pkt)
               /\ \A j \in 1..Len(outbox') :
                     IsBlock(call, outbox'[j]) => Last(wire'[i].pkt) < First(outbox'[j])
    <3>1. CASE i \in 1..n
      BY <1>3, <2>1, <2>4, <3>1 DEF WireInOrder, n
    <3>2. CASE i = n + 1
      <4>1. IsBlock(call, outbox[1]) /\ wire'[i].pkt = outbox[1]
        BY <2>2, <2>4, <3>2
      <4>2. Consecutive(call, outbox[1]) /\ Top < First(outbox[1])
        BY <1>4, <4>1 DEF OutboxInOrder, InOrder
      <4>3. \A j \in 1..Len(outbox') :
               IsBlock(call, outbox'[j]) => Last(outbox[1]) < First(outbox'[j])
        BY <1>4, <2>1, <4>1 DEF OutboxInOrder, InOrder
      <4> QED BY <4>1, <4>2, <4>3
    <3> QED BY <1>5, <3>1, <3>2
  <2>5. ASSUME NEW i \in 1..Len(wire'), NEW j \in 1..Len(wire'), i < j, WireBlock(i)', WireBlock(j)'
        PROVE  Last(wire'[i].pkt) < First(wire'[j].pkt)
    <3>1. i \in 1..n
      BY <1>1, <1>3, <2>5
    <3>2. CASE j \in 1..n
      BY <1>3, <2>5, <3>1, <3>2 DEF WireInOrder, n
    <3>3. CASE j = n + 1
      <4>1. IsBlock(call, outbox[1]) /\ wire'[j].pkt = outbox[1]
        BY <2>2, <2>5, <3>3
      <4>2. WireBlock(i) /\ wire'[i] = wire[i]
        BY <1>3, <2>5, <3>1
      <4> QED BY <1>4, <3>1, <4>1, <4>2 DEF WireInOrder, n
    <3> QED BY <1>5, <3>2, <3>3
  <2>6. Top' = Top
    BY <1>1 DEF Top
  <2> QED BY <1>1, <2>3, <2>4, <2>5, <2>6 DEF WireInOrder
<1> QED
  BY <1>2, <1>6, <1>7

-----------------------------------------------------------------------------
FlowInv ==
    /\ FlowTypes /\ FlowTids
    /\ call # NoCall => WireInOrder /\ OutboxInOrder /\ TotalInOrder

LEMMA FlowInit == Init => FlowInv
<1> SUFFICES ASSUME Init PROVE FlowInv
  OBVIOUS
<1>1. FlowTypes
  BY EmptySeq DEF Init, FlowTypes
<1>2. FlowTids
  BY EmptySeq DEF Init, FlowTids, Tids
<1>3. call = NoCall
  BY DEF Init
<1> QED
  BY <1>1, <1>2, <1>3 DEF FlowInv

LEMMA FlowNext == FlowInv /\ [Next]_vars => FlowInv'
<1> SUFFICES ASSUME FlowInv, [Next]_vars PROVE FlowInv'
  OBVIOUS
<1>1. FlowTypes /\ FlowTids /\ tid \in Nat
  BY DEF FlowInv, FlowTypes
<1>2. FlowTypes' /\ FlowTids'
  BY <1>1, FlowTypesNext, FlowTidsNext
<1> SUFFICES ASSUME call' # NoCall PROVE WireInOrder' /\ OutboxInOrder' /\ TotalInOrder'
  BY <1>2 DEF FlowInv
<1>3. CASE Begins
  <2>1. total' = <<>>
    BY <1>3 DEF Begins
  <2>2. TotalInOrder'
    BY <2>1, EmptySeq DEF TotalInOrder
  <2> QED BY <1>1, <1>3, <2>2, BeginsKeepsOrder
<1>4. CASE ~Begins
  <2>1. call' = call /\ call # NoCall
    <3>1. Answer \/ Signal \/ Arrive \/ GotData => call' = call
      BY <1>1, AnswerAppends, ArriveMoves, DataTaken DEF Signal, command
    <3> QED BY <1>1, <1>4, <3>1, StepKinds DEF CallStep
  <2>2. WireInOrder /\ OutboxInOrder /\ TotalInOrder
    BY <2>1 DEF FlowInv
  <2>3. CASE CallStep /\ UNCHANGED <<commands, outbox, arrived, wire>>
    BY <2>1, <2>2, <2>3 DEF CallStep, WireInOrder, OutboxInOrder, TotalInOrder, WireBlock, Top,
                               InOrder
  <2>4. CASE CallStep /\ Takes
    <3>1. total' = total /\ Top' = Top /\ outbox' = outbox
      BY <2>4 DEF CallStep, Takes, Top
    <3>2. WireInOrder'
      BY <1>1, <2>1, <2>2, <2>4, <3>1, TakeKeepsWire
    <3> QED BY <2>1, <2>2, <3>1, <3>2 DEF OutboxInOrder, TotalInOrder, InOrder
  <2>5. CASE GotData
    BY <1>1, <2>1, <2>2, <2>5, GotDataKeepsOrder
  <2>6. CASE Answer
    <3>1. UNCHANGED total
      BY <1>1, <2>6, AnswerAppends
    <3> QED BY <1>1, <2>1, <2>2, <2>6, <3>1, AnswerKeepsOrder DEF TotalInOrder
  <2>7. CASE Signal
    <3>1. UNCHANGED total
      BY <2>7 DEF Signal, command
    <3> QED BY <1>1, <2>1, <2>2, <2>7, <3>1, SignalKeepsOrder DEF TotalInOrder
  <2>8. CASE Arrive
    <3>1. UNCHANGED total
      BY <1>1, <2>8, ArriveMoves
    <3> QED BY <1>1, <2>1, <2>2, <2>8, <3>1, ArriveKeepsOrder DEF TotalInOrder
  <2> QED BY <1>1, <1>4, <2>3, <2>4, <2>5, <2>6, <2>7, <2>8, StepKinds
<1> QED
  BY <1>3, <1>4

(***************************************************************************)
(* Bytes in order, as many as were asked for, have no gaps.                *)
(***************************************************************************)
LEMMA FullTotalIsExact ==
    ASSUME FlowTypes, call # NoCall, TotalInOrder, Len(total) = call.len
    PROVE  /\ total = Bytes(call, 0, call.len)
           /\ total = [k \in 1..call.len |-> <<call.tid, k>>]
<1> DEFINE n == call.len
           b == Bytes(call, 0, n)
<1>1. n \in Nat /\ call.tid \in Nat /\ total \in Seq(Nat \X Nat)
  BY DEF FlowTypes, Calls
<1> HIDE DEF n
<1>0. b = [k \in 1..n |-> <<call.tid, k>>]
  <2>1. n - 0 = n /\ \A k \in 1..n : 0 + k = k
    BY <1>1
  <2> QED BY <2>1 DEF Bytes
<1> HIDE DEF b
<1>2. b \in Seq(Nat \X Nat) /\ Len(b) = n /\ \A k \in 1..n : b[k] = <<call.tid, k>>
  <2>1. \A k \in 1..n : k \in Nat
    BY <1>1
  <2>2. b \in [1..n -> Nat \X Nat]
    BY <1>0, <1>1, <2>1
  <2>3. b \in Seq(Nat \X Nat) /\ Len(b) = n
    BY <1>1, <2>2, LenProperties, SeqDef
  <2> QED BY <1>0, <2>3
<1>3. ASSUME NEW k \in 1..n PROVE total[k] = <<call.tid, k>>
  <2>1. 1 \in 1..n /\ n \in 1..n /\ 1 <= k /\ k <= n /\ k \in Nat
    BY <1>1
  <2>2. /\ total[k][1] = call.tid /\ total[k][2] \in 1..n
        /\ total[1][2] \in 1..n /\ total[n][2] \in 1..n
        /\ total[k][2] - total[1][2] >= k - 1
        /\ total[n][2] - total[k][2] >= n - k
    BY <2>1 DEF TotalInOrder, n
  <2> DEFINE x == total[k][2]
             y == total[1][2]
             z == total[n][2]
  <2>3. x \in 1..n /\ y \in 1..n /\ z \in 1..n /\ x - y >= k - 1 /\ z - x >= n - k
    BY <2>2
  <2> HIDE DEF x, y, z
  <2>4. x = k
    BY <1>1, <2>1, <2>3
  <2>5. total[k] \in Nat \X Nat
    BY <1>1, <2>1, ElementOfSeq DEF n
  <2> QED BY <2>2, <2>4, <2>5 DEF x
<1>4. total = b
  BY <1>1, <1>2, <1>3, SeqEqual DEF n
<1> QED
  BY <1>0, <1>4 DEF b, n
-----------------------------------------------------------------------------
(***************************************************************************)
(* What a step does to the command that runs and to the last outcome.      *)
(***************************************************************************)
Starts(op, len) ==
    /\ call = NoCall /\ tid < MaxCommands /\ tid' = tid + 1 /\ outcome' = NoOutcome
    /\ call' = [op |-> op, tid |-> tid + 1, len |-> len]
    /\ UNCHANGED discarded

Ends(status, data) ==
    /\ call # NoCall /\ call' = NoCall /\ UNCHANGED tid
    /\ outcome' = [call |-> call, status |-> status, data |-> data]

EndsWell ==
    \/ call.op # "chunk" /\ Ends("ok", <<call.tid>>)
    \/ call.op = "chunk" /\ Ends("ok", total)

EndsBadly == \E status : status # "ok" /\ Ends(status, <<>>)

LEMMA CommandSteps ==
    ASSUME ReadersInv, [Next]_vars
    PROVE  \/ UNCHANGED <<tid, call, outcome>>
           \/ \E op \in {"open", "simple"} : Starts(op, 0)
           \/ \E len \in ChunkLengths : Starts("chunk", len)
           \/ EndsWell \/ EndsBadly
<1>1. CASE Connect \/ Operation
  BY <1>1 DEF Connect, Operation, Begin, Starts
<1>2. ASSUME NEW type, Mine(type) PROVE call # NoCall
  BY <1>2 DEF Mine, Received, InStep, Ready, ReadersInv
<1>3. CASE GotResponse
  <2>1. call.op # "chunk" /\ Front.tid = call.tid
    BY <1>3 DEF GotResponse, Mine, Wanted
  <2> QED BY <1>2, <1>3, <2>1 DEF GotResponse, ReturnOk, Return, EndsWell, Ends
<1>4. CASE GotEnd
  <2>1. call.op = "chunk"
    BY <1>4 DEF GotEnd, Mine, Wanted
  <2> QED BY <1>2, <1>4, <2>1 DEF GotEnd, ReturnOk, Return, EndsWell, Ends
<1>5. ASSUME NEW status, status # "ok", ReturnError(status), call # NoCall PROVE EndsBadly
  BY <1>5 DEF ReturnError, Return, EndsBadly, Ends
<1>6. CASE GotRefusal
  BY <1>2, <1>5, <1>6 DEF GotRefusal
<1>7. CASE CommandTimesOut
  BY <1>5, <1>7 DEF CommandTimesOut, Failure, Silent, ReadersInv
<1>8. ASSUME NEW r \in Readers, LengthTimesOut(r) \/ Expire(r)
      PROVE  UNCHANGED <<tid, call, outcome>> \/ EndsBadly
  <2>1. at[r] # "off"
    BY <1>8 DEF LengthTimesOut, Silent, Expire
  <2>2. CASE r = "command"
    BY <1>5, <1>8, <2>1, <2>2 DEF LengthTimesOut, Expire, ReadersInv, command
  <2>3. CASE r = "listener"
    BY <1>8, <2>3 DEF LengthTimesOut, Expire, command
  <2> QED BY <2>2, <2>3 DEF Readers
<1>9. ASSUME NEW r \in Readers, Read(r) PROVE UNCHANGED <<tid, call, outcome>> \/ EndsBadly
  <2>1. CASE Misread(r)
    BY <1>5, <2>1 DEF Misread, Ready, ReadersInv, command
  <2>2. CASE ReadPart(r) \/ SkipType(r)
    BY <2>2 DEF ReadPart, SkipType, command
  <2> QED BY <1>9, <2>1, <2>2 DEF Read
<1>10. CASE SkipTransaction \/ GotEvent \/ ListenerTimesOut \/ Camera \/ GotData \/ Drop
  BY <1>10 DEF SkipTransaction, GotEvent, ListenerTimesOut, Camera, Answer, Signal, Arrive, Close,
               GotData, Drop, command
<1>11. CASE UNCHANGED vars
  BY <1>11 DEF vars, command
<1> QED
  BY <1>1, <1>3, <1>4, <1>6, <1>7, <1>8, <1>9, <1>10, <1>11
     DEF Next, CommandReads, ListenerReads, Readers

LEMMA FullChunkNext ==
    ASSUME FlowInv, ReadersInv, FullChunkIsExact, [Next]_vars PROVE FullChunkIsExact'
<1>1. CASE UNCHANGED <<tid, call, outcome>>
  BY <1>1 DEF FullChunkIsExact, Bytes
<1>2. CASE outcome' = NoOutcome
  BY <1>2 DEF NoOutcome, FullChunkIsExact
<1>3. CASE EndsBadly
  BY <1>3 DEF EndsBadly, Ends, FullChunkIsExact
<1>4. CASE call.op # "chunk" /\ Ends("ok", <<call.tid>>)
  BY <1>4 DEF Ends, FullChunkIsExact
<1>5. CASE call.op = "chunk" /\ Ends("ok", total)
  <2>1. outcome' = [call |-> call, status |-> "ok", data |-> total] /\ call # NoCall
    BY <1>5 DEF Ends
  <2>2. Len(total) = call.len => total = Bytes(call, 0, call.len)
    BY <2>1, FullTotalIsExact DEF FlowInv
  <2> QED BY <2>1, <2>2 DEF FullChunkIsExact, Bytes
<1> QED
  BY <1>1, <1>2, <1>3, <1>4, <1>5, CommandSteps DEF EndsWell, Starts

(***************************************************************************)
(* A chunk of the length asked for holds the bytes asked for, in order,    *)
(* whatever late blocks of earlier chunks the stream holds and whatever    *)
(* blocks the listener took out of it (commands.rs:698-733).               *)
(***************************************************************************)
THEOREM FullChunksAreExact == Spec => []FullChunkIsExact
<1>1. Init => FlowInv /\ ReadersInv /\ FullChunkIsExact
  BY FlowInit, ReadersInit DEF Init, NoOutcome, FullChunkIsExact
<1>2. FlowInv /\ ReadersInv /\ FullChunkIsExact /\ [Next]_vars
        => (FlowInv /\ ReadersInv /\ FullChunkIsExact)'
  BY FlowNext, ReadersNext, FullChunkNext
<1> QED
  BY <1>1, <1>2, PTL DEF Spec

LEMMA PromiseNext ==
    ASSUME FlowInv, ReadersInv, [Next]_vars
    PROVE  [Promise!Next]_<<tid, call, outcome>>
<1>1. CASE UNCHANGED <<tid, call, outcome>>
  BY <1>1
<1>2. ASSUME NEW op, NEW len, Starts(op, len) PROVE Promise!Start(op, len)
  BY <1>2 DEF Starts, Promise!Start, Promise!None, NoCall, NoOutcome
<1>3. CASE EndsBadly
  BY <1>3 DEF EndsBadly, Ends, Promise!Next, Promise!End, Promise!None, NoCall
<1>4. CASE call.op # "chunk" /\ Ends("ok", <<call.tid>>)
  BY <1>4 DEF Ends, Promise!Next, Promise!End, Promise!OwnAnswer, Promise!None, NoCall
<1>5. CASE call.op = "chunk" /\ Ends("ok", total)
  <2>1. /\ call # NoCall /\ call' = NoCall /\ UNCHANGED tid
        /\ outcome' = [call |-> call, status |-> "ok", data |-> total]
    BY <1>5 DEF Ends
  <2>2. Len(total) = call.len => total = [k \in 1..call.len |-> <<call.tid, k>>]
    BY <2>1, FullTotalIsExact DEF FlowInv
  <2>3. Promise!OwnAnswer(call, total)
    BY <1>5, <2>2 DEF Promise!OwnAnswer
  <2>4. Promise!End
    BY <2>1, <2>3 DEF Promise!End, Promise!None, NoCall
  <2> QED BY <2>4 DEF Promise!Next
<1> QED
  BY <1>1, <1>2, <1>3, <1>4, <1>5, CommandSteps DEF EndsWell, Promise!Next

(***************************************************************************)
(* The connection implements CommandPromise: commands run one by one, end  *)
(* once, and success means the own answer.                                 *)
(***************************************************************************)
THEOREM ClientKeepsPromise == Spec => KeepsPromise
<1>1. Init => FlowInv /\ ReadersInv /\ Promise!Init
  BY FlowInit, ReadersInit DEF Init, Promise!Init, Promise!None, NoCall, NoOutcome
<1>2. FlowInv /\ ReadersInv /\ [Next]_vars
        => FlowInv' /\ ReadersInv' /\ [Promise!Next]_<<tid, call, outcome>>
  BY FlowNext, ReadersNext, PromiseNext
<1> QED
  BY <1>1, <1>2, PTL DEF Spec, KeepsPromise, Promise!Spec
-----------------------------------------------------------------------------
(***************************************************************************)
(* The packets a reader is in, or ignored, were on the stream, so they are *)
(* of commands that were sent, and a command that waits for a response has *)
(* not ignored its own.                                                    *)
(***************************************************************************)
ReadSoFar ==
    /\ cur \in [Readers -> Packets \cup {NoPacket}]
    /\ \A r \in Readers : cur[r].tid \in 0..tid
    /\ \A d \in discarded : d[2].tid \in 0..tid

KeepsOwn(d) == d[1] = "command" /\ d[2].type = "response" => d[2].tid # call.tid

OwnKept ==
    /\ call # NoCall => outcome = NoOutcome
    /\ call # NoCall /\ call.op # "chunk" => \A d \in discarded : KeepsOwn(d)

(***************************************************************************)
(* The packet whose part is first on the stream was sent for a command, or *)
(* is an event.                                                            *)
(***************************************************************************)
LEMMA FrontWasSent ==
    ASSUME FlowTypes, FlowTids, wire # <<>>
    PROVE  Front \in Packets /\ Front.tid \in 0..tid
<1>1. wire[1] \in StreamParts /\ Head(wire) = wire[1] /\ 1 \in 1..Len(wire)
  BY HeadTailProperties, EmptySeq, LenProperties DEF FlowTypes
<1>2. Front = wire[1].pkt
  BY <1>1 DEF Front
<1> QED
  BY <1>1, <1>2 DEF StreamParts, FlowTids, Tids

(***************************************************************************)
(* What the steps do to the packets that are read and ignored.             *)
(***************************************************************************)
Reading(r) == cur' = [cur EXCEPT ![r] = Front]
Forgets ==
    /\ cur' \in [Readers -> Packets \cup {NoPacket}]
    /\ \A r \in Readers : cur'[r] \in {cur[r], NoPacket}

LEMMA ReadSteps ==
    ASSUME cur \in [Readers -> Packets \cup {NoPacket}], [Next]_vars
    PROVE  /\ Forgets \/ (wire # <<>> /\ \E r \in Readers : Reading(r))
           /\ \/ UNCHANGED discarded
              \/ \E r \in Readers : discarded' = discarded \cup {<<r, cur[r]>>}
              \/ wire # <<>> /\ \E r \in Readers : discarded' = discarded \cup {<<r, Front>>}
<1>1. ASSUME NEW r \in Readers, NEW again, Restart(r, again) PROVE Forgets
  BY <1>1 DEF Restart, Forgets
<1>2. ASSUME NEW r \in Readers, Stop(r) PROVE Forgets
  BY <1>2 DEF Stop, Forgets
<1>3. ASSUME NEW status, ReturnError(status) PROVE Forgets
  BY <1>2, <1>3 DEF ReturnError, Readers
<1>4. ASSUME NEW data, ReturnOk(data) PROVE Forgets
  <2>1. CASE call.op = "open"
    BY <1>4, <2>1 DEF ReturnOk, Forgets
  <2>2. CASE call.op # "open"
    BY <1>2, <1>4, <2>2 DEF ReturnOk, Readers
  <2> QED BY <2>1, <2>2
<1>5. UNCHANGED cur => Forgets
  BY DEF Forgets
<1>6. ASSUME Connect \/ Operation PROVE Forgets
  BY <1>1, <1>6 DEF Connect, Operation, Begin, Readers
<1>7. ASSUME Drop \/ Camera \/ UNCHANGED vars PROVE Forgets
  BY <1>5, <1>7 DEF Drop, Camera, Answer, Signal, Arrive, Close, readers, vars
<1>8. ASSUME NEW r \in Readers, Read(r)
      PROVE  /\ Forgets \/ (wire # <<>> /\ Reading(r))
             /\ UNCHANGED discarded \/ (wire # <<>> /\ discarded' = discarded \cup {<<r, Front>>})
  BY <1>1, <1>2, <1>3, <1>5, <1>8
     DEF Read, ReadPart, Misread, SkipType, Received, InStep, Ready, Ignore, Reading, readers
<1>9. ASSUME SkipTransaction \/ GotEvent PROVE Forgets
  BY <1>1, <1>9 DEF SkipTransaction, GotEvent, Received, InStep, Ready, Ignore, Readers
<1>10. ASSUME GotResponse \/ GotRefusal \/ GotData \/ GotEnd PROVE Forgets
  BY <1>1, <1>3, <1>4, <1>10 DEF GotResponse, GotRefusal, GotData, GotEnd, Mine, Readers
<1>11. ASSUME CommandTimesOut \/ ListenerTimesOut PROVE Forgets
  BY <1>1, <1>2, <1>3, <1>11 DEF CommandTimesOut, ListenerTimesOut, Readers
<1>12. ASSUME NEW r \in Readers, LengthTimesOut(r)
       PROVE  Forgets /\ (UNCHANGED discarded \/ discarded' = discarded \cup {<<r, cur[r]>>})
  BY <1>1, <1>3, <1>12 DEF LengthTimesOut, Ignore
<1>13. ASSUME NEW r \in Readers, Expire(r) PROVE Forgets /\ UNCHANGED discarded
  BY <1>1, <1>3, <1>13 DEF Expire, Readers
<1>14. ASSUME Connect \/ Operation \/ Drop \/ Camera \/ UNCHANGED vars PROVE UNCHANGED discarded
  BY <1>14 DEF Connect, Operation, Begin, Drop, Camera, Answer, Signal, Arrive, Close, vars
<1>15. ASSUME GotResponse \/ GotRefusal \/ GotData \/ GotEnd \/ CommandTimesOut \/ ListenerTimesOut
       PROVE  UNCHANGED discarded
  BY <1>15 DEF GotResponse, GotRefusal, GotData, GotEnd, Mine, CommandTimesOut, ListenerTimesOut
<1>16. ASSUME SkipTransaction \/ GotEvent
       PROVE  \/ UNCHANGED discarded
              \/ wire # <<>> /\ \E r \in Readers : discarded' = discarded \cup {<<r, Front>>}
  BY <1>16 DEF SkipTransaction, GotEvent, Received, InStep, Ready, Ignore, Readers
<1> QED
  BY <1>6, <1>7, <1>8, <1>9, <1>10, <1>11, <1>12, <1>13, <1>14, <1>15, <1>16
     DEF Next, CommandReads, ListenerReads, Readers
(***************************************************************************)
(* Readers keep to packets that were sent.                                 *)
(***************************************************************************)
LEMMA ReadSoFarNext ==
    ASSUME FlowTypes, FlowTids, ReadSoFar, [Next]_vars PROVE ReadSoFar'
<1>1. tid \in Nat /\ tid' \in Nat /\ tid <= tid'
  <2>1. tid \in Nat
    BY DEF FlowTypes
  <2>2. tid' = tid \/ tid' = tid + 1
    BY <2>1, StepKinds, AnswerAppends, ArriveMoves, DataTaken DEF CallStep, Begins, Signal, command
  <2> QED BY <2>1, <2>2
<1>2. 0..tid \subseteq 0..tid'
  BY <1>1
<1>3. wire # <<>> => Front \in Packets /\ Front.tid \in 0..tid
  BY FrontWasSent
<1>4. /\ cur \in [Readers -> Packets \cup {NoPacket}]
      /\ \A r \in Readers : cur[r].tid \in 0..tid
      /\ NoPacket.tid \in 0..tid
  BY <1>1 DEF ReadSoFar, NoPacket
<1>5. cur' \in [Readers -> Packets \cup {NoPacket}] /\ \A r \in Readers : cur'[r].tid \in 0..tid
  <2>1. CASE Forgets
    BY <1>4, <2>1 DEF Forgets
  <2>2. ASSUME wire # <<>>, NEW r \in Readers, Reading(r)
        PROVE  /\ cur' \in [Readers -> Packets \cup {NoPacket}]
               /\ \A q \in Readers : cur'[q].tid \in 0..tid
    BY <1>3, <1>4, <2>2 DEF Reading
  <2> QED BY <1>4, <2>1, <2>2, ReadSteps
<1>6. \A d \in discarded' : d[2].tid \in 0..tid
  BY <1>3, <1>4, ReadSteps DEF ReadSoFar
<1> QED
  BY <1>2, <1>5, <1>6 DEF ReadSoFar

(***************************************************************************)
(* A command thread that waits for a response ignores no response of its   *)
(* own, except the one with which the command ends.                        *)
(***************************************************************************)
LEMMA IgnoresOthers ==
    ASSUME ReadersInv, ReadSoFar, [Next]_vars, call # NoCall, call.op # "chunk",
           \A d \in discarded : KeepsOwn(d)
    PROVE  \/ \A d \in discarded' : KeepsOwn(d)
           \/ Ends("ProtocolError", <<>>)
<1>1. Wanted("command") = "response"
  BY DEF Wanted
<1>2. ASSUME NEW p, p.type # "response" \/ p.tid # call.tid,
             discarded' = discarded \cup {<<"command", p>>}
      PROVE  \A d \in discarded' : KeepsOwn(d)
  BY <1>2 DEF KeepsOwn
<1>3. ASSUME NEW p, discarded' = discarded \cup {<<"listener", p>>}
      PROVE  \A d \in discarded' : KeepsOwn(d)
  BY <1>3 DEF KeepsOwn
<1>4. ASSUME SkipType("command") \/ SkipTransaction PROVE \A d \in discarded' : KeepsOwn(d)
  BY <1>1, <1>2, <1>4 DEF SkipType, SkipTransaction, Ignore
<1>5. ASSUME SkipType("listener") \/ GotEvent \/ LengthTimesOut("listener")
      PROVE  \A d \in discarded' : KeepsOwn(d)
  BY <1>3, <1>5 DEF SkipType, GotEvent, LengthTimesOut, Ignore
<1>6. ASSUME LengthTimesOut("command")
      PROVE  (\A d \in discarded' : KeepsOwn(d)) \/ Ends("ProtocolError", <<>>)
  <2>1. CASE cur["command"].tid = call.tid
    BY <1>1, <1>6, <2>1 DEF LengthTimesOut, ReturnError, Return, Ends
  <2>2. CASE cur["command"].tid # call.tid
    BY <1>2, <1>6, <2>2 DEF LengthTimesOut, Ignore
  <2> QED BY <2>1, <2>2
<1>7. ASSUME UNCHANGED discarded PROVE \A d \in discarded' : KeepsOwn(d)
  BY <1>7
<1>8. ASSUME Connect \/ Operation \/ Drop \/ Camera \/ UNCHANGED vars PROVE UNCHANGED discarded
  BY <1>8 DEF Connect, Operation, Begin, Drop, Camera, Answer, Signal, Arrive, Close, vars
<1>9. ASSUME GotResponse \/ GotRefusal \/ GotData \/ GotEnd \/ CommandTimesOut \/ ListenerTimesOut
      PROVE  UNCHANGED discarded
  BY <1>9 DEF GotResponse, GotRefusal, GotData, GotEnd, Mine, CommandTimesOut, ListenerTimesOut
<1>10. ASSUME NEW r \in Readers, ReadPart(r) \/ Misread(r) \/ Expire(r) PROVE UNCHANGED discarded
  BY <1>10 DEF ReadPart, Misread, Expire
<1> QED
  BY <1>4, <1>5, <1>6, <1>7, <1>8, <1>9, <1>10
     DEF Next, CommandReads, ListenerReads, Readers, Read

(***************************************************************************)
(* While a command runs, its own response has not been ignored.            *)
(***************************************************************************)
LEMMA OwnKeptNext ==
    ASSUME FlowInv, ReadersInv, ReadSoFar, OwnKept, [Next]_vars PROVE OwnKept'
<1>1. tid \in Nat
  BY DEF FlowInv, FlowTypes
<1>2. ASSUME NEW op, NEW len, Starts(op, len) PROVE OwnKept'
  <2>1. call'.tid = tid + 1 /\ outcome' = NoOutcome
    BY <1>2 DEF Starts
  <2>2. UNCHANGED discarded
    BY <1>2 DEF Starts
  <2>3. \A d \in discarded' : d[2].tid # call'.tid
    BY <1>1, <2>1, <2>2 DEF ReadSoFar
  <2> QED BY <2>1, <2>3 DEF OwnKept, KeepsOwn
<1>3. CASE call' = NoCall
  BY <1>3 DEF OwnKept
<1>4. CASE UNCHANGED <<tid, call, outcome>> /\ call # NoCall
  <2>1. call.op # "chunk" => \A d \in discarded' : KeepsOwn(d)
    BY <1>4, IgnoresOthers DEF OwnKept, Ends
  <2> QED BY <1>4, <2>1 DEF OwnKept, KeepsOwn
<1> QED
  BY <1>2, <1>3, <1>4, CommandSteps DEF EndsWell, EndsBadly, Ends
(***************************************************************************)
(* Between commands the command thread reads nothing.                      *)
(***************************************************************************)
LEMMA IdleIgnoresNothing ==
    ASSUME ReadersInv, [Next]_vars, call = NoCall
    PROVE  \A d \in discarded' : d[1] = "command" => d \in discarded
<1>1. at["command"] = "off"
  BY DEF ReadersInv
<1>2. ASSUME SkipType("listener") \/ GotEvent \/ LengthTimesOut("listener")
      PROVE  UNCHANGED discarded \/ \E p : discarded' = discarded \cup {<<"listener", p>>}
  BY <1>2 DEF SkipType, GotEvent, LengthTimesOut, Ignore
<1>3. ~SkipType("command") /\ ~SkipTransaction /\ ~LengthTimesOut("command")
  BY <1>1 DEF SkipType, SkipTransaction, LengthTimesOut, Received, InStep, Ready, Silent
<1>4. ASSUME Connect \/ Operation \/ Drop \/ Camera \/ UNCHANGED vars PROVE UNCHANGED discarded
  BY <1>4 DEF Connect, Operation, Begin, Drop, Camera, Answer, Signal, Arrive, Close, vars
<1>5. ASSUME GotResponse \/ GotRefusal \/ GotData \/ GotEnd \/ CommandTimesOut \/ ListenerTimesOut
      PROVE  UNCHANGED discarded
  BY <1>5 DEF GotResponse, GotRefusal, GotData, GotEnd, Mine, CommandTimesOut, ListenerTimesOut
<1>6. ASSUME NEW r \in Readers, ReadPart(r) \/ Misread(r) \/ Expire(r) PROVE UNCHANGED discarded
  BY <1>6 DEF ReadPart, Misread, Expire
<1>7. UNCHANGED discarded \/ \E p : discarded' = discarded \cup {<<"listener", p>>}
  BY <1>2, <1>3, <1>4, <1>5, <1>6 DEF Next, CommandReads, ListenerReads, Readers, Read
<1> QED
  BY <1>7

LEMMA OwnResponseNext ==
    ASSUME ReadersInv, ReadSoFar, OwnKept, OwnResponseIsTaken, [Next]_vars
    PROVE  OwnResponseIsTaken'
<1>1. CASE UNCHANGED <<tid, call, outcome>> /\ call = NoCall
  BY <1>1, IdleIgnoresNothing DEF OwnResponseIsTaken
<1>2. CASE UNCHANGED <<tid, call, outcome>> /\ call # NoCall
  BY <1>2 DEF OwnKept, NoOutcome, OwnResponseIsTaken
<1>3. CASE outcome' = NoOutcome
  BY <1>3 DEF NoOutcome, OwnResponseIsTaken
<1>4. CASE EndsWell
  BY <1>4 DEF EndsWell, Ends, OwnResponseIsTaken
<1>5. CASE EndsBadly
  <2>1. call # NoCall /\ outcome'.call = call
    BY <1>5 DEF EndsBadly, Ends
  <2>2. CASE call.op = "chunk"
    BY <2>1, <2>2 DEF OwnResponseIsTaken
  <2>3. CASE call.op # "chunk"
    <3>1. CASE Ends("ProtocolError", <<>>)
      BY <3>1 DEF Ends, OwnResponseIsTaken
    <3>2. CASE \A d \in discarded' : KeepsOwn(d)
      BY <2>1, <3>2 DEF KeepsOwn, OwnResponseIsTaken
    <3> QED BY <2>1, <2>3, <3>1, <3>2, IgnoresOthers DEF OwnKept
  <2> QED BY <2>2, <2>3
<1> QED
  BY <1>1, <1>2, <1>3, <1>4, <1>5, CommandSteps DEF Starts

(***************************************************************************)
(* A command that fails for want of a response has not itself thrown that  *)
(* response away (transport.rs:164, commands.rs:643).                      *)
(***************************************************************************)
THEOREM OwnResponsesAreTaken == Spec => []OwnResponseIsTaken
<1> DEFINE Inv == FlowInv /\ ReadersInv /\ ReadSoFar /\ OwnKept /\ OwnResponseIsTaken
<1>1. Init => Inv
  <2> SUFFICES ASSUME Init PROVE Inv
    OBVIOUS
  <2>1. ReadSoFar
    BY DEF Init, ReadSoFar, NoPacket
  <2>2. OwnKept /\ OwnResponseIsTaken
    BY DEF Init, OwnKept, OwnResponseIsTaken, NoOutcome
  <2> QED BY <2>1, <2>2, FlowInit, ReadersInit
<1>2. Inv /\ [Next]_vars => Inv'
  BY FlowNext, ReadersNext, ReadSoFarNext, OwnKeptNext, OwnResponseNext DEF FlowInv
<1> QED
  BY <1>1, <1>2, PTL DEF Spec
-----------------------------------------------------------------------------
(***************************************************************************)
(* What the readers know: a reader in the middle of a packet, and no       *)
(* other, knows which, and there is no listener before a session.          *)
(***************************************************************************)
InPacket ==
    /\ cur \in [Readers -> Packets \cup {NoPacket}]
    /\ \A r \in Readers : cur[r] = NoPacket <=> at[r] \in {"off", "type"}
    /\ skipped \in [Readers -> BOOLEAN]
    /\ session \in {"off", "opening"} => at["listener"] = "off"

LEMMA RestartKeepsPacket ==
    ASSUME InPacket, ReadersInv, NEW r \in Readers, NEW again \in BOOLEAN, Restart(r, again),
           at[r] # "off" \/ r = "command", session' = session \/ (session' = "opening" /\ session = "off")
    PROVE  InPacket'
BY DEF InPacket, ReadersInv, Restart, Readers

LEMMA StopKeepsPacket ==
    ASSUME InPacket, ReadersInv, NEW r \in Readers, Stop(r),
           session' \in {"off", "opening"} => session \in {"off", "opening"}
    PROVE  InPacket'
BY DEF InPacket, ReadersInv, Stop, Readers

LEMMA OkKeepsPacket ==
    ASSUME InPacket, ReadersInv, NEW data, ReturnOk(data), call # NoCall PROVE InPacket'
<1>1. session' = "open"
  BY DEF ReturnOk
<1>2. CASE call.op # "open"
  BY <1>1, <1>2, StopKeepsPacket DEF ReturnOk, Readers
<1>3. CASE call.op = "open"
  <2>1. at["listener"] = "off"
    BY <1>3 DEF InPacket, ReadersInv
  <2>2. cur["listener"] = NoPacket
    BY <2>1 DEF InPacket, Readers
  <2>3. /\ at' = [command |-> "off", listener |-> "type"]
        /\ cur' = [cur EXCEPT !["command"] = NoPacket]
        /\ skipped' = [r \in Readers |-> FALSE]
    BY <1>3 DEF ReturnOk
  <2>4. cur' \in [Readers -> Packets \cup {NoPacket}] /\ \A r \in Readers : cur'[r] = NoPacket
    BY <2>2, <2>3 DEF InPacket, Readers
  <2>5. \A r \in Readers : at'[r] \in {"off", "type"}
    BY <2>3 DEF Readers
  <2>6. skipped' \in [Readers -> BOOLEAN]
    BY <2>3
  <2> QED BY <1>1, <2>4, <2>5, <2>6 DEF InPacket
<1> QED
  BY <1>2, <1>3

LEMMA ErrorKeepsPacket ==
    ASSUME InPacket, ReadersInv, NEW status, ReturnError(status), call # NoCall PROVE InPacket'
<1>1. session' \in {"off", "opening"} => session \in {"off", "opening"}
  BY DEF ReturnError, ReadersInv
<1> QED
  BY <1>1, StopKeepsPacket DEF ReturnError, Readers

LEMMA ReadPartKeepsPacket ==
    ASSUME InPacket, ReadersInv, FlowTypes, FlowTids, NEW r \in Readers, ReadPart(r) PROVE InPacket'
<1>1. wire # <<>> /\ at[r] # "off" /\ After(Front, at[r]) # "done"
  BY DEF ReadPart, InStep, Ready
<1>2. Front \in Packets /\ Front # NoPacket
  BY <1>1, FrontWasSent DEF Packets, DataPackets, ResponsePackets, Event, NoPacket
<1>3. After(Front, at[r]) \notin {"off", "type"}
  BY <1>1 DEF After, ReadersInv, Places
<1>4. /\ at' = [at EXCEPT ![r] = After(Front, at[r])] /\ cur' = [cur EXCEPT ![r] = Front]
      /\ UNCHANGED <<session, skipped>>
  BY DEF ReadPart, command
<1>5. cur' \in [Readers -> Packets \cup {NoPacket}]
  BY <1>2, <1>4 DEF InPacket
<1>6. \A q \in Readers : cur'[q] = NoPacket <=> at'[q] \in {"off", "type"}
  BY <1>2, <1>3, <1>4 DEF InPacket, ReadersInv
<1>7. session \in {"off", "opening"} => at'["listener"] = "off"
  BY <1>1, <1>4 DEF InPacket, ReadersInv, Readers
<1> QED
  BY <1>4, <1>5, <1>6, <1>7 DEF InPacket

LEMMA PacketNext ==
    ASSUME InPacket, ReadersInv, FlowTypes, FlowTids, [Next]_vars PROVE InPacket'
<1>1. CASE Connect \/ Operation
  <2>1. Restart("command", FALSE) /\ (session' = session \/ (session' = "opening" /\ session = "off"))
    BY <1>1 DEF Connect, Operation, Begin
  <2> QED BY <2>1, RestartKeepsPacket DEF Readers
<1>2. CASE Drop
  BY <1>2 DEF Drop, readers, InPacket
<1>3. CASE Camera \/ UNCHANGED vars
  BY <1>3 DEF Camera, Answer, Signal, Arrive, Close, vars, command, readers, InPacket
<1>4. ASSUME NEW r \in Readers, Read(r) PROVE InPacket'
  <2>1. CASE ReadPart(r)
    BY <2>1, ReadPartKeepsPacket
  <2>2. CASE Misread(r)
    <3>1. at[r] # "off"
      BY <2>2 DEF Misread, Ready
    <3>2. CASE UNCHANGED <<timeoutKind, command, readers>>
      BY <3>2 DEF command, readers, InPacket
    <3>3. CASE r = "command" /\ ReturnError("ProtocolError")
      BY <3>1, <3>3, ErrorKeepsPacket DEF ReadersInv
    <3>4. CASE Stop(r) /\ UNCHANGED session
      BY <3>1, <3>4, StopKeepsPacket
    <3> QED BY <2>2, <3>2, <3>3, <3>4 DEF Misread, command
  <2>3. CASE SkipType(r)
    BY <2>3, RestartKeepsPacket DEF SkipType, Received, InStep, Ready, command
  <2> QED BY <1>4, <2>1, <2>2, <2>3 DEF Read
<1>5. CASE SkipTransaction \/ GotEvent \/ GotData
  BY <1>5, RestartKeepsPacket
     DEF SkipTransaction, GotEvent, GotData, Mine, Received, InStep, Ready, command, Readers
<1>6. ASSUME NEW type, Mine(type) PROVE call # NoCall
  BY <1>6 DEF Mine, Received, InStep, Ready, ReadersInv
<1>7. CASE GotResponse \/ GotEnd
  BY <1>6, <1>7, OkKeepsPacket DEF GotResponse, GotEnd
<1>8. CASE GotRefusal
  BY <1>6, <1>8, ErrorKeepsPacket DEF GotRefusal
<1>9. CASE CommandTimesOut
  BY <1>9, ErrorKeepsPacket DEF CommandTimesOut, Silent, ReadersInv
<1>10. CASE ListenerTimesOut
  <2>1. at["listener"] # "off" /\ UNCHANGED session
    BY <1>10 DEF ListenerTimesOut, Silent, command
  <2>2. CASE Restart("listener", FALSE)
    BY <2>1, <2>2, RestartKeepsPacket DEF Readers
  <2>3. CASE Stop("listener")
    BY <2>1, <2>3, StopKeepsPacket DEF Readers
  <2> QED BY <1>10, <2>2, <2>3 DEF ListenerTimesOut
<1>11. ASSUME NEW r \in Readers, LengthTimesOut(r) \/ Expire(r) PROVE InPacket'
  <2>1. at[r] # "off"
    BY <1>11 DEF LengthTimesOut, Silent, Expire
  <2>2. CASE r = "command" /\ \E status : ReturnError(status)
    BY <2>1, <2>2, ErrorKeepsPacket DEF ReadersInv
  <2>3. CASE (\E again \in BOOLEAN : Restart(r, again)) /\ UNCHANGED <<timeoutKind, command>>
    BY <2>1, <2>3, RestartKeepsPacket DEF command
  <2> QED BY <1>11, <2>2, <2>3 DEF LengthTimesOut, Expire, Readers
<1> QED
  BY <1>1, <1>2, <1>3, <1>4, <1>5, <1>7, <1>8, <1>9, <1>10, <1>11
     DEF Next, CommandReads, ListenerReads, Readers

(***************************************************************************)
(* The rest of the types.                                                  *)
(***************************************************************************)
Limits ==
    /\ timeoutKind \in TimeoutKinds
    /\ session \in {"off", "opening", "open", "dropped"}
    /\ tid <= MaxCommands /\ (call # NoCall => tid >= 1)
    /\ total \in Seq((1..MaxCommands) \X Nat)
    /\ outcome.status \in {"none", "ok", "DeviceError", "ProtocolError", "Io", "Timeout"}
    /\ closed \in BOOLEAN /\ aligned \in BOOLEAN
    /\ events \in 0..MaxEvents

LEMMA LimitsGiveTypes ==
    ASSUME FlowInv, ReadersInv, InPacket, Limits PROVE TypeOK
<1>1. tid \in 0..MaxCommands
  BY ClientAssumption DEF FlowInv, FlowTypes, Limits
<1>2. call.op \in {"none", "open", "simple", "chunk"} /\ call.tid \in {0, tid}
  BY DEF FlowInv, FlowTypes, Calls, NoCall
<1>3. \A i \in 1..Len(wire) : wire[i].name \in {"type", "head", "len", "body"}
  <2> TAKE i \in 1..Len(wire)
  <2>1. wire[i] \in StreamParts
    BY ElementOfSeq DEF FlowInv, FlowTypes
  <2> QED BY <2>1 DEF StreamParts
<1> QED
  BY <1>1, <1>2, <1>3 DEF TypeOK, Limits, InPacket, ReadersInv, Places

\* The session and the status after a step.
LEMMA SessionNext ==
    ASSUME Limits, [Next]_vars
    PROVE  /\ timeoutKind' = timeoutKind
           /\ session' \in {"off", "opening", "open", "dropped"}
           /\ outcome'.status \in {"none", "ok", "DeviceError", "ProtocolError", "Io", "Timeout"}
           /\ closed' \in BOOLEAN /\ aligned' \in BOOLEAN /\ events' \in 0..MaxEvents
<1> USE DEF Limits
<1>1. CASE Connect \/ Operation
  <2>1. UNCHANGED <<timeoutKind, aligned, events>> /\ closed' \in BOOLEAN /\ outcome' = NoOutcome
    BY <1>1 DEF Connect, Operation, Begin
  <2>2. session' = "opening" \/ session' = session
    BY <1>1 DEF Connect, Operation
  <2> QED BY <2>1, <2>2 DEF NoOutcome
<1>2. CASE Drop
  BY <1>2 DEF Drop, network
<1>3. ASSUME NEW status \in {"DeviceError", "ProtocolError", "Io", "Timeout"}, ReturnError(status)
      PROVE  /\ timeoutKind' = timeoutKind
             /\ session' \in {"off", "opening", "open", "dropped"}
             /\ outcome'.status \in {"none", "ok", "DeviceError", "ProtocolError", "Io", "Timeout"}
  BY <1>3 DEF ReturnError, Return
<1>4. ASSUME NEW data, ReturnOk(data)
      PROVE  /\ timeoutKind' = timeoutKind
             /\ session' \in {"off", "opening", "open", "dropped"}
             /\ outcome'.status \in {"none", "ok", "DeviceError", "ProtocolError", "Io", "Timeout"}
  BY <1>4 DEF ReturnOk, Return
<1>5. CASE GotResponse \/ GotRefusal \/ GotEnd
  BY <1>3, <1>4, <1>5 DEF GotResponse, GotRefusal, GotEnd, Mine, Received, Consume
<1>6. CASE GotData \/ SkipTransaction \/ GotEvent
  BY <1>6 DEF GotData, SkipTransaction, GotEvent, Mine, Received, Consume, command
<1>7. CASE CommandTimesOut \/ ListenerTimesOut
  BY <1>3, <1>7 DEF CommandTimesOut, ListenerTimesOut, Failure, command, network
<1>8. ASSUME NEW r \in Readers, LengthTimesOut(r) \/ Expire(r)
      PROVE  /\ timeoutKind' = timeoutKind
             /\ session' \in {"off", "opening", "open", "dropped"}
             /\ outcome'.status \in {"none", "ok", "DeviceError", "ProtocolError", "Io", "Timeout"}
             /\ closed' \in BOOLEAN /\ aligned' \in BOOLEAN /\ events' \in 0..MaxEvents
  BY <1>3, <1>8 DEF LengthTimesOut, Expire, command, network
<1>9. ASSUME NEW r \in Readers, Read(r)
      PROVE  /\ timeoutKind' = timeoutKind
             /\ session' \in {"off", "opening", "open", "dropped"}
             /\ outcome'.status \in {"none", "ok", "DeviceError", "ProtocolError", "Io", "Timeout"}
             /\ closed' \in BOOLEAN /\ aligned' \in BOOLEAN /\ events' \in 0..MaxEvents
  <2>1. CASE ReadPart(r) \/ SkipType(r)
    BY <2>1 DEF ReadPart, SkipType, Received, Consume, command
  <2>2. CASE Misread(r)
    BY <1>3, <2>2 DEF Misread, command, network
  <2> QED BY <1>9, <2>1, <2>2 DEF Read
<1>10. CASE Camera
  <2>1. CASE Signal
    <3>1. events' = events + 1 /\ events < MaxEvents
      BY <2>1 DEF Signal
    <3>2. events' \in 0..MaxEvents
      BY <3>1, ClientAssumption
    <3> QED BY <2>1, <3>2 DEF Signal, command
  <2>2. CASE Answer \/ Arrive \/ Close
    BY <2>2 DEF Answer, Arrive, Close, command
  <2> QED BY <1>10, <2>1, <2>2 DEF Camera
<1>11. CASE UNCHANGED vars
  BY <1>11 DEF vars, command, network
<1> QED
  BY <1>1, <1>2, <1>5, <1>6, <1>7, <1>8, <1>9, <1>10, <1>11
     DEF Next, CommandReads, ListenerReads, Readers

(***************************************************************************)
(* Collected bytes carry the transaction of the running command.           *)
(***************************************************************************)
LEMMA TotalNext ==
    ASSUME FlowInv', FlowTypes, Limits, tid' = tid, tid' \in 0..MaxCommands, GotData,
           call # NoCall
    PROVE  total' \in Seq((1..MaxCommands) \X Nat)
<1>1. /\ total' \in Seq(Nat \X Nat) /\ Len(total') \in Nat /\ call' = call
      /\ \A k \in 1..Len(total') : total'[k][1] = call'.tid
  BY DataTaken, LenProperties DEF FlowInv, FlowTypes, TotalInOrder
<1>2. call.tid \in 1..MaxCommands
  BY DEF Limits, FlowTypes
<1>3. \A k \in 1..Len(total') : total'[k] \in (1..MaxCommands) \X Nat
  <2> TAKE k \in 1..Len(total')
  <2>1. total'[k] \in Nat \X Nat
    BY <1>1, ElementOfSeq
  <2> QED BY <1>1, <1>2, <2>1
<1> DEFINE n == Len(total')
           S == (1..MaxCommands) \X Nat
<1>4. n \in Nat /\ total' = [k \in 1..n |-> total'[k]]
  BY <1>1, LenProperties
<1> HIDE DEF n, S
<1>5. \A k \in 1..n : total'[k] \in S
  BY <1>3 DEF n, S
<1>6. total' \in [1..n -> S]
  BY <1>4, <1>5
<1>7. total' \in Seq(S)
  BY <1>4, <1>6, SeqDef
<1> QED
  BY <1>7 DEF S

LEMMA LimitsNext ==
    ASSUME FlowInv, FlowInv', ReadersInv, Limits, [Next]_vars PROVE Limits'
<1>1. tid \in 0..MaxCommands
  BY ClientAssumption DEF FlowInv, FlowTypes, Limits
<1>2. tid' <= MaxCommands /\ (call' # NoCall => tid' >= 1)
  <2>1. ASSUME NEW op, NEW len, Starts(op, len) PROVE tid' <= MaxCommands /\ tid' >= 1
    BY <1>1, <2>1, ClientAssumption DEF Starts
  <2>2. CASE EndsWell \/ EndsBadly
    BY <1>1, <2>2 DEF EndsWell, EndsBadly, Ends
  <2>3. CASE UNCHANGED <<tid, call, outcome>>
    BY <1>1, <2>3 DEF Limits
  <2> QED BY <2>1, <2>2, <2>3, CommandSteps
<1>3. total' \in Seq((1..MaxCommands) \X Nat)
  <2>1. CASE GotData
    <3>1. call # NoCall /\ tid' = tid
      BY <2>1 DEF GotData, Mine, Received, InStep, Ready, ReadersInv
    <3> QED BY <1>1, <2>1, <3>1, TotalNext DEF FlowInv
  <2>2. CASE Begins
    BY <2>2 DEF Begins
  <2>3. CASE Answer \/ Signal \/ Arrive
    BY <2>3 DEF Answer, Signal, Arrive, command, Limits
  <2>4. CASE CallStep
    BY <2>4 DEF CallStep, Limits
  <2> QED BY <1>1, <2>1, <2>2, <2>3, <2>4, StepKinds DEF FlowInv, FlowTypes
<1> QED
  BY <1>2, <1>3, SessionNext DEF Limits

(***************************************************************************)
(* Every variable of the connection keeps its type, and a reader knows the *)
(* packet it is in exactly while it is in one (transport.rs:177-253).      *)
(***************************************************************************)
THEOREM TypeCorrect == Spec => []TypeOK
<1> DEFINE Inv == FlowInv /\ ReadersInv /\ InPacket /\ Limits
<1>1. Init => Inv
  <2> SUFFICES ASSUME Init PROVE Inv
    OBVIOUS
  <2>1. InPacket
    <3>1. /\ at = [r \in Readers |-> "off"] /\ cur = [r \in Readers |-> NoPacket]
          /\ skipped = [r \in Readers |-> FALSE] /\ "listener" \in Readers
      BY DEF Init, Readers
    <3> QED BY <3>1 DEF InPacket
  <2>2. Limits
    <3>1. tid <= MaxCommands /\ events \in 0..MaxEvents
      BY ClientAssumption DEF Init
    <3>2. total \in Seq((1..MaxCommands) \X Nat)
      BY EmptySeq DEF Init
    <3> QED BY <3>1, <3>2 DEF Init, Limits, NoOutcome, NoCall
  <2> QED BY <2>1, <2>2, FlowInit, ReadersInit
<1>2. Inv /\ [Next]_vars => Inv'
  <2> SUFFICES ASSUME Inv, [Next]_vars PROVE Inv'
    OBVIOUS
  <2>1. FlowInv' /\ ReadersInv' /\ InPacket'
    BY FlowNext, ReadersNext, PacketNext DEF FlowInv
  <2> QED BY <2>1, LimitsNext
<1>3. Inv => TypeOK
  BY LimitsGiveTypes
<1> QED
  BY <1>1, <1>2, <1>3, PTL DEF Spec
=============================================================================
