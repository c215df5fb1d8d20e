--------------------------- MODULE Client_proofs ---------------------------
(***************************************************************************)
(* Proofs about Client, for any lengths of chunks, any platform and any    *)
(* number of commands and events.                                          *)
(***************************************************************************)
EXTENDS Client, TLAPS

(***************************************************************************)
(* Who reads when.  The command thread is at a part of a packet exactly    *)
(* while a command runs, a session opens exactly while connect runs, and   *)
(* the other commands run in an open session.                              *)
(***************************************************************************)
Places == {"off", "type", "head", "len", "body"}

ReadersInv ==
    /\ at \in [Readers -> Places]
    /\ call # NoCall <=> at["command"] # "off"
    /\ session = "opening" <=> call.op = "open"
    /\ call # NoCall /\ call.op # "open" => session = "open"
    /\ ListenerStays

LEMMA ReadersInit == Init => ReadersInv
BY DEF Init, ReadersInv, ListenerStays, Readers, Places, NoCall

(***************************************************************************)
(* The three ends of a recv_packet: the reader starts again, stops, or is  *)
(* at the next part.                                                       *)
(***************************************************************************)
LEMMA RestartKeepsReaders ==
    ASSUME ReadersInv, NEW r \in Readers, at[r] # "off", NEW again, Restart(r, again),
           UNCHANGED <<timeoutKind, session, call, closed, aligned>>
    PROVE  ReadersInv'
BY DEF ReadersInv, ListenerStays, Readers, Places, Restart

LEMMA ErrorKeepsReaders ==
    ASSUME ReadersInv, NEW status, ReturnError(status), call # NoCall,
           UNCHANGED closed, aligned' => aligned
    PROVE  ReadersInv'
BY DEF ReadersInv, ListenerStays, Readers, Places, ReturnError, Return, Stop, NoCall

LEMMA OkKeepsReaders ==
    ASSUME ReadersInv, NEW data, ReturnOk(data), call # NoCall, UNCHANGED <<closed, aligned>>
    PROVE  ReadersInv'
<1>1. call' = NoCall /\ session' = "open" /\ timeoutKind' = timeoutKind
  BY DEF ReturnOk, Return
<1>2. CASE call.op = "open"
  <2>1. at' = [command |-> "off", listener |-> "type"]
    BY <1>2 DEF ReturnOk
  <2>2. at' \in [Readers -> Places] /\ at'["command"] = "off" /\ at'["listener"] = "type"
    BY <2>1 DEF Readers, Places
  <2> QED BY <1>1, <2>2 DEF ReadersInv, ListenerStays, NoCall
<1>3. CASE call.op # "open"
  <2>1. at' = [at EXCEPT !["command"] = "off"] /\ session = "open"
    BY <1>3 DEF ReturnOk, Stop, ReadersInv
  <2> QED BY <1>1, <2>1 DEF ReadersInv, ListenerStays, Readers, Places, NoCall
<1> QED
  BY <1>2, <1>3

LEMMA ReadPartKeepsReaders ==
    ASSUME ReadersInv, NEW r \in Readers, ReadPart(r) PROVE ReadersInv'
<1>1. at[r] # "off" /\ After(Front, at[r]) # "done"
  BY DEF ReadPart, InStep, Ready
<1>2. After(Front, at[r]) \in Places \ {"off"}
  BY <1>1 DEF After, ReadersInv, Places
<1>3. at' = [at EXCEPT ![r] = After(Front, at[r])] /\ UNCHANGED <<timeoutKind, session, call, closed, aligned>>
  BY DEF ReadPart, Consume, command
<1> QED
  BY <1>1, <1>2, <1>3 DEF ReadersInv, ListenerStays, Readers, Places

LEMMA MisreadKeepsReaders ==
    ASSUME ReadersInv, NEW r \in Readers, Misread(r) PROVE ReadersInv'
<1>1. at[r] # "off" /\ aligned' = FALSE /\ UNCHANGED closed
  BY DEF Misread, Ready, network
<1>2. CASE UNCHANGED <<timeoutKind, command, readers>>
  BY <1>1, <1>2 DEF command, readers, ReadersInv, ListenerStays
<1>3. CASE r = "command" /\ ReturnError("ProtocolError")
  BY <1>1, <1>3, ErrorKeepsReaders DEF ReadersInv
<1>4. CASE r = "listener" /\ Stop(r) /\ UNCHANGED <<timeoutKind, command>>
  BY <1>1, <1>4 DEF Stop, command, Readers, Places, ReadersInv, ListenerStays
<1> QED
  BY <1>2, <1>3, <1>4 DEF Misread

LEMMA ReadersNext == ReadersInv /\ [Next]_vars => ReadersInv'
<1> SUFFICES ASSUME ReadersInv, [Next]_vars PROVE ReadersInv'
  OBVIOUS
<1>1. CASE Connect
  <2>1. /\ call' = [op |-> "open", tid |-> tid + 1, len |-> 0]
        /\ session' = "opening"
        /\ at' = [at EXCEPT !["command"] = "type"]
    BY <1>1 DEF Connect, Begin, Restart
  <2> QED BY <2>1 DEF ReadersInv, ListenerStays, Readers, Places, NoCall
<1>2. CASE Operation
  <2>1. /\ session = "open" /\ call = NoCall
        /\ call'.op \in {"simple", "chunk"}
        /\ UNCHANGED <<timeoutKind, session, closed, aligned>>
        /\ at' = [at EXCEPT !["command"] = "type"]
    BY <1>2 DEF Operation, Begin, Restart
  <2> QED BY <2>1 DEF ReadersInv, ListenerStays, Readers, Places, NoCall
<1>3. CASE Drop
  BY <1>3 DEF Drop, readers, network, ReadersInv, ListenerStays, NoCall
<1>4. ASSUME NEW r \in Readers, Read(r) PROVE ReadersInv'
  <2>1. CASE ReadPart(r)
    BY <2>1, ReadPartKeepsReaders
  <2>2. CASE Misread(r)
    BY <2>2, MisreadKeepsReaders
  <2>3. CASE SkipType(r)
    BY <2>3, RestartKeepsReaders DEF SkipType, Received, InStep, Ready, Consume, command
  <2> QED BY <1>4, <2>1, <2>2, <2>3 DEF Read
<1>5. CASE SkipTransaction
  BY <1>5, RestartKeepsReaders
     DEF SkipTransaction, Received, InStep, Ready, Consume, command, Readers
<1>6. CASE GotEvent
  BY <1>6, RestartKeepsReaders DEF GotEvent, Received, InStep, Ready, Consume, command, Readers
<1>7. CASE GotData
  BY <1>7, RestartKeepsReaders DEF GotData, Mine, Received, InStep, Ready, Consume, Readers
<1>8. ASSUME NEW type, Mine(type) PROVE call # NoCall /\ aligned /\ UNCHANGED <<closed, aligned>>
  BY <1>8 DEF Mine, Received, InStep, Ready, Consume, ReadersInv
<1>9. CASE GotResponse \/ GotEnd
  BY <1>8, <1>9, OkKeepsReaders DEF GotResponse, GotEnd
<1>10. CASE GotRefusal
  BY <1>8, <1>10, ErrorKeepsReaders DEF GotRefusal
<1>11. CASE CommandTimesOut
  BY <1>11, ErrorKeepsReaders DEF CommandTimesOut, Silent, network, ReadersInv
<1>12. CASE ListenerTimesOut
  <2>1. at["listener"] # "off" /\ UNCHANGED <<timeoutKind, session, call, closed, aligned>>
    BY <1>12 DEF ListenerTimesOut, Silent, command, network
  <2>2. CASE Failure = "Timeout"
    BY <1>12, <2>1, <2>2, RestartKeepsReaders DEF ListenerTimesOut, Readers
  <2>3. CASE Failure # "Timeout"
    <3>1. at' = [at EXCEPT !["listener"] = "off"] /\ (closed \/ timeoutKind # "TimedOut")
      BY <1>12, <2>3 DEF ListenerTimesOut, Stop, Failure
    <3> QED BY <2>1, <2>3, <3>1 DEF ReadersInv, ListenerStays, Readers, Places
  <2> QED BY <2>2, <2>3
<1>13. ASSUME NEW r \in Readers, LengthTimesOut(r) \/ Expire(r) PROVE ReadersInv'
  <2>1. at[r] # "off" /\ UNCHANGED <<closed, aligned>>
    BY <1>13 DEF LengthTimesOut, Silent, Expire, network
  <2>2. CASE r = "command" /\ \E status : ReturnError(status)
    BY <2>1, <2>2, ErrorKeepsReaders DEF ReadersInv
  <2>3. CASE (\E again : Restart(r, again)) /\ UNCHANGED <<timeoutKind, command>>
    BY <2>1, <2>3, RestartKeepsReaders DEF command
  <2> QED BY <1>13, <2>2, <2>3 DEF LengthTimesOut, Expire, Readers
<1>14. CASE Camera
  BY <1>14 DEF Camera, Answer, Signal, Arrive, Close, command, readers, ReadersInv, ListenerStays
<1>15. CASE UNCHANGED vars
  BY <1>15 DEF vars, command, readers, network, ReadersInv, ListenerStays
<1> QED
  BY <1>1, <1>2, <1>3, <1>4, <1>5, <1>6, <1>7, <1>9, <1>10, <1>11, <1>12, <1>13, <1>14, <1>15
     DEF Next, CommandReads, ListenerReads, Readers

(***************************************************************************)
(* Where a read timeout is TimedOut, no timeout, no command and no packet  *)
(* that is read in step ends the listener of an open session, only the end *)
(* of the connection or a read out of step does (commands.rs:103-109).     *)
(***************************************************************************)
THEOREM ListenerIsKept == Spec => []ListenerStays
<1>1. ReadersInv => ListenerStays
  BY DEF ReadersInv
<1> QED
  BY <1>1, ReadersInit, ReadersNext, PTL DEF Spec
=============================================================================
