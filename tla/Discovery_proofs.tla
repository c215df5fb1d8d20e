-------------------------- MODULE Discovery_proofs --------------------------
(***************************************************************************)
(* Proofs about Discovery, for every timeout, sleep, number of attempts    *)
(* and set of datagrams, and about CDiscovery, which searches with it.     *)
(***************************************************************************)
EXTENDS CDiscovery, TLAPS

Found == {<<d.ip, d.port>> : d \in Datagrams}

(***************************************************************************)
(* The clock when an attempt may listen, rest or be over.  Only the first  *)
(* attempt reaches recv_from, because it ends with the timeout used up or  *)
(* the list full, and the sleep does the rest.                             *)
(***************************************************************************)
ClockInv ==
    /\ pc \in {"socket", "send", "listen", "recv", "rest", "done", "failed"}
    /\ attempt \in Nat \ {0}
    /\ now \in Nat /\ waited \in 0..Timeout
    /\ inbox \in Seq(Datagrams)
    /\ cameras \in Seq(Found)
    /\ pc = "recv" => attempt = 1 /\ now >= waited /\ now <= Timeout + waited
    /\ pc = "rest" => now >= Timeout \/ Len(cameras) >= Limit
    /\ attempt > 1 => Stopped
    /\ attempt = 1 => now <= 2 * Timeout + 1
    /\ DurationBound

LEMMA ClockInit == Init => ClockInv
<1> SUFFICES ASSUME Init PROVE ClockInv
  OBVIOUS
<1>1. 0 <= 2 * Timeout + 1 /\ 0 \in 0..Timeout
  BY DiscoveryAssumption
<1>2. DurationBound
  <2>1. Longest(ShortSleep, Timeout \div 2) \in Nat
    BY DiscoveryAssumption DEF Longest
  <2>2. attempt - 1 = 0 /\ now = 0
    BY DEF Init, NothingDone
  <2>3. (attempt - 1) * Longest(ShortSleep, Timeout \div 2) = 0
    BY <2>1, <2>2
  <2> QED BY <1>1, <2>2, <2>3, DiscoveryAssumption DEF DurationBound
<1> QED
  BY <1>1, <1>2 DEF Init, NothingDone, ClockInv

(***************************************************************************)
(* A sleep is at least one unit of time and at most the longest one.       *)
(***************************************************************************)
LEMMA RestKeepsClock == ClockInv /\ Rest => ClockInv'
<1> SUFFICES ASSUME ClockInv, Rest PROVE ClockInv'
  OBVIOUS
<1> DEFINE longest == Longest(ShortSleep, Timeout \div 2)
           sleep == IF cameras # <<>> THEN ShortSleep ELSE Timeout \div 2
<1>1. longest \in Nat /\ sleep \in Nat /\ 1 <= sleep /\ sleep <= longest
  BY DiscoveryAssumption DEF Longest
<1>2. /\ now' = now + sleep /\ attempt' = attempt + 1 /\ pc' = "send"
      /\ UNCHANGED <<waited, inbox, cameras>>
  BY DEF Rest
<1>3. now \in Nat /\ attempt \in Nat \ {0} /\ now <= 2 * Timeout + 1 + (attempt - 1) * longest
  BY DEF ClockInv, DurationBound
<1>4. Stopped'
  BY <1>1, <1>2, <1>3, DiscoveryAssumption DEF Rest, ClockInv, Stopped
<1> HIDE DEF longest, sleep
<1>5. now' <= 2 * Timeout + 1 + (attempt' - 1) * longest
  <2>1. (attempt - 1) * longest + longest = attempt * longest
    BY <1>1, <1>3
  <2>2. attempt' - 1 = attempt
    BY <1>2, <1>3
  <2>3. (attempt - 1) * longest \in Int /\ attempt * longest \in Int
    BY <1>1, <1>3
  <2> QED BY <1>1, <1>2, <1>3, <2>1, <2>2, <2>3, DiscoveryAssumption
<1> QED
  BY <1>1, <1>2, <1>3, <1>4, <1>5 DEF ClockInv, DurationBound, longest

(***************************************************************************)
(* A round of the receive loop takes a unit of time at most, and only the  *)
(* first attempt has any.                                                  *)
(***************************************************************************)
LEMMA RoundKeepsClock ==
    ASSUME ClockInv, pc = "recv", TimePasses, UNCHANGED attempt
    PROVE  now' \in Nat /\ now' <= 2 * Timeout + 1 /\ DurationBound'
<1>1. /\ attempt = 1 /\ attempt' = 1 /\ now \in Nat /\ waited \in 0..Timeout
      /\ now <= Timeout + waited
  BY DEF ClockInv
<1>2. now' \in Nat /\ now' <= 2 * Timeout + 1
  BY <1>1, DiscoveryAssumption DEF TimePasses
<1>3. (attempt' - 1) * Longest(ShortSleep, Timeout \div 2) = 0
  <2>1. Longest(ShortSleep, Timeout \div 2) \in Nat
    BY DiscoveryAssumption DEF Longest
  <2> QED BY <1>1, <2>1
<1> QED
  BY <1>2, <1>3, DiscoveryAssumption DEF DurationBound

LEMMA ClockNext == ClockInv /\ [Next]_vars => ClockInv'
<1> SUFFICES ASSUME ClockInv, [Next]_vars PROVE ClockInv'
  OBVIOUS
<1> USE DiscoveryAssumption DEF ClockInv, Stopped, EndAttempt
<1>1. CASE SendRequest
  BY <1>1 DEF SendRequest, DurationBound
<1>2. CASE SendFails
  BY <1>2 DEF SendFails, DurationBound
<1>3. CASE Stop
  BY <1>3 DEF Stop, DurationBound
<1>4. CASE Listen
  BY <1>4 DEF Listen, DurationBound
<1>5. CASE Take
  <2>1. /\ pc' = "listen" /\ pc = "recv" /\ inbox' = Tail(inbox)
        /\ UNCHANGED <<attempt, waited>>
    BY <1>5 DEF Take
  <2>2. Head(inbox) \in Datagrams /\ Tail(inbox) \in Seq(Datagrams)
    BY <1>5 DEF Take
  <2>3. cameras' \in Seq(Found)
    BY <1>5, <2>2 DEF Take, Found
  <2>4. now' \in Nat /\ now' <= 2 * Timeout + 1 /\ DurationBound'
    BY <1>5, RoundKeepsClock DEF Take
  <2> QED BY <2>1, <2>2, <2>3, <2>4
<1>6. CASE RecvTimesOut
  BY <1>6 DEF RecvTimesOut, DurationBound
<1>7. CASE RecvFails
  <2>1. pc' = "listen" /\ pc = "recv" /\ UNCHANGED <<attempt, waited, inbox, cameras>>
    BY <1>7 DEF RecvFails
  <2>2. now' \in Nat /\ now' <= 2 * Timeout + 1 /\ DurationBound'
    BY <1>7, RoundKeepsClock DEF RecvFails
  <2> QED BY <2>1, <2>2
<1>8. CASE Rest
  BY <1>8, RestKeepsClock
<1>9. CASE Tick
  <2>1. /\ attempt = 1 /\ attempt' = 1 /\ now' = now + 1 /\ waited' = waited + 1
        /\ waited < Timeout /\ UNCHANGED <<pc, inbox, cameras>>
    BY <1>9 DEF Tick
  <2>2. now' <= 2 * Timeout
    <3>1. now <= Timeout + waited /\ now \in Nat /\ waited \in Nat
      BY <1>9 DEF Tick
    <3> QED BY <2>1, <3>1
  <2>3. (attempt' - 1) * Longest(ShortSleep, Timeout \div 2) = 0
    <3>1. Longest(ShortSleep, Timeout \div 2) \in Nat
      BY DEF Longest
    <3> QED BY <2>1, <3>1
  <2>4. now' \in Nat /\ now' <= 2 * Timeout + 1 /\ DurationBound'
    BY <2>1, <2>2, <2>3 DEF DurationBound
  <2> QED BY <2>1, <2>2, <2>4, <1>9 DEF Tick
<1>10. CASE \E d \in Datagrams : Arrive(d)
  BY <1>10 DEF Arrive, DurationBound
<1>11. CASE OpenSocket
  BY <1>11 DEF OpenSocket, DurationBound
<1>12. CASE OpenFails
  BY <1>12 DEF OpenFails, DurationBound
<1>13. CASE UNCHANGED vars
  BY <1>13 DEF vars, DurationBound
<1> QED
  BY <1>12, <1>13, <1>1, <1>2, <1>3, <1>4, <1>5, <1>6, <1>7, <1>8, <1>9, <1>10, <1>11 DEF Next, Search

LEMMA ClockInvariant == Spec => []ClockInv
BY ClockInit, ClockNext, PTL DEF Spec

(***************************************************************************)
(* The search never takes longer than two timeouts, the handling of what   *)
(* is received last, and the sleeps, however much arrives and however      *)
(* often receiving fails (discovery.rs:67-136).                            *)
(***************************************************************************)
THEOREM DurationIsBounded == Spec => []DurationBound
<1>1. ClockInv => DurationBound
  BY DEF ClockInv
<1> QED
  BY <1>1, ClockInvariant, PTL

(***************************************************************************)
(* A defect, proved: whatever the timeout and the sleeps, the attempts     *)
(* after the first find nothing, because the clock that was started before *)
(* the first (discovery.rs:64) stops their loops (discovery.rs:82) at      *)
(* once.                                                                   *)
(***************************************************************************)
THEOREM OnlyFirstAttemptFinds == Spec => LaterAttemptsAreDeaf
<1>1. ClockInv /\ [Next]_vars => [attempt' > 1 => cameras' = cameras]_vars
  <2> SUFFICES ASSUME ClockInv, [Next]_vars, attempt' > 1 PROVE cameras' = cameras
    BY DEF vars
  <2>1. CASE Take
    <3>1. attempt = 1
      BY <2>1 DEF Take, ClockInv
    <3>2. attempt' = attempt
      BY <2>1 DEF Take
    <3> QED BY <3>1, <3>2
  <2>2. CASE ~Take
    BY <2>2 DEF Next, Search, OpenSocket, OpenFails, SendRequest, SendFails, Stop, Listen,
                RecvTimesOut, RecvFails, Rest, Tick, Arrive, vars
  <2> QED BY <2>1, <2>2
<1> QED
  BY <1>1, ClockInvariant, PTL DEF Spec, LaterAttemptsAreDeaf
-----------------------------------------------------------------------------
(***************************************************************************)
(* A camera is added only where the loop was not stopped, and only if it   *)
(* is not in the list (discovery.rs:82-113).                               *)
(***************************************************************************)
ListInv ==
    /\ cameras \in Seq(Found) /\ inbox \in Seq(Datagrams)
    /\ ListIsProper
    /\ pc = "recv" => Len(cameras) < Limit

LEMMA ListInit == Init => ListInv
<1> SUFFICES ASSUME Init PROVE ListInv
  OBVIOUS
<1>1. cameras = <<>> /\ inbox = <<>> /\ pc = "socket"
  BY DEF Init, NothingDone
<1> QED
  BY <1>1, DiscoveryAssumption DEF ListInv, ListIsProper, IsInjective

LEMMA TakeKeepsList == ASSUME ListInv, Take PROVE ListInv'
<1> DEFINE d == Head(inbox)
           camera == <<d.ip, d.port>>
<1>1. /\ pc = "recv" /\ pc' = "listen" /\ inbox # <<>> /\ inbox' = Tail(inbox)
      /\ cameras' = cameras \/ (cameras' = Append(cameras, camera) /\ ~Contains(cameras, camera))
  BY DEF Take
<1>2. d \in Datagrams /\ inbox' \in Seq(Datagrams)
  BY <1>1 DEF ListInv
<1>3. /\ cameras \in Seq(Found) /\ Len(cameras) \in Nat /\ Len(cameras) < Limit
      /\ \A i, j \in 1..Len(cameras) : cameras[i] = cameras[j] => i = j
  BY <1>1 DEF ListInv, ListIsProper, IsInjective
<1>4. CASE cameras' = cameras
  BY <1>1, <1>2, <1>4 DEF ListInv, ListIsProper
<1>5. CASE cameras' = Append(cameras, camera) /\ ~Contains(cameras, camera)
  <2>1. camera \in Found
    BY <1>2 DEF Found
  <2>2. \A i \in 1..Len(cameras) : cameras[i] # camera
    BY <1>5 DEF Contains
  <2> HIDE DEF camera, d
  <2>3. /\ cameras' \in Seq(Found) /\ Len(cameras') = Len(cameras) + 1
        /\ cameras'[Len(cameras) + 1] = camera
        /\ \A i \in 1..Len(cameras) : cameras'[i] = cameras[i]
    BY <1>3, <1>5, <2>1
  <2>4. \A i \in 1..Len(cameras') : i \in 1..Len(cameras) \/ i = Len(cameras) + 1
    BY <1>3, <2>3
  <2>5. \A i, j \in 1..Len(cameras') : cameras'[i] = cameras'[j] => i = j
    BY <1>3, <2>2, <2>3, <2>4
  <2>6. DOMAIN cameras' = 1..Len(cameras') /\ Len(cameras') <= Limit
    BY <1>3, <2>3, DiscoveryAssumption
  <2> QED BY <1>1, <1>2, <2>3, <2>5, <2>6 DEF ListInv, ListIsProper, IsInjective
<1> QED
  BY <1>1, <1>4, <1>5

LEMMA ListNext == ListInv /\ [Next]_vars => ListInv'
<1> SUFFICES ASSUME ListInv, [Next]_vars PROVE ListInv'
  OBVIOUS
<1>1. CASE Take
  BY <1>1, TakeKeepsList
<1>2. CASE Listen
  BY <1>2, DiscoveryAssumption DEF Listen, Stopped, ListInv, ListIsProper
<1>3. CASE \E d \in Datagrams : Arrive(d)
  BY <1>3 DEF Arrive, ListInv, ListIsProper
<1>4. CASE OpenSocket \/ OpenFails \/ SendRequest \/ SendFails \/ Stop \/ RecvTimesOut \/ RecvFails
           \/ Rest
  <2>1. UNCHANGED <<inbox, cameras>> /\ pc' # "recv"
    BY <1>4 DEF OpenSocket, OpenFails, SendRequest, SendFails, Stop, RecvTimesOut, RecvFails, Rest,
                EndAttempt
  <2> QED BY <2>1 DEF ListInv, ListIsProper
<1>5. CASE Tick \/ UNCHANGED vars
  BY <1>5 DEF Tick, vars, ListInv, ListIsProper
<1> QED
  BY <1>1, <1>2, <1>3, <1>4, <1>5 DEF Next, Search

(***************************************************************************)
(* No camera is listed twice and the list never outgrows its limit, for    *)
(* any number of datagrams from any addresses (discovery.rs:86-113).       *)
(***************************************************************************)
THEOREM ListStaysProper == Spec => []ListIsProper
<1>1. ListInv => ListIsProper
  BY DEF ListInv
<1> QED
  BY <1>1, ListInit, ListNext, PTL DEF Spec
(***************************************************************************)
(* The type invariant, with where the sender is while it sends             *)
(* (discovery.rs:67-76).                                                   *)
(***************************************************************************)
SendInv ==
    /\ TypeOK
    /\ pc = "socket" => sent = 0
    /\ pc = "send" => sent < Destinations

LEMMA DestinationsBounds == Destinations \in Nat /\ Destinations >= 1
BY DEF Destinations

LEMMA SendInit == Init => SendInv
<1> SUFFICES ASSUME Init PROVE SendInv
  OBVIOUS
<1>1. /\ pc = "socket" /\ attempt = 1 /\ sent = 0 /\ now = 0 /\ waited = 0
      /\ inbox = <<>> /\ seen = {} /\ cameras = <<>>
  BY DEF Init, NothingDone
<1>2. 0 \in 0..Destinations /\ 0 \in 0..Timeout
  BY DestinationsBounds, DiscoveryAssumption
<1>3. inbox \in Seq(Datagrams) /\ cameras \in Seq({<<d.ip, d.port>> : d \in Datagrams})
  BY <1>1
<1>5. seen \subseteq {d.src : d \in Datagrams}
  BY <1>1, Zenon
<1>6. attempt \in Nat \ {0} /\ now \in Nat
  BY <1>1
<1> QED
  BY <1>1, <1>2, <1>3, <1>5, <1>6, Zenon DEF SendInv, TypeOK

LEMMA TakeKeepsTypes == ASSUME SendInv, Take PROVE SendInv'
<1>1. Head(inbox) \in Datagrams /\ Tail(inbox) \in Seq(Datagrams)
  BY DEF Take, SendInv, TypeOK
<1>2. /\ inbox' \in Seq(Datagrams) /\ pc' = "listen"
      /\ UNCHANGED <<attempt, sent, waited>> /\ now' \in Nat
  BY <1>1 DEF Take, TimePasses, SendInv, TypeOK
<1>3. seen' \subseteq {d.src : d \in Datagrams}
  BY <1>1 DEF Take, SendInv, TypeOK
<1>4. cameras' \in Seq({<<d.ip, d.port>> : d \in Datagrams})
  BY <1>1 DEF Take, SendInv, TypeOK
<1> QED
  BY <1>2, <1>3, <1>4 DEF SendInv, TypeOK

LEMMA SendNext == SendInv /\ [Next]_vars => SendInv'
<1> SUFFICES ASSUME SendInv, [Next]_vars PROVE SendInv'
  OBVIOUS
<1> USE DiscoveryAssumption DEF SendInv, TypeOK, EndAttempt
<1>1. CASE OpenSocket
  BY <1>1, DestinationsBounds DEF OpenSocket
<1>2. CASE OpenFails \/ SendFails
  BY <1>2 DEF OpenFails, SendFails
<1>3. CASE SendRequest
  BY <1>3, DestinationsBounds DEF SendRequest
<1>4. CASE Stop \/ Listen
  <2>1. pc' \in {"rest", "done", "recv"}
    BY <1>4 DEF Stop, Listen
  <2>3. waited' \in 0..Timeout
    BY <1>4 DEF Stop, Listen
  <2>2. UNCHANGED <<attempt, sent, now, inbox, seen, cameras>>
    BY <1>4 DEF Stop, Listen
  <2> QED BY <2>1, <2>2, <2>3
<1>5. CASE Take
  BY <1>5, TakeKeepsTypes
<1>6. CASE RecvTimesOut \/ RecvFails
  BY <1>6 DEF RecvTimesOut, RecvFails, TimePasses
<1>7. CASE Rest
  <2>1. now' \in Nat /\ attempt' \in Nat \ {0}
    BY <1>7 DEF Rest
  <2>2. /\ pc' = "send" /\ sent' = 0
        /\ UNCHANGED <<waited, inbox, seen, cameras>>
    BY <1>7 DEF Rest
  <2>3. 0 \in 0..Destinations /\ 0 < Destinations
    BY DestinationsBounds
  <2> QED BY <2>1, <2>2, <2>3
<1>8. CASE Tick
  BY <1>8 DEF Tick
<1>9. CASE \E d \in Datagrams : Arrive(d)
  BY <1>9 DEF Arrive
<1>10. CASE UNCHANGED vars
  BY <1>10 DEF vars
<1> QED
  BY <1>1, <1>2, <1>3, <1>4, <1>5, <1>6, <1>7, <1>8, <1>9, <1>10 DEF Next, Search

(***************************************************************************)
(* Every variable of the search keeps its type.                            *)
(***************************************************************************)
THEOREM TypeCorrect == Spec => []TypeOK
<1>1. SendInv => TypeOK
  BY DEF SendInv
<1> QED
  BY <1>1, SendInit, SendNext, PTL DEF Spec

-----------------------------------------------------------------------------
(***************************************************************************)
(* CDiscovery: the memory of the C interface, for any number of calls, any *)
(* search and any names.                                                   *)
(***************************************************************************)

(***************************************************************************)
(* Between calls and while one searches the heap is empty.  After a call   *)
(* it holds nothing, or one array with the cameras of the search, which    *)
(* the variables of the caller describe, and strings of its entries.       *)
(***************************************************************************)
Handed ==
    /\ ret = 0 /\ outCount = Len(cameras) /\ cameras # <<>>
    /\ arrays = [a \in {outCameras} |-> cameras]
    /\ strings \subseteq {outCameras} \X (1..outCount)

Empty == arrays = NoArray /\ strings = {}

HeapInv ==
    /\ cameras \in Seq(Found) /\ inbox \in Seq(Datagrams)
    /\ caller \in {"idle", "search", "returned"}
    /\ fault = FALSE
    /\ caller # "returned" => Empty
    /\ caller = "search" => outCameras = NULL
    /\ caller = "returned" =>
           IF outCameras = NULL THEN Empty /\ (ret = 0 => outCount = 0) ELSE Handed

LEMMA HeapInit == CInit => HeapInv
BY DEF CInit, NothingDone, HeapInv, Empty

(***************************************************************************)
(* A step of the search adds cameras from datagrams that arrived.          *)
(***************************************************************************)
LEMMA SearchKeepsTypes ==
    ASSUME cameras \in Seq(Found), inbox \in Seq(Datagrams), Next
    PROVE  cameras' \in Seq(Found) /\ inbox' \in Seq(Datagrams)
<1>1. CASE Take
  <2>1. Head(inbox) \in Datagrams /\ Tail(inbox) \in Seq(Datagrams) /\ inbox' = Tail(inbox)
    BY <1>1 DEF Take
  <2>2. cameras' \in Seq(Found)
    BY <1>1, <2>1 DEF Take, Found
  <2> QED BY <2>1, <2>2
<1>2. CASE \E d \in Datagrams : Arrive(d)
  BY <1>2 DEF Arrive
<1>3. CASE ~Take /\ ~\E d \in Datagrams : Arrive(d)
  BY <1>3 DEF Next, Search, OpenSocket, OpenFails, SendRequest, SendFails, Stop, Listen,
              RecvTimesOut, RecvFails, Rest, Tick
<1> QED
  BY <1>1, <1>2, <1>3

LEMMA FreeEmptiesHeap == ASSUME HeapInv, Free PROVE HeapInv'
<1>1. caller = "returned" /\ caller' = "idle" /\ UNCHANGED <<cameras, inbox>>
  BY DEF Free, vars
<1>2. CASE outCameras = NULL
  BY <1>1, <1>2 DEF Free, heap, HeapInv, Empty
<1>3. CASE outCameras # NULL
  <2>1. Handed
    BY <1>1, <1>3 DEF HeapInv
  <2>2. Len(cameras) \in Nat /\ Len(cameras) # 0
    BY <2>1 DEF HeapInv, Handed
  <2>3. DOMAIN arrays = {outCameras} /\ arrays[outCameras] = cameras /\ outCount # 0
    BY <2>1, <2>2 DEF Handed
  <2>4. /\ fault' = (fault \/ outCameras \notin DOMAIN arrays
                           \/ outCount > Len(arrays[outCameras]))
        /\ strings' = strings \ ({outCameras} \X (1..outCount))
        /\ arrays' = [b \in DOMAIN arrays \ {outCameras} |-> arrays[b]]
    BY <1>3, <2>3 DEF Free
  <2>5. fault' = FALSE
    <3>1. outCount = Len(cameras) /\ ~(outCount > Len(cameras))
      BY <2>1, <2>2 DEF Handed
    <3>2. outCameras \in DOMAIN arrays /\ fault = FALSE
      BY <2>3 DEF HeapInv
    <3>3. ~(outCount > Len(arrays[outCameras]))
      BY <2>3, <3>1
    <3> QED BY <2>4, <3>2, <3>3
  <2>6. strings' = {}
    BY <2>1, <2>4 DEF Handed
  <2>7. arrays' = NoArray
    BY <2>3, <2>4 DEF NoArray
  <2> QED BY <1>1, <2>5, <2>6, <2>7 DEF HeapInv, Empty
<1> QED
  BY <1>2, <1>3

LEMMA DeliverHandsOver ==
    ASSUME HeapInv, NEW a \in 1..MaxCalls, Deliver(a) PROVE HeapInv'
<1>1. /\ caller = "search" /\ caller' = "returned" /\ cameras # <<>>
      /\ outCount' = Len(cameras) /\ outCameras' = a /\ ret' = 0
      /\ UNCHANGED <<cameras, inbox, fault>>
  BY DEF Deliver, vars
<1>2. arrays = NoArray /\ strings = {}
  BY <1>1 DEF HeapInv, Empty
<1>3. arrays' = [b \in {a} |-> cameras]
  <2>1. DOMAIN arrays \cup {a} = {a}
    BY <1>2 DEF NoArray
  <2>2. arrays' = [b \in DOMAIN arrays \cup {a} |-> IF b = a THEN cameras ELSE arrays[b]]
    BY DEF Deliver
  <2> QED BY <2>1, <2>2
<1>4. strings' \subseteq {a} \X (1..Len(cameras))
  <2>1. strings' = strings \cup {<<a, i>> : i \in {j \in 1..Len(cameras) : Named(cameras[j])}}
    BY DEF Deliver
  <2> QED BY <1>2, <2>1
<1>5. a # NULL
  BY CDiscoveryAssumption DEF NULL
<1> QED
  BY <1>1, <1>3, <1>4, <1>5 DEF HeapInv, Handed

LEMMA HeapNext == HeapInv /\ [CNext]_allvars => HeapInv'
<1> SUFFICES ASSUME HeapInv, [CNext]_allvars PROVE HeapInv'
  OBVIOUS
<1>1. CASE CallWithoutOutput
  BY <1>1 DEF CallWithoutOutput, vars, heap, HeapInv, Empty
<1>2. CASE Call
  <2>1. cameras' \in Seq(Found) /\ inbox' \in Seq(Datagrams)
    BY <1>2 DEF Call, StartSearch
  <2> QED BY <1>2, <2>1 DEF Call, heap, HeapInv, Empty
<1>3. CASE Searching
  <2>1. cameras' \in Seq(Found) /\ inbox' \in Seq(Datagrams)
    BY <1>3, SearchKeepsTypes DEF Searching, HeapInv
  <2> QED BY <1>3, <2>1 DEF Searching, cvars, heap, HeapInv, Empty
<1>4. ASSUME caller' = "returned", outCameras' = NULL, ret' # 0 \/ outCount' = 0, caller = "search",
             UNCHANGED <<vars, heap>>
      PROVE  HeapInv'
  BY <1>4 DEF vars, heap, HeapInv, Empty
<1>5. caller = "search" => outCameras = NULL
  BY DEF HeapInv
<1>6. CASE SearchFailed \/ NothingFound \/ AllocationFails
  BY <1>4, <1>5, <1>6 DEF SearchFailed, NothingFound, AllocationFails
<1>7. CASE \E a \in (1..MaxCalls) \ DOMAIN arrays : Deliver(a)
  BY <1>7, DeliverHandsOver
<1>8. CASE Free
  BY <1>8, FreeEmptiesHeap
<1>9. CASE UNCHANGED allvars
  BY <1>9 DEF allvars, vars, cvars, heap, HeapInv, Handed, Empty
<1> QED
  BY <1>1, <1>2, <1>3, <1>6, <1>7, <1>8, <1>9 DEF CNext, Return

(***************************************************************************)
(* What a call of ptpip_discover_cameras returns is what is in the heap:   *)
(* the cameras of the search after a success, nothing after a failure, the *)
(* allocation's included (discovery.rs:255-313).                           *)
(***************************************************************************)
THEOREM OutputIsHeap == CSpec => []OutputMatches
<1>1. HeapInv => OutputMatches
  BY DEF HeapInv, Handed, Empty, OutputMatches
<1> QED
  BY <1>1, HeapInit, HeapNext, PTL DEF CSpec

(***************************************************************************)
(* A caller that frees after every call leaves nothing in the heap,        *)
(* whatever search and allocation do and whichever names are null          *)
(* (discovery.rs:315-336).                                                 *)
(***************************************************************************)
THEOREM HeapIsGivenBack == CSpec => []NothingLeaks
<1>1. HeapInv => NothingLeaks
  BY DEF HeapInv, Empty, NothingLeaks
<1> QED
  BY <1>1, HeapInit, HeapNext, PTL DEF CSpec

(***************************************************************************)
(* Nothing is freed that is not there, although a failed allocation leaves *)
(* a count (discovery.rs:277).                                             *)
(***************************************************************************)
THEOREM FreesWhatIsThere == CSpec => []NoBadFree
<1>1. HeapInv => NoBadFree
  BY DEF HeapInv, NoBadFree
<1> QED
  BY <1>1, HeapInit, HeapNext, PTL DEF CSpec
=============================================================================
