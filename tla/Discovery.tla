----------------------------- MODULE Discovery -----------------------------
(***************************************************************************)
(* discover_cameras (discovery.rs): one thread, one UDP socket and a       *)
(* clock.  Each attempt sends a request to every destination and then      *)
(* receives until the clock, the number of cameras or a silent socket      *)
(* stops it; between attempts the thread sleeps.                           *)
(*                                                                         *)
(* Time passes where the thread waits, and handling a datagram or a        *)
(* receive error takes a unit of it or none.  The socket queues datagrams  *)
(* whether or not the thread receives; how many arrive and how often       *)
(* receiving fails is not bounded.  A datagram is a record: its source     *)
(* address (src) with its family and IP address (ip), and its length,      *)
(* message type, version and port.                                         *)
(***************************************************************************)
EXTENDS Integers, Sequences, SequencesExt

CONSTANTS
    Datagrams,      \* what may arrive: [src, family, ip, len, type, version, port]
    Timeout,        \* DiscoveryConfig.timeout, in units of time
    ShortSleep,     \* the 500 ms between attempts once a camera is found
    RetryCount,     \* DiscoveryConfig.retry_count
    UseMulticast,   \* DiscoveryConfig.use_multicast
    Limit,          \* the maximum number of cameras (10 in the code)
    MaxQueue        \* bound on the datagrams the socket queues

ASSUME DiscoveryAssumption ==
    /\ Timeout \in Nat \ {0, 1}
    /\ ShortSleep \in Nat \ {0}
    /\ RetryCount \in Nat
    /\ UseMulticast \in BOOLEAN
    /\ Limit \in Nat
    /\ MaxQueue \in Nat

VARIABLES
    pc,         \* "socket", "send", "listen", "recv", "rest", "done" or "failed"
    attempt,
    sent,       \* requests sent in this attempt
    now,        \* start_time.elapsed()
    waited,     \* how long this recv_from has waited
    inbox,      \* datagrams queued by the socket
    seen,       \* seen_addrs
    cameras     \* <<ip, port>> of the cameras found

vars == <<pc, attempt, sent, now, waited, inbox, seen, cameras>>

\* The broadcast address, and the multicast address.
Destinations == IF UseMulticast THEN 2 ELSE 1

NothingDone ==
    /\ attempt = 1 /\ sent = 0
    /\ now = 0 /\ waited = 0
    /\ inbox = <<>> /\ seen = {} /\ cameras = <<>>

Init == pc = "socket" /\ NothingDone

(***************************************************************************)
(* The socket is bound and joins the multicast group; the clock starts.    *)
(***************************************************************************)
OpenSocket ==
    /\ pc = "socket"
    /\ pc' = IF RetryCount = 0 THEN "done" ELSE "send"
    /\ UNCHANGED <<attempt, sent, now, waited, inbox, seen, cameras>>

OpenFails ==
    /\ pc = "socket"
    /\ pc' = "failed"
    /\ UNCHANGED <<attempt, sent, now, waited, inbox, seen, cameras>>

\* Faulty variant: one destination too many.
SendOneMore ==
    /\ pc = "send"
    /\ sent' = sent + 1
    /\ pc' = IF sent + 1 > Destinations THEN "listen" ELSE "send"
    /\ UNCHANGED <<attempt, now, waited, inbox, seen, cameras>>

SendRequest ==
    /\ pc = "send"
    /\ sent' = sent + 1
    /\ pc' = IF sent + 1 = Destinations THEN "listen" ELSE "send"
    /\ UNCHANGED <<attempt, now, waited, inbox, seen, cameras>>

SendFails ==
    /\ pc = "send"
    /\ pc' = "failed"
    /\ UNCHANGED <<attempt, sent, now, waited, inbox, seen, cameras>>

-----------------------------------------------------------------------------
(***************************************************************************)
(* The receive loop.                                                       *)
(***************************************************************************)
\* Faulty variant: only the number of cameras stops the loop.
StoppedByNumber == Len(cameras) >= Limit

Stopped == now > Timeout \/ Len(cameras) >= Limit

EndAttempt == pc' = IF attempt < RetryCount THEN "rest" ELSE "done"

Stop ==
    /\ pc = "listen"
    /\ Stopped
    /\ EndAttempt
    /\ UNCHANGED <<attempt, sent, now, waited, inbox, seen, cameras>>

\* Faulty variant: the clock starts in the loop.
ListenWithNewClock ==
    /\ pc = "listen"
    /\ ~Stopped
    /\ pc' = "recv"
    /\ now' = 0 /\ waited' = 0
    /\ UNCHANGED <<attempt, sent, inbox, seen, cameras>>

Listen ==
    /\ pc = "listen"
    /\ ~Stopped
    /\ pc' = "recv"
    /\ waited' = 0
    /\ UNCHANGED <<attempt, sent, now, inbox, seen, cameras>>

TimePasses == now' \in {now, now + 1}

(***************************************************************************)
(* parse_discovery_response.                                               *)
(***************************************************************************)
Accepted(d) == d.len >= 14 /\ d.type = 2 /\ d.version = 256 /\ d.family = "v4"

\* Faulty variant: only the source address is checked for duplicates.
TakeBySource ==
    /\ pc = "recv"
    /\ inbox # <<>>
    /\ LET d == Head(inbox)
           new == d.src \notin seen /\ Accepted(d)
       IN  /\ seen' = seen \cup {d.src}
           /\ cameras' = IF new THEN Append(cameras, <<d.ip, d.port>>) ELSE cameras
    /\ inbox' = Tail(inbox)
    /\ TimePasses
    /\ pc' = "listen"
    /\ UNCHANGED <<attempt, sent, waited>>

(***************************************************************************)
(* An address is remembered before its datagram is parsed; an answer is    *)
(* added unless its camera is there already.                               *)
(***************************************************************************)
Take ==
    /\ pc = "recv"
    /\ inbox # <<>>
    /\ LET d == Head(inbox)
           camera == <<d.ip, d.port>>
           new == d.src \notin seen /\ Accepted(d) /\ ~Contains(cameras, camera)
       IN  /\ seen' = seen \cup {d.src}
           /\ cameras' = IF new THEN Append(cameras, camera) ELSE cameras
    /\ inbox' = Tail(inbox)
    /\ TimePasses
    /\ pc' = "listen"
    /\ UNCHANGED <<attempt, sent, waited>>

RecvTimesOut ==
    /\ pc = "recv"
    /\ inbox = <<>> /\ waited = Timeout
    /\ EndAttempt
    /\ UNCHANGED <<attempt, sent, now, waited, inbox, seen, cameras>>

(***************************************************************************)
(* Any other receive error: the loop goes on.                              *)
(***************************************************************************)
RecvFails ==
    /\ pc = "recv"
    /\ TimePasses
    /\ pc' = "listen"
    /\ UNCHANGED <<attempt, sent, waited, inbox, seen, cameras>>

Rest ==
    /\ pc = "rest"
    /\ now' = now + (IF cameras # <<>> THEN ShortSleep ELSE Timeout \div 2)
    /\ attempt' = attempt + 1
    /\ sent' = 0
    /\ pc' = "send"
    /\ UNCHANGED <<waited, inbox, seen, cameras>>

-----------------------------------------------------------------------------
Tick ==
    /\ pc = "recv"
    /\ inbox = <<>> /\ waited < Timeout
    /\ now' = now + 1 /\ waited' = waited + 1
    /\ UNCHANGED <<pc, attempt, sent, inbox, seen, cameras>>

Arrive(d) ==
    /\ pc \notin {"socket", "done", "failed"} /\ Len(inbox) < MaxQueue
    /\ inbox' = Append(inbox, d)
    /\ UNCHANGED <<pc, attempt, sent, now, waited, seen, cameras>>

Search == OpenSocket \/ SendRequest \/ Stop \/ Listen \/ Take \/ RecvTimesOut \/ Rest \/ Tick

Next == Search \/ OpenFails \/ SendFails \/ RecvFails \/ \E d \in Datagrams : Arrive(d)

Spec == Init /\ [][Next]_vars

(***************************************************************************)
(* The thread runs and the clock advances: endless rounds of the receive   *)
(* loop, each as short as you like, take time without end.                 *)
(***************************************************************************)
SlowRound == (Take \/ RecvFails) /\ now' = now + 1

FairSpec == Spec /\ WF_vars(Search) /\ SF_vars(SlowRound)

-----------------------------------------------------------------------------
(***************************************************************************)
(* Every variable has its type.                                            *)
(***************************************************************************)
TypeOK ==
    /\ pc \in {"socket", "send", "listen", "recv", "rest", "done", "failed"}
    /\ attempt \in Nat \ {0}
    /\ sent \in 0..Destinations
    /\ now \in Nat
    /\ waited \in 0..Timeout
    /\ inbox \in Seq(Datagrams)
    /\ seen \subseteq {d.src : d \in Datagrams}
    /\ cameras \in Seq({<<d.ip, d.port>> : d \in Datagrams})

(***************************************************************************)
(* No camera is listed twice, although a device answers a broadcast and a  *)
(* multicast, from one address or from two (discovery.rs:109), and the     *)
(* list never outgrows its limit.                                          *)
(***************************************************************************)
ListIsProper == IsInjective(cameras) /\ Len(cameras) <= Limit

(***************************************************************************)
(* How long the caller can be blocked: the last recv_from may start just   *)
(* before the timeout and last another one, and what it receives is still  *)
(* handled.                                                                *)
(***************************************************************************)
Longest(x, y) == IF x > y THEN x ELSE y
DurationBound ==
    now <= 2 * Timeout + 1 + (attempt - 1) * Longest(ShortSleep, Timeout \div 2)

(***************************************************************************)
(* A defect.  "Send requests multiple times", "Sent discovery request      *)
(* attempt {}, waiting for responses..." (discovery.rs:67, 78): only the   *)
(* first attempt waits for any.  All of them share one start_time, the     *)
(* first one uses it up, and no later attempt finds a camera.              *)
(***************************************************************************)
LaterAttemptsAreDeaf == [][attempt' > 1 => cameras' = cameras]_vars

(***************************************************************************)
(* A search ends, with a list or an error, if datagrams arrive without end *)
(* and if receiving fails without end: each round of the receive loop      *)
(* looks at the one clock of the search (discovery.rs:82, 116-124).        *)
(***************************************************************************)
Over == pc \in {"done", "failed"}
SearchEnds == ~Over ~> Over
=============================================================================
