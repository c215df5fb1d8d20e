----------------------------- MODULE CDiscovery -----------------------------
(***************************************************************************)
(* The C interface of the discovery (discovery.rs): ptpip_discover_cameras *)
(* runs a search and copies its list to the C heap, ptpip_free_cameras     *)
(* gives the memory back.  One thread of C code calls them in turn.        *)
(*                                                                         *)
(* The heap holds arrays, at addresses that are used again, and strings; a *)
(* string is named by the array and the entry that point to it.  The       *)
(* caller, which is not part of the code, sets its variables to NULL and 0 *)
(* before a call and frees what they describe after it, whatever the call  *)
(* returned.                                                               *)
(***************************************************************************)
EXTENDS Discovery

CONSTANTS
    InnerNul,   \* devices whose name has a NUL inside
    MaxCalls    \* bound on the calls

ASSUME CDiscoveryAssumption == MaxCalls \in Nat

VARIABLES
    caller,     \* "idle", "search" or "returned"
    calls,
    ret,        \* what the last call returned
    outCameras, \* *out_cameras, an address or NULL
    outCount,   \* *out_count
    arrays,     \* the arrays in the heap
    strings,    \* the strings in the heap: <<address, entry>>
    fault       \* something was freed that was not there

heap == <<arrays, strings, fault>>
cvars == <<caller, calls, ret, outCameras, outCount, heap>>
allvars == <<vars, cvars>>

NULL == 0
NoArray == [n \in {} |-> NULL]

CInit ==
    /\ pc = "done" /\ NothingDone
    /\ caller = "idle" /\ calls = 0 /\ ret = 0
    /\ outCameras = NULL /\ outCount = 0
    /\ arrays = NoArray /\ strings = {} /\ fault = FALSE

-----------------------------------------------------------------------------
(***************************************************************************)
(* ptpip_discover_cameras.                                                 *)
(***************************************************************************)
StartSearch ==
    /\ pc' = "socket" /\ attempt' = 1 /\ sent' = 0
    /\ now' = 0 /\ waited' = 0 /\ inbox' = <<>> /\ seen' = {} /\ cameras' = <<>>

CallWithoutOutput ==
    /\ caller = "idle" /\ calls < MaxCalls
    /\ calls' = calls + 1
    /\ outCameras' = NULL /\ outCount' = 0
    /\ ret' = -1 /\ caller' = "returned"
    /\ UNCHANGED <<vars, heap>>

Call ==
    /\ caller = "idle" /\ calls < MaxCalls
    /\ calls' = calls + 1
    /\ outCameras' = NULL /\ outCount' = 0
    /\ caller' = "search"
    /\ StartSearch
    /\ UNCHANGED <<ret, heap>>

Searching == caller = "search" /\ Next /\ UNCHANGED cvars

\* Faulty variant: a search that failed is begun again.
SearchAgain ==
    /\ caller = "search" /\ pc = "failed"
    /\ StartSearch
    /\ UNCHANGED cvars

SearchFailed ==
    /\ caller = "search" /\ pc = "failed"
    /\ ret' = -2 /\ caller' = "returned"
    /\ UNCHANGED <<vars, calls, outCameras, outCount, heap>>

NothingFound ==
    /\ caller = "search" /\ pc = "done" /\ cameras = <<>>
    /\ outCount' = 0 /\ outCameras' = NULL
    /\ ret' = 0 /\ caller' = "returned"
    /\ UNCHANGED <<vars, calls, heap>>

(***************************************************************************)
(* rust_str_to_c: a name with a NUL inside becomes a null pointer.         *)
(***************************************************************************)
Named(camera) == camera[1] \notin InnerNul

\* Faulty variant: the last camera is left out of the array.
DeliverButLast(a) ==
    /\ caller = "search" /\ pc = "done" /\ cameras # <<>>
    /\ outCount' = Len(cameras) /\ outCameras' = a
    /\ arrays' = [b \in DOMAIN arrays \cup {a} |-> IF b = a THEN Front(cameras) ELSE arrays[b]]
    /\ strings' = strings \cup {<<a, i>> : i \in {j \in 1..(Len(cameras) - 1) : Named(cameras[j])}}
    /\ ret' = 0 /\ caller' = "returned"
    /\ UNCHANGED <<vars, calls, fault>>

Deliver(a) ==
    /\ caller = "search" /\ pc = "done" /\ cameras # <<>>
    /\ outCount' = Len(cameras) /\ outCameras' = a
    /\ arrays' = [b \in DOMAIN arrays \cup {a} |-> IF b = a THEN cameras ELSE arrays[b]]
    /\ strings' = strings \cup {<<a, i>> : i \in {j \in 1..Len(cameras) : Named(cameras[j])}}
    /\ ret' = 0 /\ caller' = "returned"
    /\ UNCHANGED <<vars, calls, fault>>

(***************************************************************************)
(* calloc fails: the count is set, the array is not.                       *)
(***************************************************************************)
AllocationFails ==
    /\ caller = "search" /\ pc = "done" /\ cameras # <<>>
    /\ outCount' = Len(cameras)
    /\ ret' = -3 /\ caller' = "returned"
    /\ UNCHANGED <<vars, calls, outCameras, heap>>

-----------------------------------------------------------------------------
\* Faulty variant: only the count is looked at.
FreeAnyPointer ==
    /\ caller = "returned"
    /\ caller' = "idle"
    /\ IF outCount = 0
       THEN UNCHANGED heap
       ELSE /\ fault' = (fault \/ outCameras \notin DOMAIN arrays)
            /\ strings' = {s \in strings : s[1] # outCameras}
            /\ arrays' = [b \in DOMAIN arrays \ {outCameras} |-> arrays[b]]
    /\ UNCHANGED <<vars, calls, ret, outCameras, outCount>>

\* Faulty variant: the strings are forgotten.
FreeArrayOnly ==
    /\ caller = "returned"
    /\ caller' = "idle"
    /\ arrays' = [b \in DOMAIN arrays \ {outCameras} |-> arrays[b]]
    /\ UNCHANGED <<vars, calls, ret, outCameras, outCount, strings, fault>>

(***************************************************************************)
(* ptpip_free_cameras(outCameras, outCount): the names that are not null,  *)
(* then the array.                                                         *)
(***************************************************************************)
Free ==
    /\ caller = "returned"
    /\ caller' = "idle"
    /\ IF outCameras = NULL \/ outCount = 0
       THEN UNCHANGED heap
       ELSE /\ fault' = (fault \/ outCameras \notin DOMAIN arrays
                              \/ outCount > Len(arrays[outCameras]))
            /\ strings' = strings \ ({outCameras} \X (1..outCount))
            /\ arrays' = [b \in DOMAIN arrays \ {outCameras} |-> arrays[b]]
    /\ UNCHANGED <<vars, calls, ret, outCameras, outCount>>

-----------------------------------------------------------------------------
Return ==
    \/ SearchFailed \/ NothingFound \/ AllocationFails
    \/ \E a \in (1..MaxCalls) \ DOMAIN arrays : Deliver(a)

CNext == CallWithoutOutput \/ Call \/ Searching \/ Return \/ Free

CSpec == CInit /\ [][CNext]_allvars

(***************************************************************************)
(* The thread runs, in the search and after it, and its clock advances.    *)
(***************************************************************************)
CFairSpec ==
    /\ CSpec
    /\ WF_allvars(caller = "search" /\ Search /\ UNCHANGED cvars)
    /\ SF_allvars(caller = "search" /\ SlowRound /\ UNCHANGED cvars)
    /\ WF_allvars(Return)

-----------------------------------------------------------------------------
(***************************************************************************)
(* What the variables of the caller describe after a call is what is in    *)
(* the heap: the cameras of the search, all of them, only after a success; *)
(* and nothing after any of the failures, the allocation's included, which *)
(* leaves a count without an array (discovery.rs:277-294).                 *)
(***************************************************************************)
OutputMatches ==
    caller = "returned" =>
        IF outCameras = NULL
        THEN ret = 0 => outCount = 0
        ELSE /\ ret = 0
             /\ outCameras \in DOMAIN arrays
             /\ arrays[outCameras] = cameras /\ outCount = Len(cameras)

(***************************************************************************)
(* A caller that frees after every call, successful or not, gives back     *)
(* each array and each string, and no string of a null name is missed      *)
(* (discovery.rs:318-336).                                                 *)
(***************************************************************************)
NothingLeaks == caller = "idle" => arrays = NoArray /\ strings = {}

(***************************************************************************)
(* Nothing is freed that is not there: not the array of a failed           *)
(* allocation, for which there is a count (discovery.rs:277-294), and none *)
(* of an earlier call again.                                               *)
(***************************************************************************)
NoBadFree == ~fault

(***************************************************************************)
(* A call of ptpip_discover_cameras returns.                               *)
(***************************************************************************)
DiscoverReturns == caller = "search" ~> caller = "returned"
=============================================================================
