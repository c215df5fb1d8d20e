------------------------------ MODULE Session ------------------------------
(***************************************************************************)
(* ptpip_create_session and Session::connect (session.rs): the address, a  *)
(* TCP connection, OpenSession through send_command, and its response.     *)
(* One caller in C, one call.  What may stand in the way of a session      *)
(* outside this code is recorded in `obstacle'.                            *)
(***************************************************************************)
EXTENDS Send

VARIABLES
    phase,      \* "none", "dial", "open", "sending" or "returned"
    handle,     \* what the call returned
    obstacle    \* "none", "address", "network" or "camera"

svars == <<phase, handle, obstacle>>

NULL == "null"

\* The parameters of OpenSession: the version, u16, and a reserved u32.
OpenBytes == 2 + 4

SInit == Init /\ phase = "none" /\ handle = NULL /\ obstacle = "none"

Fails(o) == phase' = "returned" /\ handle' = NULL /\ obstacle' = o

(***************************************************************************)
(* ptpip_create_session: no address, or one that is not UTF-8, is refused. *)
(***************************************************************************)
NoAddress == phase = "none" /\ Fails("address") /\ UNCHANGED vars

Create ==
    /\ phase = "none"
    /\ phase' = "dial"
    /\ UNCHANGED <<vars, handle, obstacle>>

-----------------------------------------------------------------------------
(***************************************************************************)
(* Session::connect: the TCP connection, with its timeouts.                *)
(***************************************************************************)
DialFails == phase = "dial" /\ Fails("network") /\ UNCHANGED vars

Dial ==
    /\ phase = "dial"
    /\ phase' = "open"
    /\ UNCHANGED <<vars, handle, obstacle>>

(***************************************************************************)
(* send_open_session: send_command, then get_response; the session id is   *)
(* in the payload.                                                         *)
(***************************************************************************)
Open ==
    /\ phase = "open"
    /\ Command(OpenBytes)
    /\ phase' = "sending"
    /\ UNCHANGED <<handle, obstacle>>

OpenRejected == phase = "open" /\ CommandRejected(OpenBytes) /\ Fails(obstacle)

OpenSending == phase = "sending" /\ Sending /\ UNCHANGED svars

NotSent == phase = "sending" /\ result = "Other" /\ Fails("network") /\ UNCHANGED vars

NoResponse == phase = "sending" /\ result = "ok" /\ Fails("camera") /\ UNCHANGED vars

Opened ==
    /\ phase = "sending" /\ result = "ok"
    /\ phase' = "returned" /\ handle' = "session"
    /\ UNCHANGED <<vars, obstacle>>

-----------------------------------------------------------------------------
SNext ==
    \/ NoAddress \/ Create
    \/ DialFails \/ Dial
    \/ Open \/ OpenRejected \/ OpenSending
    \/ NotSent \/ NoResponse \/ Opened

SSpec == SInit /\ [][SNext]_<<vars, svars>>

-----------------------------------------------------------------------------
(***************************************************************************)
(* README.md:20, "Session: TCP session lifecycle": where the address is    *)
(* good, the camera can be reached and answers, ptpip_create_session gives *)
(* a session (session.rs:256).                                             *)
(***************************************************************************)
SessionIsCreated == phase = "returned" /\ handle = NULL => obstacle # "none"
=============================================================================
