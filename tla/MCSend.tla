------------------------------- MODULE MCSend -------------------------------
(***************************************************************************)
(* Small instances of Send for TLC.                                        *)
(***************************************************************************)
EXTENDS Send
=============================================================================
