--------------------------- MODULE AtomicDownload ---------------------------
(***************************************************************************)
(* What download_photo promises about its save path: the file appears at   *)
(* once, whole, and stays; a call succeeds only when the file is there.    *)
(* Chunks, retries, the temporary file, the record and crashes are not     *)
(* visible at this level.  Module Download implements it when the path is  *)
(* used for one object.                                                    *)
(***************************************************************************)
CONSTANTS Objects, Content, NoFile, NoCall

VARIABLES
    file,       \* contents of the save path
    call,       \* the object being downloaded
    succeeded   \* the last call returned Ok

Init == file = NoFile /\ call = NoCall /\ succeeded = FALSE

Start(o) ==
    /\ call = NoCall
    /\ call' = o
    /\ succeeded' = FALSE
    /\ UNCHANGED file

Appear ==
    /\ call # NoCall
    /\ file = NoFile
    /\ file' = Content[call]
    /\ UNCHANGED <<call, succeeded>>

Succeed ==
    /\ call # NoCall
    /\ file = Content[call]
    /\ call' = NoCall
    /\ succeeded' = TRUE
    /\ UNCHANGED file

Fail ==
    /\ call # NoCall
    /\ call' = NoCall
    /\ UNCHANGED <<file, succeeded>>

Next == (\E o \in Objects : Start(o)) \/ Appear \/ Succeed \/ Fail

Spec == Init /\ [][Next]_<<file, call, succeeded>>
=============================================================================
