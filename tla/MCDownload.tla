----------------------------- MODULE MCDownload -----------------------------
(***************************************************************************)
(* Small instances of Download for TLC.                                    *)
(***************************************************************************)
EXTENDS Download

CONSTANTS o1, o2

OneSize == [o \in {o1} |-> 40]
TwoSizes == [o \in {o1, o2} |-> IF o = o1 THEN 3 ELSE 4]
SmallSize == [o \in {o1} |-> 4]
=============================================================================
