----------------------------- MODULE MCChunked -----------------------------
(***************************************************************************)
(* Small instances of ChunkedDownload for TLC: the bytes of an answer may  *)
(* be of any command and at any position of a chunk.                       *)
(***************************************************************************)
EXTENDS ChunkedDownload

CONSTANTS o1, o2

TwoSizes == [o \in {o1, o2} |-> IF o = o1 THEN 3 ELSE 2]
ShortAnswers == UNION {[1..n -> (1..MaxCommands) \X (1..2)] : n \in 0..2}
=============================================================================
