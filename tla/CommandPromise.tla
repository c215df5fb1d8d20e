--------------------------- MODULE CommandPromise ---------------------------
(***************************************************************************)
(* What a CameraClient promises for its commands: they run one after the   *)
(* other, each ends once, and a command that succeeds has its own answer.  *)
(* A chunk that succeeds may have the wrong length, which the download     *)
(* checks; with the right length it is the chunk asked for.  The stream,   *)
(* its packets and the listener are not visible at this level.             *)
(***************************************************************************)
EXTENDS Integers, Sequences

CONSTANT ChunkLengths

VARIABLES
    tid,        \* the last transaction id
    call,       \* the command that runs
    outcome     \* how the last one ended

None == [op |-> "none", tid |-> 0, len |-> 0]

Init == tid = 0 /\ call = None /\ outcome = [call |-> None, status |-> "none", data |-> <<>>]

Start(op, len) ==
    /\ call = None
    /\ tid' = tid + 1
    /\ call' = [op |-> op, tid |-> tid', len |-> len]
    /\ outcome' = [call |-> None, status |-> "none", data |-> <<>>]

OwnAnswer(c, data) ==
    IF c.op = "chunk"
    THEN Len(data) = c.len => data = [i \in 1..c.len |-> <<c.tid, i>>]
    ELSE data = <<c.tid>>

End ==
    /\ call # None
    /\ call' = None
    /\ outcome'.call = call
    /\ \/ outcome'.status = "ok" /\ OwnAnswer(call, outcome'.data)
       \/ outcome'.status # "ok" /\ outcome'.data = <<>>
    /\ UNCHANGED tid

Next ==
    \/ \E op \in {"open", "simple"} : Start(op, 0)
    \/ \E len \in ChunkLengths : Start("chunk", len)
    \/ End

Spec == Init /\ [][Next]_<<tid, call, outcome>>
=============================================================================
