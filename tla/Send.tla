-------------------------------- MODULE Send --------------------------------
(***************************************************************************)
(* Sending a command: send_command (commands.rs), send_packet_with_retry   *)
(* and send_packet (transport.rs), on a stream whose writes may accept a   *)
(* part of the bytes and then fail (a write timeout, a reset).             *)
(*                                                                         *)
(* The stream is counted in words of four bytes.  A command packet is a    *)
(* header, version and opcode, the number of parameters, and the           *)
(* parameters: two words, two words and one each.  A word of the stream is *)
(* <<transaction, i, n>>, the i-th of the n words of its packet.  A caller *)
(* that gives up on a command may send another one on the same stream.     *)
(***************************************************************************)
EXTENDS Integers, Sequences, FiniteSets

CONSTANTS
    ParameterBytes,     \* lengths of parameters in bytes
    MaxRetries,         \* SessionConfig.max_retries
    MaxCommands         \* bound on the commands sent

ASSUME SendAssumption ==
    /\ ParameterBytes \subseteq Nat
    /\ MaxRetries \in Nat
    /\ MaxCommands \in Nat

VARIABLES
    pc,         \* "idle", "header", "payload" or "sleep"
    tid,        \* the last transaction id
    size,       \* words of its packet
    pos,        \* words of it written by this attempt
    retries,
    stream,     \* what the stream accepted
    result      \* how the last command ended

vars == <<pc, tid, size, pos, retries, stream, result>>

HeaderWords == 2
PayloadWords(bytes) == 2 + bytes \div 4

Packet(t, n) == [i \in 1..n |-> <<t, i, n>>]

Init ==
    /\ pc = "idle" /\ tid = 0 /\ size = 0 /\ pos = 0 /\ retries = 0
    /\ stream = <<>> /\ result = "none"

(***************************************************************************)
(* send_command reads its parameters word by word: a rest of less than     *)
(* four bytes is an error, and nothing is sent.                            *)
(***************************************************************************)
Command(bytes) ==
    /\ pc = "idle" /\ tid < MaxCommands
    /\ bytes % 4 = 0
    /\ tid' = tid + 1
    /\ size' = HeaderWords + PayloadWords(bytes)
    /\ pc' = "header" /\ pos' = 0 /\ retries' = 0 /\ result' = "none"
    /\ UNCHANGED stream

CommandRejected(bytes) ==
    /\ pc = "idle" /\ tid < MaxCommands
    /\ bytes % 4 # 0
    /\ tid' = tid + 1
    /\ size' = 0 /\ pos' = 0 /\ retries' = 0 /\ result' = "Io"
    /\ UNCHANGED <<pc, stream>>

Attempting == pc \in {"header", "payload"}
PartEnd == IF pc = "header" THEN HeaderWords ELSE size

\* Faulty variant: an error after the last word is taken for a failed attempt.
WriteDoubtful(k) ==
    /\ Attempting /\ pos + k <= PartEnd
    /\ stream' = stream \o SubSeq(Packet(tid, size), pos + 1, pos + k)
    /\ IF pos + k < size
       THEN /\ pc' = IF pos + k = PartEnd THEN "payload" ELSE pc
            /\ pos' = pos + k
            /\ UNCHANGED <<retries, result>>
       ELSE \/ pc' = "idle" /\ result' = "ok" /\ pos' = 0 /\ UNCHANGED retries
            \/ /\ retries < MaxRetries
               /\ pc' = "header" /\ pos' = 0 /\ retries' = retries + 1
               /\ UNCHANGED result
    /\ UNCHANGED <<tid, size>>

(***************************************************************************)
(* send_packet: write_all for the header, write_all for the payload, each  *)
(* in one or more writes.                                                  *)
(***************************************************************************)
Write(k) ==
    /\ Attempting /\ pos + k <= PartEnd
    /\ stream' = stream \o SubSeq(Packet(tid, size), pos + 1, pos + k)
    /\ IF pos + k < size
       THEN /\ pc' = IF pos + k = PartEnd THEN "payload" ELSE pc
            /\ pos' = pos + k
            /\ UNCHANGED result
       ELSE pc' = "idle" /\ result' = "ok" /\ pos' = 0
    /\ UNCHANGED <<tid, size, retries>>

\* Faulty variant: only the part that failed is sent again.
RetryPart ==
    /\ Attempting
    /\ retries + 1 <= MaxRetries
    /\ retries' = retries + 1
    /\ pos' = 0
    /\ UNCHANGED <<pc, tid, size, stream, result>>

\* Faulty variant: one attempt too many.
RetryOnceMore ==
    /\ Attempting
    /\ retries <= MaxRetries
    /\ retries' = retries + 1
    /\ pc' = "sleep" /\ pos' = 0
    /\ UNCHANGED <<tid, size, stream, result>>

\* Faulty variant: an attempt that wrote nothing is not counted.
RetryForEver ==
    /\ Attempting
    /\ retries + 1 <= MaxRetries
    /\ retries' = IF pos = 0 THEN retries ELSE retries + 1
    /\ pc' = "sleep" /\ pos' = 0
    /\ UNCHANGED <<tid, size, stream, result>>

(***************************************************************************)
(* A write fails: send_packet_with_retry sleeps and sends the packet from  *)
(* its first word, whatever is on the stream already, or gives up.         *)
(***************************************************************************)
Retry ==
    /\ Attempting
    /\ retries + 1 <= MaxRetries
    /\ retries' = retries + 1
    /\ pc' = "sleep" /\ pos' = 0
    /\ UNCHANGED <<tid, size, stream, result>>

Wake ==
    /\ pc = "sleep"
    /\ pc' = "header"
    /\ UNCHANGED <<tid, size, pos, retries, stream, result>>

GiveUp ==
    /\ Attempting
    /\ retries + 1 > MaxRetries
    /\ pc' = "idle" /\ pos' = 0 /\ result' = "Other"
    /\ UNCHANGED <<tid, size, retries, stream>>

-----------------------------------------------------------------------------
Sending == (\E k \in 1..size : Write(k)) \/ Retry \/ Wake \/ GiveUp

Next ==
    \/ \E bytes \in ParameterBytes : Command(bytes) \/ CommandRejected(bytes)
    \/ Sending

Spec == Init /\ [][Next]_vars

(***************************************************************************)
(* A write returns: with bytes accepted, or by the write timeout of        *)
(* configure_stream.                                                       *)
(***************************************************************************)
FairSpec == Spec /\ WF_vars(Sending)

-----------------------------------------------------------------------------
(***************************************************************************)
(* Every variable has its type, and an attempt is where its part is.       *)
(***************************************************************************)
TypeOK ==
    /\ pc \in {"idle", "header", "payload", "sleep"}
    /\ tid \in 0..MaxCommands
    /\ size \in Nat
    /\ pos \in CASE pc \in {"idle", "sleep"} -> {0}
                 [] pc = "header" -> 0..(HeaderWords - 1)
                 [] pc = "payload" -> HeaderWords..(size - 1)
    /\ retries \in 0..MaxRetries
    /\ \A i \in 1..Len(stream) : stream[i][1] \in 1..tid
    /\ result \in {"none", "ok", "Io", "Other"}

Starts(t) == {i \in 1..Len(stream) : stream[i][1] = t /\ stream[i][2] = 1}

WholeCopies(t) ==
    {i \in Starts(t) :
        LET n == stream[i][3]
        IN  /\ i + n - 1 <= Len(stream)
            /\ SubSeq(stream, i, i + n - 1) = Packet(t, n)}

(***************************************************************************)
(* The retries never send a command twice, and the caller knows whether it *)
(* was sent: one whole packet is on the stream after Ok and none after an  *)
(* error (transport.rs:97-112).  It is counted in packets as they were     *)
(* meant: what the camera makes of a part that is followed by the first    *)
(* words of a retry is not said.                                           *)
(***************************************************************************)
SentAtMostOnce ==
    /\ \A t \in 1..tid : Cardinality(WholeCopies(t)) <= 1
    /\ result = "ok" => WholeCopies(tid) # {}
    /\ pc = "idle" /\ result # "ok" => WholeCopies(tid) = {}

(***************************************************************************)
(* A command is begun at most once more than max_retries, whatever the     *)
(* writes accept (transport.rs:101).                                       *)
(***************************************************************************)
AttemptsBounded == \A t \in 1..tid : Cardinality(Starts(t)) <= MaxRetries + 1

(***************************************************************************)
(* Every send returns.                                                     *)
(***************************************************************************)
SendReturns == pc # "idle" ~> pc = "idle"
=============================================================================
