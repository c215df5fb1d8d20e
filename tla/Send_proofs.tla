----------------------------- MODULE Send_proofs -----------------------------
(***************************************************************************)
(* Proofs about Send, for any lengths of parameters, number of retries and *)
(* number of commands, and about Session, which sends one command.         *)
(***************************************************************************)
EXTENDS Session, FiniteSetTheorems, SequenceTheorems, TLAPS

Words == Nat \X Nat \X Nat

Last(w) == w[2] = w[3]

Over == pc = "idle" /\ result = "ok"

\* The last n words of the stream are the first n of the packet at hand.
EndsWith(n) ==
    /\ n \in 0..Len(stream)
    /\ \A m \in 1..n : stream[Len(stream) - n + m] = <<tid, m, size>>

(***************************************************************************)
(* The words of the stream are words of the packets of the commands so     *)
(* far; the packet at hand is on the stream up to the position of the      *)
(* running attempt.                                                        *)
(***************************************************************************)
WordsInv ==
    /\ TypeOK
    /\ stream \in Seq(Words)
    /\ \A i \in 1..Len(stream) :
          /\ stream[i][1] \in 1..tid
          /\ stream[i][2] \in 1..stream[i][3]
          /\ stream[i][1] = tid => stream[i][3] = size
    /\ pc # "idle" => tid \in Nat \ {0} /\ size > HeaderWords
    /\ Over => tid \in Nat \ {0} /\ size > HeaderWords
    /\ EndsWith(IF Over THEN size ELSE pos)

(***************************************************************************)
(* Only an attempt that ends a command with Ok writes the last word of its *)
(* packet, so that each packet has it once on the stream.                  *)
(***************************************************************************)
LastInv ==
    /\ result = "ok" => pc = "idle"
    /\ ~Over => \A i \in 1..Len(stream) : stream[i][1] = tid => ~Last(stream[i])
    /\ \A i, j \in 1..Len(stream) :
          stream[i][1] = stream[j][1] /\ Last(stream[i]) /\ Last(stream[j]) => i = j

(***************************************************************************)
(* Where the position is while the sender is at each part.                 *)
(***************************************************************************)
LEMMA Place ==
    ASSUME WordsInv
    PROVE  /\ tid \in Nat /\ size \in Nat /\ pos \in Nat /\ stream \in Seq(Words)
           /\ pc \in {"idle", "sleep"} => pos = 0
           /\ pc = "header" => pos < HeaderWords
           /\ pc = "payload" => pos >= HeaderWords /\ pos < size
           /\ Len(stream) \in Nat
<1>1. tid \in Nat /\ size \in Nat /\ stream \in Seq(Words)
  BY SendAssumption DEF WordsInv, TypeOK
<1>2. pc \in {"idle", "sleep"} => pos = 0
  BY DEF WordsInv, TypeOK
<1>3. pc = "header" => pos \in Nat /\ pos < HeaderWords
  BY DEF WordsInv, TypeOK, HeaderWords
<1>4. pc = "payload" => pos \in Nat /\ pos >= HeaderWords /\ pos < size
  BY <1>1 DEF WordsInv, TypeOK, HeaderWords
<1>5. pc \in {"idle", "header", "payload", "sleep"}
  BY DEF WordsInv, TypeOK
<1> QED
  BY <1>1, <1>2, <1>3, <1>4, <1>5, LenProperties

(***************************************************************************)
(* What one write accepts: the words of the packet from its position on.   *)
(***************************************************************************)
LEMMA WriteAppends ==
    ASSUME WordsInv, NEW k \in 1..size, Write(k)
    PROVE  /\ stream' \in Seq(Words) /\ Len(stream') = Len(stream) + k
           /\ \A i \in 1..Len(stream) : stream'[i] = stream[i]
           /\ \A m \in 1..k : stream'[Len(stream) + m] = <<tid, pos + m, size>>
           /\ pos + k <= size /\ UNCHANGED <<tid, size, retries>>
           /\ IF pos + k < size
              THEN pc' # "idle" /\ pos' = pos + k
              ELSE pc' = "idle" /\ result' = "ok" /\ pos' = 0
<1> DEFINE part == SubSeq(Packet(tid, size), pos + 1, pos + k)
<1>1. /\ tid \in Nat \ {0} /\ size \in Nat /\ pos \in Nat /\ pos + k <= size
      /\ stream \in Seq(Words) /\ k \in Nat
  BY Place DEF WordsInv, Write, Attempting, PartEnd, HeaderWords
<1>2. \A i \in (pos + 1)..(pos + k) : Packet(tid, size)[i] = <<tid, i, size>>
  BY <1>1 DEF Packet
<1>3. \A i \in (pos + 1)..(pos + k) : Packet(tid, size)[i] \in Words
  <2> TAKE i \in (pos + 1)..(pos + k)
  <2>1. i \in Nat /\ Packet(tid, size)[i] = <<tid, i, size>>
    BY <1>1, <1>2
  <2> QED BY <1>1, <2>1 DEF Words
<1>4. /\ part \in Seq(Words) /\ Len(part) = k
      /\ \A m \in 1..k : part[m] = <<tid, pos + m, size>>
  <2>1. /\ part \in Seq(Words)
        /\ Len(part) = IF pos + 1 <= pos + k THEN pos + k - (pos + 1) + 1 ELSE 0
        /\ \A m \in 1..(pos + k - (pos + 1) + 1) :
              part[m] = Packet(tid, size)[pos + 1 + m - 1]
    BY <1>1, <1>3, SubSeqProperties
  <2>2. ASSUME NEW m \in 1..k PROVE part[m] = <<tid, pos + m, size>>
    <3>1. pos + 1 + m - 1 = pos + m /\ pos + m \in (pos + 1)..(pos + k)
          /\ pos + k - (pos + 1) + 1 = k
      BY <1>1
    <3> QED BY <1>2, <2>1, <3>1
  <2>3. pos + 1 <= pos + k /\ pos + k - (pos + 1) + 1 = k
    BY <1>1
  <2>4. Len(part) = k
    BY <2>1, <2>3
  <2> HIDE DEF part
  <2> QED BY <2>1, <2>2, <2>4
<1>5. stream' = stream \o part
  BY DEF Write
<1> HIDE DEF part
<1>6. /\ stream' \in Seq(Words) /\ Len(stream') = Len(stream) + k
      /\ \A i \in 1..(Len(stream) + k) :
            stream'[i] = IF i <= Len(stream) THEN stream[i] ELSE part[i - Len(stream)]
  BY <1>1, <1>4, <1>5, ConcatProperties
<1>7. ASSUME NEW m \in 1..k PROVE stream'[Len(stream) + m] = <<tid, pos + m, size>>
  <2>1. Len(stream) + m \in 1..(Len(stream) + k) /\ ~(Len(stream) + m <= Len(stream))
        /\ Len(stream) + m - Len(stream) = m
    BY <1>1, LenProperties
  <2> QED BY <1>4, <1>6, <2>1
<1>8. ASSUME NEW i \in 1..Len(stream) PROVE stream'[i] = stream[i]
  BY <1>1, <1>6, LenProperties
<1> QED
  BY <1>1, <1>6, <1>7, <1>8 DEF Write, Attempting, PartEnd

LEMMA WordsInit == Init => WordsInv
<1> SUFFICES ASSUME Init PROVE WordsInv
  OBVIOUS
<1>1. TypeOK
  BY SendAssumption DEF Init, TypeOK
<1>2. stream \in Seq(Words) /\ Len(stream) = 0
  BY EmptySeq DEF Init
<1>3. ~Over /\ pos = 0 /\ EndsWith(pos)
  BY <1>2 DEF Init, Over, EndsWith
<1> QED
  BY <1>1, <1>2, <1>3 DEF Init, WordsInv

LEMMA WriteKeepsWords ==
    ASSUME WordsInv, NEW k \in 1..size, Write(k) PROVE WordsInv'
<1>1. /\ tid \in Nat \ {0} /\ size \in Nat /\ size > HeaderWords /\ pos \in Nat
      /\ Len(stream) \in Nat /\ k \in Nat /\ k >= 1 /\ pc \in {"header", "payload"}
  BY Place DEF WordsInv, Write, Attempting
<1>2. /\ stream' \in Seq(Words) /\ Len(stream') = Len(stream) + k
      /\ \A i \in 1..Len(stream) : stream'[i] = stream[i]
      /\ \A m \in 1..k : stream'[Len(stream) + m] = <<tid, pos + m, size>>
      /\ pos + k <= size /\ UNCHANGED <<tid, size, retries>>
      /\ IF pos + k < size
         THEN pc' # "idle" /\ pos' = pos + k
         ELSE pc' = "idle" /\ result' = "ok" /\ pos' = 0
  BY WriteAppends
<1>3. ASSUME NEW i \in 1..Len(stream')
      PROVE  /\ stream'[i][1] \in 1..tid
             /\ stream'[i][2] \in 1..stream'[i][3]
             /\ stream'[i][1] = tid => stream'[i][3] = size
  <2>1. CASE i <= Len(stream)
    BY <1>1, <1>2, <2>1 DEF WordsInv
  <2>2. CASE i > Len(stream)
    <3> DEFINE m == i - Len(stream)
    <3>1. m \in 1..k /\ Len(stream) + m = i
      BY <1>1, <1>2, <2>2
    <3>2. stream'[i] = <<tid, pos + m, size>>
      BY <1>2, <3>1
    <3> QED BY <1>1, <1>2, <3>1, <3>2
  <2> QED BY <1>1, <1>2, <2>1, <2>2
<1>4. EndsWith(pos)
  BY <1>1 DEF WordsInv, Over
<1>5. /\ pos + k \in 0..Len(stream')
      /\ \A m \in 1..(pos + k) : stream'[Len(stream') - (pos + k) + m] = <<tid, m, size>>
  <2>1. pos + k \in 0..Len(stream')
    BY <1>1, <1>2, <1>4 DEF EndsWith
  <2>2. ASSUME NEW m \in 1..(pos + k)
        PROVE  stream'[Len(stream') - (pos + k) + m] = <<tid, m, size>>
    <3>1. Len(stream') - (pos + k) + m = Len(stream) - pos + m
      BY <1>1, <1>2
    <3>2. CASE m <= pos
      <4>1. m \in 1..pos /\ Len(stream) - pos + m \in 1..Len(stream)
        BY <1>1, <1>4, <3>2 DEF EndsWith
      <4> QED BY <1>2, <1>4, <3>1, <4>1 DEF EndsWith
    <3>3. CASE m > pos
      <4>1. m - pos \in 1..k /\ Len(stream) - pos + m = Len(stream) + (m - pos)
            /\ pos + (m - pos) = m
        BY <1>1, <3>3
      <4> QED BY <1>2, <3>1, <4>1
    <3> QED BY <1>1, <3>2, <3>3
  <2> QED BY <2>1, <2>2
<1>6. EndsWith(IF Over THEN size ELSE pos)'
  <2>1. CASE pos + k < size
    BY <1>2, <1>5, <2>1 DEF Over, EndsWith
  <2>2. CASE ~(pos + k < size)
    <3>1. pos + k = size /\ Over'
      BY <1>1, <1>2, <2>2 DEF Over
    <3> QED BY <1>2, <1>5, <3>1 DEF EndsWith
  <2> QED BY <2>1, <2>2
<1>7. TypeOK'
  <2>1. /\ pc' \in {"idle", "header", "payload"}
        /\ pc' = "idle" => pos' = 0
        /\ pc' = "header" => pos' \in 0..(HeaderWords - 1)
        /\ pc' = "payload" => pos' \in HeaderWords..(size - 1)
    BY <1>1, <1>2, Place DEF Write, PartEnd, HeaderWords
  <2>2. pos' \in CASE pc' \in {"idle", "sleep"} -> {0}
                   [] pc' = "header" -> 0..(HeaderWords - 1)
                   [] pc' = "payload" -> HeaderWords..(size' - 1)
    BY <1>2, <2>1
  <2>3. result' \in {"none", "ok", "Io", "Other"}
    BY DEF Write, WordsInv, TypeOK
  <2>4. \A i \in 1..Len(stream') : stream'[i][1] \in 1..tid'
    BY <1>2, <1>3
  <2>5. tid' \in 0..MaxCommands /\ size' \in Nat /\ retries' \in 0..MaxRetries
    BY <1>2 DEF WordsInv, TypeOK
  <2> QED BY <2>1, <2>2, <2>3, <2>4, <2>5 DEF TypeOK
<1> QED
  BY <1>1, <1>2, <1>3, <1>6, <1>7 DEF WordsInv, Over

(***************************************************************************)
(* Every other step leaves the stream alone.                               *)
(***************************************************************************)
LEMMA WordsNext == WordsInv /\ [Next]_vars => WordsInv'
<1> SUFFICES ASSUME WordsInv, [Next]_vars PROVE WordsInv'
  OBVIOUS
<1>1. ASSUME NEW bytes \in ParameterBytes, Command(bytes) PROVE WordsInv'
  <2>1. /\ tid' = tid + 1 /\ size' = 2 + (2 + bytes \div 4) /\ pc' = "header" /\ pos' = 0
        /\ result' = "none" /\ retries' = 0 /\ UNCHANGED stream
        /\ tid < MaxCommands
    BY <1>1 DEF Command, HeaderWords, PayloadWords
  <2>2. bytes \div 4 \in Nat /\ size' \in Nat /\ size' > HeaderWords /\ tid \in Nat
    BY <2>1, Place, SendAssumption DEF HeaderWords
  <2>3. TypeOK'
    <3>1. pos' \in 0..(HeaderWords - 1) /\ tid' \in 0..MaxCommands /\ retries' \in 0..MaxRetries
      BY <2>1, <2>2, SendAssumption DEF HeaderWords
    <3>2. \A i \in 1..Len(stream) : stream[i][1] \in 1..tid'
      BY <2>1, <2>2 DEF WordsInv
    <3> QED BY <2>1, <2>2, <3>1, <3>2 DEF TypeOK
  <2>4. \A i \in 1..Len(stream) : stream[i][1] \in 1..tid' /\ stream[i][1] # tid'
    BY <2>1, <2>2 DEF WordsInv
  <2>5. ~Over' /\ EndsWith(0)'
    BY <2>1, Place DEF Over, EndsWith
  <2> QED BY <2>1, <2>2, <2>3, <2>4, <2>5 DEF WordsInv
<1>2. ASSUME NEW bytes \in ParameterBytes, CommandRejected(bytes) PROVE WordsInv'
  <2>1. /\ tid' = tid + 1 /\ size' = 0 /\ pc = "idle" /\ pc' = "idle" /\ pos' = 0
        /\ result' = "Io" /\ retries' = 0 /\ UNCHANGED stream
        /\ tid < MaxCommands /\ tid \in Nat
    BY <1>2, Place DEF CommandRejected
  <2>2. TypeOK'
    <3>1. tid' \in 0..MaxCommands /\ retries' \in 0..MaxRetries
      BY <2>1, SendAssumption
    <3>2. \A i \in 1..Len(stream) : stream[i][1] \in 1..tid'
      BY <2>1 DEF WordsInv
    <3> QED BY <2>1, <3>1, <3>2 DEF TypeOK
  <2>3. \A i \in 1..Len(stream) : stream[i][1] \in 1..tid' /\ stream[i][1] # tid'
    BY <2>1 DEF WordsInv
  <2>4. ~Over' /\ EndsWith(0)'
    BY <2>1, Place DEF Over, EndsWith
  <2> QED BY <2>1, <2>2, <2>3, <2>4 DEF WordsInv
<1>3. ASSUME NEW k \in 1..size, Write(k) PROVE WordsInv'
  BY <1>3, WriteKeepsWords
<1>4. CASE Retry \/ Wake \/ GiveUp
  <2>1. /\ pc # "idle" /\ pos' = 0 /\ ~Over'
        /\ pc' \in {"idle", "sleep", "header"}
        /\ retries' \in 0..MaxRetries /\ result' \in {"none", "ok", "Io", "Other"}
        /\ UNCHANGED <<tid, size, stream>>
    BY <1>4, SendAssumption, Place DEF Retry, Wake, GiveUp, Attempting, Over, WordsInv, TypeOK
  <2>2. TypeOK'
    <3>1. 0 \in 0..(HeaderWords - 1)
      BY DEF HeaderWords
    <3> QED BY <2>1, <3>1 DEF TypeOK, WordsInv
  <2>3. EndsWith(0)'
    BY <2>1, Place DEF EndsWith
  <2> QED BY <2>1, <2>2, <2>3 DEF WordsInv
<1>5. CASE UNCHANGED vars
  BY <1>5 DEF vars, WordsInv, TypeOK, Over, EndsWith
<1> QED
  BY <1>1, <1>2, <1>3, <1>4, <1>5 DEF Next, Sending

(***************************************************************************)
(* Every variable of a send keeps its type, and the position is in the     *)
(* part that is written.                                                   *)
(***************************************************************************)
THEOREM TypeCorrect == Spec => []TypeOK
<1>1. WordsInv => TypeOK
  BY DEF WordsInv
<1> QED
  BY <1>1, WordsInit, WordsNext, PTL DEF Spec

-----------------------------------------------------------------------------
LEMMA WriteKeepsLast ==
    ASSUME WordsInv, LastInv, NEW k \in 1..size, Write(k) PROVE LastInv'
<1>1. /\ tid \in Nat \ {0} /\ size \in Nat /\ pos \in Nat /\ Len(stream) \in Nat
      /\ k \in Nat /\ k >= 1 /\ ~Over
  BY Place DEF WordsInv, Write, Attempting, Over
<1>2. /\ stream' \in Seq(Words) /\ Len(stream') = Len(stream) + k
      /\ \A i \in 1..Len(stream) : stream'[i] = stream[i]
      /\ \A m \in 1..k : stream'[Len(stream) + m] = <<tid, pos + m, size>>
      /\ pos + k <= size /\ UNCHANGED <<tid, size, retries>>
      /\ IF pos + k < size
         THEN pc' # "idle" /\ pos' = pos + k
         ELSE pc' = "idle" /\ result' = "ok" /\ pos' = 0
  BY WriteAppends
<1>3. ASSUME NEW i \in 1..Len(stream'), stream'[i][1] = tid, Last(stream'[i])
      PROVE  i = Len(stream') /\ pos + k = size
  <2>1. i > Len(stream)
    BY <1>1, <1>2, <1>3 DEF LastInv
  <2> DEFINE m == i - Len(stream)
  <2>2. m \in 1..k /\ Len(stream) + m = i
    BY <1>1, <1>2, <2>1
  <2>3. stream'[i] = <<tid, pos + m, size>>
    BY <1>2, <2>2
  <2>4. pos + m = size
    BY <1>3, <2>3 DEF Last
  <2>5. m = k /\ pos + k = size
    BY <1>1, <1>2, <2>2, <2>4
  <2> QED BY <1>2, <2>2, <2>5
<1>4. ASSUME NEW i \in 1..Len(stream'), stream'[i][1] # tid
      PROVE  i \in 1..Len(stream) /\ stream'[i] = stream[i]
  <2>1. CASE i <= Len(stream)
    BY <1>1, <1>2, <2>1
  <2>2. CASE i > Len(stream)
    <3> DEFINE m == i - Len(stream)
    <3>1. m \in 1..k /\ Len(stream) + m = i
      BY <1>1, <1>2, <2>2
    <3>2. stream'[i] = <<tid, pos + m, size>>
      BY <1>2, <3>1
    <3> QED BY <1>4, <3>2
  <2> QED BY <1>1, <1>2, <2>1, <2>2
<1>5. ~Over' => \A i \in 1..Len(stream') : stream'[i][1] = tid' => ~Last(stream'[i])
  BY <1>1, <1>2, <1>3 DEF Over
<1>6. ASSUME NEW i \in 1..Len(stream'), NEW j \in 1..Len(stream'),
             stream'[i][1] = stream'[j][1], Last(stream'[i]), Last(stream'[j])
      PROVE  i = j
  <2>1. CASE stream'[i][1] = tid
    BY <1>3, <1>6, <2>1
  <2>2. CASE stream'[i][1] # tid
    <3>1. /\ i \in 1..Len(stream) /\ stream'[i] = stream[i]
          /\ j \in 1..Len(stream) /\ stream'[j] = stream[j]
      BY <1>4, <1>6, <2>2
    <3> QED BY <1>6, <3>1 DEF LastInv
  <2> QED BY <2>1, <2>2
<1>7. result' = "ok" => pc' = "idle"
  BY <1>1, <1>2 DEF LastInv, Write, Attempting
<1> QED
  BY <1>5, <1>6, <1>7 DEF LastInv

LEMMA LastNext == WordsInv /\ LastInv /\ [Next]_vars => LastInv'
<1> SUFFICES ASSUME WordsInv, LastInv, [Next]_vars PROVE LastInv'
  OBVIOUS
<1>1. ASSUME NEW bytes \in ParameterBytes, Command(bytes) \/ CommandRejected(bytes) PROVE LastInv'
  <2>1. tid' = tid + 1 /\ UNCHANGED stream /\ tid \in Nat
    BY <1>1, Place DEF Command, CommandRejected
  <2>2. \A i \in 1..Len(stream) : stream[i][1] # tid'
    BY <2>1 DEF WordsInv
  <2>3. result' # "ok"
    BY <1>1 DEF Command, CommandRejected
  <2> QED BY <2>1, <2>2, <2>3 DEF LastInv
<1>2. ASSUME NEW k \in 1..size, Write(k) PROVE LastInv'
  BY <1>2, WriteKeepsLast
<1>3. CASE Retry \/ Wake \/ GiveUp
  BY <1>3 DEF Retry, Wake, GiveUp, Attempting, LastInv, Over
<1>4. CASE UNCHANGED vars
  BY <1>4 DEF vars, LastInv, Over
<1> QED
  BY <1>1, <1>2, <1>3, <1>4 DEF Next, Sending

(***************************************************************************)
(* A whole copy of a packet contains its last word.                        *)
(***************************************************************************)
LEMMA CopyHasLast ==
    ASSUME WordsInv, NEW t, NEW i \in WholeCopies(t)
    PROVE  LET l == i + stream[i][3] - 1
           IN  /\ l \in 1..Len(stream)
               /\ stream[l][1] = t /\ Last(stream[l]) /\ stream[l][3] = stream[i][3]
               /\ i \in 1..Len(stream)
<1> DEFINE n == stream[i][3]
           l == i + n - 1
<1>1. /\ i \in 1..Len(stream) /\ stream[i][1] = t /\ stream[i][2] = 1
      /\ l <= Len(stream) /\ SubSeq(stream, i, l) = Packet(t, n)
  BY DEF WholeCopies, Starts
<1>2. stream \in Seq(Words) /\ Len(stream) \in Nat
  BY Place
<1>3. n \in Nat /\ n >= 1
  BY <1>1, <1>2, ElementOfSeq DEF WordsInv, Words
<1>4. l \in i..Len(stream) /\ l \in Nat /\ n = l - i + 1 /\ i + n - 1 = l
  BY <1>1, <1>2, <1>3
<1>5. SubSeq(stream, i, l)[n] = stream[l]
  <2>1. \A j \in i..l : stream[j] \in Words
    BY <1>1, <1>2, <1>4, ElementOfSeq
  <2>2. \A j \in 1..(l - i + 1) : SubSeq(stream, i, l)[j] = stream[i + j - 1]
    BY <1>1, <1>2, <1>4, <2>1, SubSeqProperties
  <2>3. n \in 1..(l - i + 1)
    BY <1>3, <1>4
  <2> QED BY <1>4, <2>2, <2>3
<1>6. Packet(t, n)[n] = <<t, n, n>>
  BY <1>3 DEF Packet
<1>7. stream[l] = <<t, n, n>>
  BY <1>1, <1>5, <1>6
<1>8. l \in 1..Len(stream)
  BY <1>1, <1>2, <1>4
<1> QED
  BY <1>1, <1>7, <1>8 DEF Last

LEMMA NoLastNoCopy ==
    ASSUME WordsInv, LastInv, ~Over PROVE WholeCopies(tid) = {}
<1> SUFFICES ASSUME NEW i \in WholeCopies(tid) PROVE FALSE
  OBVIOUS
<1> QED
  BY CopyHasLast DEF LastInv

LEMMA OneCopy ==
    ASSUME WordsInv, LastInv, NEW t PROVE Cardinality(WholeCopies(t)) <= 1
<1>1. ASSUME NEW i \in WholeCopies(t), NEW j \in WholeCopies(t) PROVE i = j
  <2> DEFINE a == i + stream[i][3] - 1
             b == j + stream[j][3] - 1
  <2>1. /\ a \in 1..Len(stream) /\ stream[a][1] = t /\ Last(stream[a])
        /\ stream[a][3] = stream[i][3] /\ i \in 1..Len(stream)
    BY CopyHasLast
  <2>2. /\ b \in 1..Len(stream) /\ stream[b][1] = t /\ Last(stream[b])
        /\ stream[b][3] = stream[j][3] /\ j \in 1..Len(stream)
    BY CopyHasLast
  <2>3. a = b
    <3> HIDE DEF a, b
    <3> QED BY <2>1, <2>2 DEF LastInv
  <2>4. stream[i][3] = stream[j][3]
    BY <2>1, <2>2, <2>3
  <2>5. stream[i][3] \in Nat /\ i \in Nat /\ j \in Nat
    <3>1. stream[i] \in Words
      BY <2>1, Place, ElementOfSeq
    <3>2. i \in Nat /\ j \in Nat
      BY <2>1, <2>2, Place
    <3> QED BY <3>1, <3>2 DEF Words
  <2> QED BY <2>3, <2>4, <2>5
<1>2. CASE WholeCopies(t) = {}
  BY <1>2, FS_EmptySet
<1>3. CASE WholeCopies(t) # {}
  <2>1. PICK i : i \in WholeCopies(t)
    BY <1>3
  <2>2. WholeCopies(t) = {i}
    BY <1>1, <2>1
  <2> QED BY <2>2, FS_Singleton
<1> QED
  BY <1>2, <1>3

LEMMA OverHasCopy ==
    ASSUME WordsInv, Over PROVE WholeCopies(tid) # {}
<1> DEFINE i == Len(stream) - size + 1
<1>1. /\ stream \in Seq(Words) /\ Len(stream) \in Nat /\ size \in Nat /\ size > 2
      /\ EndsWith(size)
  BY Place DEF WordsInv, HeaderWords
<1>2. size <= Len(stream) /\ \A m \in 1..size : stream[Len(stream) - size + m] = <<tid, m, size>>
  <2>1. size \in 0..Len(stream)
    BY <1>1 DEF EndsWith
  <2>2. size <= Len(stream)
    BY <1>1, <2>1
  <2> QED BY <1>1, <2>2 DEF EndsWith
<1>3. i \in 1..Len(stream) /\ i + size - 1 = Len(stream) /\ Len(stream) - i + 1 = size
  BY <1>1, <1>2
<1>4. stream[i] = <<tid, 1, size>>
  <2>1. 1 \in 1..size
    BY <1>1
  <2> QED BY <1>2, <2>1
<1>5. SubSeq(stream, i, Len(stream)) = Packet(tid, size)
  <2>1. \A j \in i..Len(stream) : stream[j] \in Words
    BY <1>1, <1>3, ElementOfSeq
  <2>2. /\ SubSeq(stream, i, Len(stream)) \in Seq(Words)
        /\ Len(SubSeq(stream, i, Len(stream))) = size
        /\ \A j \in 1..size : SubSeq(stream, i, Len(stream))[j] = stream[i + j - 1]
    BY <1>1, <1>3, <2>1, SubSeqProperties
  <2>3. /\ Packet(tid, size) \in Seq(Words) /\ Len(Packet(tid, size)) = size
        /\ \A j \in 1..size : Packet(tid, size)[j] = <<tid, j, size>>
    BY <1>1, Place DEF Packet, Words
  <2>4. ASSUME NEW j \in 1..size PROVE stream[i + j - 1] = <<tid, j, size>>
    <3>1. i + j - 1 = Len(stream) - size + j
      BY <1>1
    <3> QED BY <1>2, <3>1
  <2>5. \A j \in 1..size : SubSeq(stream, i, Len(stream))[j] = Packet(tid, size)[j]
    BY <2>2, <2>3, <2>4
  <2> QED BY <2>2, <2>3, <2>5, SeqEqual
<1>6. i \in WholeCopies(tid)
  <2>1. /\ stream[i][1] = tid /\ stream[i][2] = 1 /\ stream[i][3] = size
    BY <1>4
  <2> HIDE DEF i
  <2>2. i \in Starts(tid)
    BY <1>3, <2>1 DEF Starts
  <2>3. i + stream[i][3] - 1 = Len(stream) /\ i + stream[i][3] - 1 <= Len(stream)
    BY <1>1, <1>3, <2>1
  <2>4. SubSeq(stream, i, i + stream[i][3] - 1) = Packet(tid, stream[i][3])
    BY <1>5, <2>1, <2>3
  <2> QED BY <2>2, <2>3, <2>4 DEF WholeCopies
<1> QED
  BY <1>6

(***************************************************************************)
(* However a write fails and however often it is retried, a command is on  *)
(* the stream once after Ok and not at all after an error                  *)
(* (transport.rs:97-112).                                                  *)
(***************************************************************************)
THEOREM SendsAtMostOnce == Spec => []SentAtMostOnce
<1>1. Init => WordsInv /\ LastInv
  <2>1. ASSUME Init PROVE LastInv
    BY <2>1, EmptySeq DEF Init, LastInv
  <2> QED BY <2>1, WordsInit
<1>2. WordsInv /\ LastInv => SentAtMostOnce
  <2> SUFFICES ASSUME WordsInv, LastInv PROVE SentAtMostOnce
    OBVIOUS
  <2>1. \A t \in 1..tid : Cardinality(WholeCopies(t)) <= 1
    BY OneCopy
  <2>2. result = "ok" => WholeCopies(tid) # {}
    BY OverHasCopy DEF Over, LastInv
  <2>3. pc = "idle" /\ result # "ok" => WholeCopies(tid) = {}
    BY NoLastNoCopy DEF Over
  <2> QED BY <2>1, <2>2, <2>3 DEF SentAtMostOnce
<1> QED
  BY <1>1, <1>2, WordsNext, LastNext, PTL DEF Spec

-----------------------------------------------------------------------------
(***************************************************************************)
(* An attempt that wrote its first word is counted by the retries of the   *)
(* command, the first one apart.                                           *)
(***************************************************************************)
Begun == IF pc # "idle" /\ pos = 0 THEN retries ELSE retries + 1

StartsInv ==
    \A t \in 1..tid : Cardinality(Starts(t)) <= (IF t = tid THEN Begun ELSE MaxRetries + 1)

LEMMA StartsFinite ==
    ASSUME WordsInv, NEW t
    PROVE  IsFiniteSet(Starts(t)) /\ Cardinality(Starts(t)) \in Nat
<1>1. IsFiniteSet(1..Len(stream))
  BY Place, FS_Interval
<1>2. Starts(t) \in SUBSET (1..Len(stream))
  BY DEF Starts
<1> QED
  BY <1>1, <1>2, FS_Subset, FS_CardinalityType

\* A write adds a start when it writes the first word, and at most one.
LEMMA WriteStarts ==
    ASSUME WordsInv, NEW k \in 1..size, Write(k), NEW t
    PROVE  /\ Starts(t)' \subseteq Starts(t) \cup {Len(stream) + 1}
           /\ t # tid \/ pos # 0 => Starts(t)' \subseteq Starts(t)
<1>1. /\ tid \in Nat /\ size \in Nat /\ pos \in Nat /\ Len(stream) \in Nat
      /\ k \in Nat /\ k >= 1
  BY Place
<1>2. /\ Len(stream') = Len(stream) + k
      /\ \A i \in 1..Len(stream) : stream'[i] = stream[i]
      /\ \A m \in 1..k : stream'[Len(stream) + m] = <<tid, pos + m, size>>
  BY WriteAppends
<1>3. ASSUME NEW i \in 1..Len(stream'), ~(i <= Len(stream))
      PROVE  /\ stream'[i][1] = tid
             /\ stream'[i][2] = 1 => pos = 0 /\ i = Len(stream) + 1
  <2> DEFINE m == i - Len(stream)
  <2>1. m \in 1..k /\ Len(stream) + m = i
    BY <1>1, <1>2, <1>3
  <2>2. stream'[i] = <<tid, pos + m, size>>
    BY <1>2, <2>1
  <2>3. pos + m = 1 => pos = 0 /\ m = 1
    BY <1>1, <2>1
  <2> QED BY <1>1, <2>1, <2>2, <2>3
<1>4. ASSUME NEW i \in Starts(t)'
      PROVE  i \in Starts(t) \/ (t = tid /\ pos = 0 /\ i = Len(stream) + 1)
  <2>1. i \in 1..Len(stream') /\ stream'[i][1] = t /\ stream'[i][2] = 1
    BY <1>4 DEF Starts
  <2>2. CASE i <= Len(stream)
    <3>1. i \in 1..Len(stream)
      BY <1>1, <1>2, <2>1, <2>2
    <3> QED BY <1>2, <2>1, <3>1 DEF Starts
  <2>3. CASE ~(i <= Len(stream))
    BY <1>3, <2>1, <2>3
  <2> QED BY <2>2, <2>3
<1> QED
  BY <1>4

LEMMA StartsNext == WordsInv /\ StartsInv /\ [Next]_vars => StartsInv'
<1> SUFFICES ASSUME WordsInv, StartsInv, [Next]_vars PROVE StartsInv'
  OBVIOUS
<1>1. /\ tid \in Nat /\ retries \in 0..MaxRetries /\ MaxRetries \in Nat
      /\ Begun \in Nat /\ Begun <= MaxRetries + 1
  BY Place, SendAssumption DEF WordsInv, TypeOK, Begun
<1>2. ASSUME NEW t \in 1..tid PROVE Cardinality(Starts(t)) <= MaxRetries + 1
  BY <1>1, StartsFinite DEF StartsInv
<1>3. ASSUME NEW bytes \in ParameterBytes, Command(bytes) \/ CommandRejected(bytes),
             NEW t \in 1..tid'
      PROVE  Cardinality(Starts(t)') <= (IF t = tid' THEN Begun' ELSE MaxRetries + 1)
  <2>1. tid' = tid + 1 /\ retries' = 0 /\ Starts(t)' = Starts(t)
    BY <1>3 DEF Command, CommandRejected, Starts
  <2>2. CASE t = tid + 1
    <3>1. Starts(t) = {}
      BY <1>1, <2>2 DEF Starts, WordsInv
    <3>2. Begun' \in {0, 1}
      BY <2>1 DEF Begun
    <3>3. Cardinality(Starts(t)') = 0
      BY <2>1, <3>1, FS_EmptySet
    <3> QED BY <2>1, <2>2, <3>2, <3>3
  <2>3. CASE t # tid + 1
    <3>1. t \in 1..tid
      BY <1>1, <2>1, <2>3
    <3> QED BY <1>2, <2>1, <2>3, <3>1
  <2> QED BY <2>2, <2>3
<1>4. ASSUME NEW k \in 1..size, Write(k), NEW t \in 1..tid'
      PROVE  Cardinality(Starts(t)') <= (IF t = tid' THEN Begun' ELSE MaxRetries + 1)
  <2>1. /\ pc # "idle" /\ UNCHANGED <<tid, retries>> /\ pos \in Nat /\ t \in 1..tid
        /\ IF pos + k < size THEN pc' # "idle" /\ pos' = pos + k ELSE pc' = "idle"
    BY <1>4, WriteAppends, Place DEF Write, Attempting
  <2>2. Begun' = retries + 1
    BY <2>1 DEF Begun
  <2>3. IsFiniteSet(Starts(t)) /\ Cardinality(Starts(t)) \in Nat
    BY StartsFinite
  <2>4. CASE t # tid \/ pos # 0
    <3>1. Cardinality(Starts(t)') <= Cardinality(Starts(t)) /\ Cardinality(Starts(t)') \in Nat
      BY <1>4, <2>3, <2>4, WriteStarts, FS_Subset, FS_CardinalityType
    <3>2. Cardinality(Starts(t)) <= (IF t = tid THEN retries + 1 ELSE MaxRetries + 1)
      BY <2>1, <2>4 DEF StartsInv, Begun
    <3> QED BY <1>1, <2>1, <2>2, <2>3, <3>1, <3>2
  <2>5. CASE t = tid /\ pos = 0
    <3> DEFINE more == Starts(t) \cup {Len(stream) + 1}
    <3>1. IsFiniteSet(more) /\ Cardinality(more) \in Nat
      BY <2>3, FS_AddElement, FS_CardinalityType
    <3>2. Cardinality(more) <= Cardinality(Starts(t)) + 1
      <4>1. Cardinality(more) = IF Len(stream) + 1 \in Starts(t) THEN Cardinality(Starts(t))
                                ELSE Cardinality(Starts(t)) + 1
        BY <2>3, FS_AddElement
      <4> HIDE DEF more
      <4> QED BY <2>3, <4>1
    <3>3. Starts(t)' \in SUBSET more
      BY <1>4, WriteStarts
    <3> HIDE DEF more
    <3>4. Cardinality(Starts(t)') <= Cardinality(more) /\ Cardinality(Starts(t)') \in Nat
      BY <3>1, <3>3, FS_Subset, FS_CardinalityType
    <3>5. Cardinality(Starts(t)) <= retries
      BY <2>1, <2>5 DEF StartsInv, Begun
    <3> QED BY <1>1, <2>1, <2>2, <2>3, <2>5, <3>1, <3>2, <3>4, <3>5
  <2> QED BY <2>4, <2>5
<1>5. ASSUME Retry \/ Wake \/ GiveUp, NEW t \in 1..tid'
      PROVE  Cardinality(Starts(t)') <= (IF t = tid' THEN Begun' ELSE MaxRetries + 1)
  <2>1. UNCHANGED tid /\ Starts(t)' = Starts(t)
    BY <1>5 DEF Retry, Wake, GiveUp, Starts
  <2>2. Begun' \in Nat /\ Begun <= Begun'
    BY <1>1, <1>5, Place DEF Retry, Wake, GiveUp, Attempting, Begun
  <2> QED BY <1>1, <2>1, <2>2, StartsFinite DEF StartsInv
<1>6. CASE UNCHANGED vars
  BY <1>6 DEF vars, StartsInv, Starts, Begun
<1> QED
  BY <1>3, <1>4, <1>5, <1>6 DEF Next, Sending, StartsInv

(***************************************************************************)
(* A command is begun at most once more than max_retries, whatever the     *)
(* writes accept (transport.rs:101).                                       *)
(***************************************************************************)
THEOREM AttemptsAreBounded == Spec => []AttemptsBounded
<1>1. ASSUME Init PROVE StartsInv
  <2>1. 1..tid = {}
    BY <1>1 DEF Init
  <2> QED BY <2>1 DEF StartsInv
<1>2. WordsInv /\ StartsInv => AttemptsBounded
  <2> SUFFICES ASSUME WordsInv, StartsInv, NEW t \in 1..tid
               PROVE  Cardinality(Starts(t)) <= MaxRetries + 1
    BY DEF AttemptsBounded
  <2>1. Begun \in Nat /\ Begun <= MaxRetries + 1 /\ MaxRetries \in Nat
    BY SendAssumption DEF WordsInv, TypeOK, Begun
  <2> QED BY <2>1, StartsFinite DEF StartsInv
<1> QED
  BY <1>1, <1>2, WordsInit, WordsNext, StartsNext, PTL DEF Spec

-----------------------------------------------------------------------------
(***************************************************************************)
(* OpenSession with its six bytes of parameters (session.rs:207) is not    *)
(* begun: send_command rejects it before the first write.                  *)
(***************************************************************************)
NotOpened == phase # "sending" /\ handle = NULL /\ stream = <<>>

LEMMA OpenIsRejected == ~Command(OpenBytes)
<1>1. OpenBytes % 4 # 0
  BY DEF OpenBytes
<1> QED
  BY <1>1 DEF Command

LEMMA NotOpenedNext == NotOpened /\ [SNext]_<<vars, svars>> => NotOpened'
<1> SUFFICES ASSUME NotOpened, [SNext]_<<vars, svars>> PROVE NotOpened'
  OBVIOUS
<1>1. ~Open
  BY OpenIsRejected DEF Open
<1>2. CASE NoAddress \/ Create \/ DialFails \/ Dial
  BY <1>2 DEF NoAddress, Create, DialFails, Dial, Fails, vars, NotOpened
<1>3. CASE OpenRejected
  BY <1>3 DEF OpenRejected, CommandRejected, Fails, NotOpened
<1>4. ~(OpenSending \/ NotSent \/ NoResponse \/ Opened)
  BY DEF OpenSending, NotSent, NoResponse, Opened, NotOpened
<1>5. CASE UNCHANGED <<vars, svars>>
  BY <1>5 DEF vars, svars, NotOpened
<1> QED
  BY <1>1, <1>2, <1>3, <1>4, <1>5 DEF SNext

(***************************************************************************)
(* ptpip_create_session never gives a session, and no byte of OpenSession  *)
(* reaches the camera, whatever the address, the network, the camera and   *)
(* the number of retries (session.rs:207, commands.rs:606).                *)
(***************************************************************************)
THEOREM NoSessionIsCreated == SSpec => [](handle = NULL /\ stream = <<>>)
<1>1. SInit => NotOpened
  BY DEF SInit, Init, NotOpened
<1>2. NotOpened => handle = NULL /\ stream = <<>>
  BY DEF NotOpened
<1> QED
  BY <1>1, <1>2, NotOpenedNext, PTL DEF SSpec
=============================================================================
