------------------------ MODULE ClientPlace_proofs ------------------------
(***************************************************************************)
(* Proof about Client that the command thread is where the stream is: what *)
(* is unread, on the wire or still on its way, is a sequence of whole      *)
(* packets behind the rest of the one a reader is in, and no step of a     *)
(* command, the camera or the network moves the two apart, except an event *)
(* and a timeout in the middle of a packet.                                *)
(*                                                                         *)
(* The parts of the packets on their way are a recursive sum (PartsOf), so *)
(* the first half of the module is about sequences: induction stated with  *)
(* sets, and what PartsOf makes of appended and concatenated packets.      *)
(***************************************************************************)
EXTENDS ClientStream_proofs, WellFoundedInduction

(***************************************************************************)
(* Induction, stated with sets: a set of numbers that has 0 and with each  *)
(* number the next has all of them.                                        *)
(***************************************************************************)
LEMMA NumbersByInduction ==
    ASSUME NEW G, 0 \in G, \A n \in Nat : n \in G => n + 1 \in G
    PROVE  Nat \subseteq G
<1> DEFINE T == Nat \ G
<1> SUFFICES ASSUME T # {} PROVE FALSE
  OBVIOUS
<1>1. T \subseteq Nat
  OBVIOUS
<1>2. \A x, y \in Nat : x < y => <<x, y>> \in OpToRel(<, Nat)
  BY DEF OpToRel
<1> HIDE DEF T
<1>3. \E n \in T : \A m \in T : ~(<<m, n>> \in OpToRel(<, Nat))
  BY <1>1, WFMin, NatLessThanWellFounded
<1>4. PICK n \in T : \A m \in T : ~(<<m, n>> \in OpToRel(<, Nat))
  BY <1>3
<1>5. n \in Nat /\ n # 0
  BY <1>1 DEF T
<1>6. n - 1 \in Nat /\ n - 1 < n /\ (n - 1) + 1 = n
  BY <1>5
<1>7. n - 1 \in G
  BY <1>2, <1>4, <1>5, <1>6 DEF T
<1>8. n \in G
  BY <1>6, <1>7
<1> QED
  BY <1>8 DEF T

\* The same for sequences that grow by an element at the end.
LEMMA SequencesByInduction ==
    ASSUME NEW S, NEW G, <<>> \in G,
           \A s \in Seq(S), e \in S : s \in G => Append(s, e) \in G
    PROVE  Seq(S) \subseteq G
<1> DEFINE N == {n \in Nat : \A s \in Seq(S) : Len(s) = n => s \in G}
<1>1. 0 \in N
  <2>1. ASSUME NEW s \in Seq(S), Len(s) = 0 PROVE s = <<>>
    BY <2>1, EmptySeq
  <2> QED BY <2>1
<1>2. ASSUME NEW n \in Nat, n \in N PROVE n + 1 \in N
  <2> SUFFICES ASSUME NEW s \in Seq(S), Len(s) = n + 1 PROVE s \in G
    BY <1>2
  <2>1. s # <<>>
    BY <1>2
  <2>2. PICK t \in Seq(S), e \in S : s = Append(t, e)
    BY <2>1, SequenceEmptyOrAppend
  <2>3. Len(t) = n
    BY <2>2, <1>2, AppendProperties, LenProperties
  <2> QED BY <2>2, <2>3, <1>2
<1>3. Nat \subseteq N
  <2> HIDE DEF N
  <2> QED BY <1>1, <1>2, NumbersByInduction
<1> QED
  BY <1>3, LenProperties

-----------------------------------------------------------------------------
(***************************************************************************)
(* The recursion in PartsOf has one solution, which appends the parts of   *)
(* one packet after the other.                                             *)
(***************************************************************************)
Sums(f, s) ==
    f = [i \in 0..Len(s) |-> IF i = 0 THEN <<>> ELSE f[i - 1] \o Parts(s[i])]

\* It has a solution.
LEMMA SumsExist ==
    ASSUME NEW s \in Seq(Packets) PROVE \E f : Sums(f, s)
<1> DEFINE G == {t \in Seq(Packets) : \E f : Sums(f, t)}
<1>1. <<>> \in G
  <2> DEFINE f == [i \in 0..0 |-> <<>>]
  <2>1. Len(<<>>) = 0 /\ \A i \in 0..0 : i = 0
    OBVIOUS
  <2>2. f = [i \in 0..0 |-> IF i = 0 THEN <<>> ELSE f[i - 1] \o Parts(<<>>[i])]
    BY <2>1
  <2>3. Sums(f, <<>>)
    BY <2>1, <2>2 DEF Sums
  <2> QED BY <2>3
<1>2. ASSUME NEW t \in Seq(Packets), NEW e \in Packets, t \in G PROVE Append(t, e) \in G
  <2>1. PICK f : Sums(f, t)
    BY <1>2
  <2> DEFINE n == Len(t)
             g == [i \in 0..(n + 1) |-> IF i <= n THEN f[i] ELSE f[n] \o Parts(e)]
             u == Append(t, e)
  <2>2. /\ u \in Seq(Packets) /\ Len(u) = n + 1 /\ u[n + 1] = e /\ n \in Nat
        /\ \A i \in 1..n : u[i] = t[i]
    BY AppendProperties, LenProperties
  <2> HIDE DEF u
  <2>3. ASSUME NEW i \in 0..(n + 1)
        PROVE  g[i] = IF i = 0 THEN <<>> ELSE g[i - 1] \o Parts(u[i])
    <3>1. CASE i = 0
      BY <3>1, <2>1, <2>2 DEF Sums
    <3>2. CASE i \in 1..n
      <4>1. i \in 0..n /\ i # 0 /\ u[i] = t[i]
        BY <3>2, <2>2
      <4>2. f[i] = f[i - 1] \o Parts(t[i])
        BY <4>1, <2>1 DEF Sums
      <4>3. g[i] = f[i] /\ g[i - 1] = f[i - 1]
        BY <3>2, <2>2
      <4> HIDE DEF g
      <4> QED BY <4>1, <4>2, <4>3
    <3>3. CASE i = n + 1
      <4>1. g[i] = f[n] \o Parts(e) /\ g[i - 1] = f[n] /\ i # 0
        BY <3>3, <2>2
      <4> QED BY <4>1, <3>3, <2>2
    <3> QED BY <3>1, <3>2, <3>3, <2>2
  <2>4. g = [i \in 0..Len(u) |-> IF i = 0 THEN <<>> ELSE g[i - 1] \o Parts(u[i])]
    <3> HIDE DEF n
    <3>1. g = [i \in 0..(n + 1) |-> g[i]]
      OBVIOUS
    <3> HIDE DEF g
    <3> QED BY <3>1, <2>3, <2>2
  <2> HIDE DEF g
  <2>5. Sums(g, u)
    BY <2>4 DEF Sums
  <2> QED BY <2>5, <2>2 DEF u
<1>3. Seq(Packets) \subseteq G
  <2> HIDE DEF G
  <2> QED BY <1>1, <1>2, SequencesByInduction
<1> QED
  BY <1>3

\* Solutions agree on what two sequences have in common.
LEMMA SumsAgree ==
    ASSUME NEW s \in Seq(Packets), NEW t \in Seq(Packets), NEW f, NEW g, Sums(f, s), Sums(g, t),
           Len(s) <= Len(t), \A i \in 1..Len(s) : s[i] = t[i]
    PROVE  f[Len(s)] = g[Len(s)]
<1> DEFINE G == {n \in Nat : n <= Len(s) => f[n] = g[n]}
<1>1. Len(s) \in Nat /\ Len(t) \in Nat
  BY LenProperties
<1>2. 0 \in G
  BY <1>1 DEF Sums
<1>3. ASSUME NEW n \in Nat, n \in G PROVE n + 1 \in G
  <2> SUFFICES ASSUME n + 1 <= Len(s) PROVE f[n + 1] = g[n + 1]
    BY <1>3
  <2>1. n + 1 \in 0..Len(s) /\ n + 1 \in 0..Len(t) /\ n + 1 # 0 /\ (n + 1) - 1 = n
    BY <1>1
  <2>2. f[n + 1] = f[n] \o Parts(s[n + 1]) /\ g[n + 1] = g[n] \o Parts(t[n + 1])
    BY <2>1 DEF Sums
  <2>3. s[n + 1] = t[n + 1] /\ f[n] = g[n]
    BY <1>1, <1>3
  <2> QED BY <2>2, <2>3
<1>4. Nat \subseteq G
  <2> HIDE DEF G
  <2> QED BY <1>2, <1>3, NumbersByInduction
<1> QED
  BY <1>1, <1>4

\* PartsOf is the last value of a solution.
LEMMA PartsOfSolves ==
    ASSUME NEW s \in Seq(Packets) PROVE \E f : Sums(f, s) /\ PartsOf(s) = f[Len(s)]
<1> DEFINE f == CHOOSE g : Sums(g, s)
<1>1. Sums(f, s)
  BY SumsExist
<1>2. PartsOf(s) = f[Len(s)]
  BY DEF PartsOf, Sums
<1> QED
  BY <1>1, <1>2

\* So PartsOf of no packets is empty and of one more packet longer by its parts.
LEMMA PartsOfAppend ==
    /\ PartsOf(<<>>) = <<>>
    /\ \A s \in Seq(Packets), p \in Packets : PartsOf(Append(s, p)) = PartsOf(s) \o Parts(p)
<1>1. PartsOf(<<>>) = <<>>
  <2> DEFINE none == <<>>
  <2>1. none \in Seq(Packets) /\ Len(none) = 0
    OBVIOUS
  <2> HIDE DEF none
  <2>2. PICK f : Sums(f, none) /\ PartsOf(none) = f[Len(none)]
    BY <2>1, PartsOfSolves
  <2>3. 0 \in 0..Len(none)
    BY <2>1
  <2> QED BY <2>1, <2>2, <2>3 DEF Sums, none
<1>2. ASSUME NEW s \in Seq(Packets), NEW p \in Packets
      PROVE  PartsOf(Append(s, p)) = PartsOf(s) \o Parts(p)
  <2> DEFINE u == Append(s, p)
  <2>1. /\ u \in Seq(Packets) /\ Len(u) = Len(s) + 1 /\ Len(s) \in Nat
        /\ u[Len(s) + 1] = p /\ \A i \in 1..Len(s) : u[i] = s[i]
    BY AppendProperties, LenProperties
  <2> HIDE DEF u
  <2>2. PICK f : Sums(f, s) /\ PartsOf(s) = f[Len(s)]
    BY PartsOfSolves
  <2>3. PICK g : Sums(g, u) /\ PartsOf(u) = g[Len(u)]
    BY <2>1, PartsOfSolves
  <2>4. Len(u) \in 0..Len(u) /\ Len(u) # 0 /\ Len(u) - 1 = Len(s)
    BY <2>1
  <2>5. g[Len(u)] = g[Len(s)] \o Parts(p)
    BY <2>1, <2>3, <2>4 DEF Sums
  <2>6. Len(s) <= Len(u) /\ \A i \in 1..Len(s) : s[i] = u[i]
    BY <2>1
  <2>7. f[Len(s)] = g[Len(s)]
    BY <2>1, <2>2, <2>3, <2>6, SumsAgree
  <2> QED BY <2>2, <2>3, <2>5, <2>7 DEF u
<1> QED
  BY <1>1, <1>2

-----------------------------------------------------------------------------
(***************************************************************************)
(* The part that comes behind a part on the stream as the camera sends it. *)
(* Only the payload of an event is not what After expects.                 *)
(***************************************************************************)
NextPart(part) ==
    IF part.name = "type" THEN "head"
    ELSE IF part.name = "head" THEN (IF part.pkt.type = "event" THEN "body" ELSE "len")
    ELSE IF part.name = "len" /\ part.pkt.body # <<>> THEN "body"
    ELSE "type"

(***************************************************************************)
(* A stream that may begin in a packet but ends with a whole one, and a    *)
(* stream that begins with a packet, too.                                  *)
(***************************************************************************)
Linked(s) ==
    \A i \in 1..Len(s) :
        /\ NextPart(s[i]) # "type" => i < Len(s) /\ s[i + 1].pkt = s[i].pkt
        /\ i < Len(s) => s[i + 1].name = NextPart(s[i])

Framed(s) == Linked(s) /\ (s # <<>> => s[1].name = "type")

\* How NextPart and the code's After agree.
LEMMA FollowingIsNext ==
    ASSUME NEW part \in StreamParts
    PROVE  /\ NextPart(part) = "type" => Following(part) = "type"
           /\ part.pkt.type # "event" => Following(part) = NextPart(part)
           /\ After(part.pkt, part.name) # "done" =>
                 NextPart(part) = After(part.pkt, part.name) /\ NextPart(part) # "type"
           /\ NextPart(part) \in {"type", "head", "len", "body"}
<1>1. /\ part.name \in {"type", "head", "len", "body"}
      /\ part.pkt.type = "event" => part.pkt.body # <<>>
  <2>1. Event.body # <<>>
    BY DEF Event
  <2> QED BY <2>1 DEF StreamParts, Packets, DataPackets, ResponsePackets
<1>2. CASE part.name = "type"
  BY <1>2 DEF NextPart, Following, After
<1>3. CASE part.name = "head"
  BY <1>3 DEF NextPart, Following, After
<1>4. CASE part.name = "len"
  BY <1>1, <1>4 DEF NextPart, Following, After
<1>5. CASE part.name = "body"
  BY <1>5 DEF NextPart, Following, After
<1> QED
  BY <1>1, <1>2, <1>3, <1>4, <1>5

(***************************************************************************)
(* Whole packets may be put behind a stream.                               *)
(***************************************************************************)
LEMMA LinkedConcat ==
    ASSUME NEW s \in Seq(StreamParts), NEW t \in Seq(StreamParts), Linked(s), Framed(t)
    PROVE  Linked(s \o t) /\ (Framed(s) => Framed(s \o t))
<1> DEFINE u == s \o t
<1>1. /\ u \in Seq(StreamParts) /\ Len(u) = Len(s) + Len(t) /\ Len(s) \in Nat /\ Len(t) \in Nat
      /\ \A i \in 1..(Len(s) + Len(t)) : u[i] = IF i <= Len(s) THEN s[i] ELSE t[i - Len(s)]
  BY ConcatProperties, LenProperties
<1> HIDE DEF u
<1>2. ASSUME NEW i \in 1..Len(u)
      PROVE  /\ NextPart(u[i]) # "type" => i < Len(u) /\ u[i + 1].pkt = u[i].pkt
             /\ i < Len(u) => u[i + 1].name = NextPart(u[i])
  <2>1. CASE i < Len(s)
    <3>1. u[i] = s[i] /\ u[i + 1] = s[i + 1] /\ i < Len(u) /\ i \in 1..Len(s)
      BY <1>1, <2>1
    <3> QED BY <2>1, <3>1 DEF Linked
  <2>2. CASE i = Len(s)
    <3>1. u[i] = s[i] /\ i \in 1..Len(s) /\ ~(i < Len(s))
      BY <1>1, <2>2
    <3>2. NextPart(s[i]) = "type"
      BY <3>1 DEF Linked
    <3>3. i < Len(u) => u[i + 1] = t[1] /\ t # <<>>
      BY <1>1, <2>2
    <3> QED BY <3>1, <3>2, <3>3 DEF Framed
  <2>3. CASE i > Len(s)
    <3> DEFINE j == i - Len(s)
    <3>1. /\ j \in 1..Len(t) /\ u[i] = t[j] /\ (i < Len(u) <=> j < Len(t))
          /\ j < Len(t) => u[i + 1] = t[j + 1]
      BY <1>1, <2>3
    <3> HIDE DEF j
    <3> QED BY <3>1 DEF Framed, Linked
  <2> QED BY <1>1, <2>1, <2>2, <2>3
<1>3. Linked(u)
  BY <1>2 DEF Linked
<1>4. Framed(s) => Framed(u)
  <2>1. CASE s = <<>>
    <3>1. u = t
      BY <2>1, ConcatEmptySeq DEF u
    <3> QED BY <3>1
  <2>2. CASE s # <<>>
    <3>1. u[1] = s[1]
      <4>1. Len(s) >= 1
        BY <2>2, EmptySeq
      <4> QED BY <1>1, <4>1
    <3> QED BY <1>3, <2>2, <3>1 DEF Framed
  <2> QED BY <2>1, <2>2
<1> QED
  BY <1>3, <1>4 DEF u

\* The first part may be taken away.
LEMMA LinkedTail ==
    ASSUME NEW s \in Seq(StreamParts), s # <<>>, Linked(s)
    PROVE  Linked(Tail(s))
<1> DEFINE u == Tail(s)
<1>1. /\ Len(u) = Len(s) - 1 /\ Len(s) \in Nat /\ \A i \in 1..Len(u) : u[i] = s[i + 1]
  BY HeadTailProperties, LenProperties
<1> HIDE DEF u
<1>2. ASSUME NEW i \in 1..Len(u)
      PROVE  /\ NextPart(u[i]) # "type" => i < Len(u) /\ u[i + 1].pkt = u[i].pkt
             /\ i < Len(u) => u[i + 1].name = NextPart(u[i])
  <2> DEFINE j == i + 1
  <2>1. j \in 1..Len(s) /\ u[i] = s[j] /\ (i < Len(u) <=> j < Len(s))
        /\ (i < Len(u) => u[i + 1] = s[j + 1])
    BY <1>1
  <2> HIDE DEF j
  <2> QED BY <2>1 DEF Linked
<1> QED
  BY <1>2 DEF Linked, u

\* The tuples that Parts joins.
LEMMA ShortJoins ==
    ASSUME NEW S, NEW a \in S, NEW b \in S, NEW c \in S, NEW d \in S
    PROVE  /\ LET s == <<a, b>> \o <<>> \o <<c>>
              IN  Len(s) = 3 /\ s[1] = a /\ s[2] = b /\ s[3] = c
           /\ LET s == <<a, b>> \o <<c>> \o <<>>
              IN  Len(s) = 3 /\ s[1] = a /\ s[2] = b /\ s[3] = c
           /\ LET s == <<a, b>> \o <<c>> \o <<d>>
              IN  Len(s) = 4 /\ s[1] = a /\ s[2] = b /\ s[3] = c /\ s[4] = d
<1> DEFINE x == <<a, b>>
           y == <<c>>
           z == <<d>>
           none == <<>>
<1>1. /\ x \in Seq(S) /\ Len(x) = 2 /\ x[1] = a /\ x[2] = b
      /\ y \in Seq(S) /\ Len(y) = 1 /\ y[1] = c
      /\ z \in Seq(S) /\ Len(z) = 1 /\ z[1] = d
  OBVIOUS
<1> HIDE DEF x, y, z
<1>2. x \o none = x /\ (x \o y) \in Seq(S) /\ (x \o y) \o none = x \o y
  BY <1>1, ConcatEmptySeq, ConcatProperties
<1> DEFINE v == x \o y
           w == v \o z
<1>3. v \in Seq(S) /\ Len(v) = 3 /\ v[1] = a /\ v[2] = b /\ v[3] = c
  <2>1. /\ v \in Seq(S) /\ Len(v) = Len(x) + Len(y)
        /\ \A i \in 1..(Len(x) + Len(y)) : v[i] = IF i <= Len(x) THEN x[i] ELSE y[i - Len(x)]
    BY <1>1, ConcatProperties
  <2> HIDE DEF v
  <2> QED BY <1>1, <2>1
<1> HIDE DEF v
<1>4. Len(w) = 4 /\ w[1] = a /\ w[2] = b /\ w[3] = c /\ w[4] = d
  <2>1. /\ Len(w) = Len(v) + Len(z)
        /\ \A i \in 1..(Len(v) + Len(z)) : w[i] = IF i <= Len(v) THEN v[i] ELSE z[i - Len(v)]
    BY <1>1, <1>3, ConcatProperties
  <2> HIDE DEF w
  <2> QED BY <1>1, <1>3, <2>1
<1> HIDE DEF w, none
<1>5. x \o none \o y = v /\ x \o y \o none = v /\ x \o y \o z = w
  BY <1>2 DEF v, w
<1> QED
  BY <1>3, <1>4, <1>5 DEF x, y, z, none

(***************************************************************************)
(* The parts of a packet are a stream that begins and ends with it.        *)
(***************************************************************************)
LEMMA PartsAreFramed ==
    ASSUME NEW p \in Packets
    PROVE  /\ Parts(p) \in Seq(StreamParts) /\ Len(Parts(p)) \in Nat \ {0}
           /\ Framed(Parts(p))
           /\ \A i \in 1..Len(Parts(p)) : Parts(p)[i].pkt = p
<1> DEFINE part(name) == [name |-> name, pkt |-> p]
           event == p.type = "event"
           empty == p.body = <<>>
<1>1. event => ~empty
  BY DEF Event, Packets, DataPackets, ResponsePackets
<1>2. /\ Parts(p) \in Seq(StreamParts) /\ Len(Parts(p)) \in Nat \ {0}
      /\ \A i \in 1..Len(Parts(p)) : Parts(p)[i].pkt = p
  BY PartsOfPacket DEF Pieces
<1> DEFINE s == Parts(p)
           t == part("type")
           h == part("head")
           l == part("len")
           b == part("body")
<1>3. s = <<t, h>> \o (IF event THEN <<>> ELSE <<l>>) \o (IF empty THEN <<>> ELSE <<b>>)
  BY DEF Parts
<1>4. t \in StreamParts /\ h \in StreamParts /\ l \in StreamParts /\ b \in StreamParts
  BY DEF StreamParts
<1> HIDE DEF t, h, l, b
<1>5. /\ LET u == <<t, h>> \o <<>> \o <<b>>
         IN  Len(u) = 3 /\ u[1] = t /\ u[2] = h /\ u[3] = b
      /\ LET u == <<t, h>> \o <<l>> \o <<>>
         IN  Len(u) = 3 /\ u[1] = t /\ u[2] = h /\ u[3] = l
      /\ LET u == <<t, h>> \o <<l>> \o <<b>>
         IN  Len(u) = 4 /\ u[1] = t /\ u[2] = h /\ u[3] = l /\ u[4] = b
  BY <1>4, ShortJoins
<1>6. CASE event
  <2>1. s = <<t, h>> \o <<>> \o <<b>>
    <3> HIDE DEF s, event, empty
    <3> QED BY <1>1, <1>3, <1>6
  <2>2. Len(s) = 3 /\ s[1] = t /\ s[2] = h /\ s[3] = b
    BY <1>5, <2>1
  <2> HIDE DEF s
  <2>3. s # <<>> /\ \A i \in 1..Len(s) : i = 1 \/ i = 2 \/ i = 3
    BY <2>2
  <2>4. /\ NextPart(s[1]) = "head" /\ NextPart(s[2]) = "body" /\ NextPart(s[3]) = "type"
        /\ s[1].name = "type" /\ s[2].name = "head" /\ s[3].name = "body"
        /\ s[1].pkt = p /\ s[2].pkt = p /\ s[3].pkt = p
    BY <1>6, <2>2 DEF NextPart, t, h, l, b
  <2>5. Framed(s)
    BY <2>2, <2>3, <2>4 DEF Framed, Linked
  <2> QED BY <1>2, <2>5 DEF s
<1>7. CASE ~event /\ empty
  <2>1. s = <<t, h>> \o <<l>> \o <<>>
    <3> HIDE DEF s, event, empty
    <3> QED BY <1>1, <1>3, <1>7
  <2>2. Len(s) = 3 /\ s[1] = t /\ s[2] = h /\ s[3] = l
    BY <1>5, <2>1
  <2> HIDE DEF s
  <2>3. s # <<>> /\ \A i \in 1..Len(s) : i = 1 \/ i = 2 \/ i = 3
    BY <2>2
  <2>4. /\ NextPart(s[1]) = "head" /\ NextPart(s[2]) = "len" /\ NextPart(s[3]) = "type"
        /\ s[1].name = "type" /\ s[2].name = "head" /\ s[3].name = "len"
        /\ s[1].pkt = p /\ s[2].pkt = p /\ s[3].pkt = p
    BY <1>7, <2>2 DEF NextPart, t, h, l, b
  <2>5. Framed(s)
    BY <2>2, <2>3, <2>4 DEF Framed, Linked
  <2> QED BY <1>2, <2>5 DEF s
<1>8. CASE ~event /\ ~empty
  <2>1. s = <<t, h>> \o <<l>> \o <<b>>
    <3> HIDE DEF s, event, empty
    <3> QED BY <1>1, <1>3, <1>8
  <2>2. /\ Len(s) = 4 /\ s[1] = t /\ s[2] = h /\ s[3] = l /\ s[4] = b
    BY <1>5, <2>1
  <2> HIDE DEF s
  <2>3. s # <<>> /\ \A i \in 1..Len(s) : i = 1 \/ i = 2 \/ i = 3 \/ i = 4
    BY <2>2
  <2>4. /\ NextPart(s[1]) = "head" /\ NextPart(s[2]) = "len" /\ NextPart(s[3]) = "body"
        /\ NextPart(s[4]) = "type"
        /\ s[1].name = "type" /\ s[2].name = "head" /\ s[3].name = "len" /\ s[4].name = "body"
        /\ s[1].pkt = p /\ s[2].pkt = p /\ s[3].pkt = p /\ s[4].pkt = p
    BY <1>8, <2>2 DEF NextPart, t, h, l, b
  <2>5. Framed(s)
    BY <2>2, <2>3, <2>4 DEF Framed, Linked
  <2> QED BY <1>2, <2>5 DEF s
<1> QED
  BY <1>2, <1>6, <1>7, <1>8

\* So are the parts of several packets, and each is a part of one of them.
LEMMA PartsOfIsFramed ==
    ASSUME NEW s \in Seq(Packets)
    PROVE  /\ PartsOf(s) \in Seq(StreamParts) /\ Framed(PartsOf(s))
           /\ \A i \in 1..Len(PartsOf(s)) : \E j \in 1..Len(s) : PartsOf(s)[i].pkt = s[j]
<1> DEFINE Good(t) ==
               /\ PartsOf(t) \in Seq(StreamParts) /\ Framed(PartsOf(t))
               /\ \A i \in 1..Len(PartsOf(t)) : \E j \in 1..Len(t) : PartsOf(t)[i].pkt = t[j]
           G == {t \in Seq(Packets) : Good(t)}
<1>1. <<>> \in G
  <2> DEFINE none == <<>>
  <2>1. PartsOf(none) = none /\ Len(none) = 0 /\ none \in Seq(Packets) /\ none \in Seq(StreamParts)
    BY PartsOfAppend
  <2> HIDE DEF none
  <2>2. 1..Len(none) = {} /\ (none # <<>> => none[1].name = "type")
    BY <2>1 DEF none
  <2>3. Framed(none)
    BY <2>2 DEF Framed, Linked
  <2>4. none \in G
    BY <2>1, <2>2, <2>3
  <2> QED BY <2>4 DEF none
<1>2. ASSUME NEW t \in Seq(Packets), NEW p \in Packets, t \in G PROVE Append(t, p) \in G
  <2> DEFINE u == Append(t, p)
             x == PartsOf(t)
             y == Parts(p)
  <2>1. /\ u \in Seq(Packets) /\ Len(u) = Len(t) + 1 /\ Len(t) \in Nat
        /\ u[Len(t) + 1] = p /\ \A i \in 1..Len(t) : u[i] = t[i]
    BY AppendProperties, LenProperties
  <2>2. PartsOf(u) = x \o y
    BY PartsOfAppend
  <2>3. /\ x \in Seq(StreamParts) /\ Framed(x)
        /\ \A i \in 1..Len(x) : \E j \in 1..Len(t) : x[i].pkt = t[j]
    BY <1>2
  <2>4. y \in Seq(StreamParts) /\ Framed(y) /\ \A i \in 1..Len(y) : y[i].pkt = p
    BY PartsAreFramed
  <2> HIDE DEF u, x, y
  <2>5. Framed(x \o y)
    BY <2>3, <2>4, LinkedConcat DEF Framed
  <2>6. /\ x \o y \in Seq(StreamParts) /\ Len(x \o y) = Len(x) + Len(y)
        /\ \A i \in 1..(Len(x) + Len(y)) : (x \o y)[i] = IF i <= Len(x) THEN x[i] ELSE y[i - Len(x)]
    BY <2>3, <2>4, ConcatProperties
  <2>7. ASSUME NEW i \in 1..Len(x \o y) PROVE \E j \in 1..Len(u) : (x \o y)[i].pkt = u[j]
    <3>1. Len(x) \in Nat /\ Len(y) \in Nat
      BY <2>3, <2>4, LenProperties
    <3>2. CASE i <= Len(x)
      <4>1. i \in 1..Len(x) /\ (x \o y)[i] = x[i]
        BY <2>6, <3>1, <3>2
      <4>2. PICK j \in 1..Len(t) : x[i].pkt = t[j]
        BY <2>3, <4>1
      <4>3. j \in 1..Len(u) /\ u[j] = t[j]
        BY <2>1
      <4> QED BY <4>1, <4>2, <4>3
    <3>3. CASE i > Len(x)
      <4>1. i - Len(x) \in 1..Len(y) /\ (x \o y)[i] = y[i - Len(x)]
        BY <2>6, <3>1, <3>3
      <4>2. (x \o y)[i].pkt = p
        BY <2>4, <4>1
      <4>3. Len(t) + 1 \in 1..Len(u)
        BY <2>1
      <4> QED BY <4>2, <4>3, <2>1
    <3> QED BY <2>6, <3>1, <3>2, <3>3
  <2>8. Good(u)
    BY <2>2, <2>5, <2>6, <2>7
  <2> HIDE DEF Good
  <2> QED BY <2>1, <2>8 DEF u
<1> HIDE DEF Good
<1>3. Seq(Packets) \subseteq G
  <2> HIDE DEF G
  <2> QED BY <1>1, <1>2, SequencesByInduction
<1>4. Good(s)
  BY <1>3
<1> QED
  BY <1>4 DEF Good

\* The parts of concatenated packets are the concatenated parts.
LEMMA PartsOfConcat ==
    ASSUME NEW s \in Seq(Packets), NEW t \in Seq(Packets)
    PROVE  PartsOf(s \o t) = PartsOf(s) \o PartsOf(t)
<1> DEFINE G == {u \in Seq(Packets) : PartsOf(s \o u) = PartsOf(s) \o PartsOf(u)}
<1>1. <<>> \in G
  <2>1. s \o <<>> = s /\ PartsOf(s) \o <<>> = PartsOf(s) /\ PartsOf(<<>>) = <<>>
    BY ConcatEmptySeq, PartsOfIsFramed, PartsOfAppend
  <2>2. <<>> \in Seq(Packets)
    OBVIOUS
  <2> QED BY <2>1, <2>2
<1>2. ASSUME NEW u \in Seq(Packets), NEW p \in Packets, u \in G PROVE Append(u, p) \in G
  <2> DEFINE e == <<p>>
  <2>1. e \in Seq(Packets) /\ Append(u, p) = u \o e
    BY AppendIsConcat
  <2>2. s \o u \in Seq(Packets) /\ Append(s \o u, p) = (s \o u) \o e
    BY ConcatProperties, AppendIsConcat
  <2> HIDE DEF e
  <2>3. s \o Append(u, p) = Append(s \o u, p)
    BY <2>1, <2>2, ConcatAssociative
  <2>4. PartsOf(Append(s \o u, p)) = PartsOf(s \o u) \o Parts(p)
    BY <2>2, PartsOfAppend
  <2>5. PartsOf(s \o u) = PartsOf(s) \o PartsOf(u)
    BY <1>2
  <2>6. (PartsOf(s) \o PartsOf(u)) \o Parts(p) = PartsOf(s) \o (PartsOf(u) \o Parts(p))
    <3>1. /\ PartsOf(s) \in Seq(StreamParts) /\ PartsOf(u) \in Seq(StreamParts)
          /\ Parts(p) \in Seq(StreamParts)
      BY PartsOfIsFramed, PartsAreFramed
    <3> QED BY <3>1, ConcatAssociative
  <2>7. PartsOf(Append(u, p)) = PartsOf(u) \o Parts(p)
    BY PartsOfAppend
  <2>8. Append(u, p) \in Seq(Packets)
    BY AppendProperties
  <2> QED BY <2>3, <2>4, <2>5, <2>6, <2>7, <2>8
<1>3. Seq(Packets) \subseteq G
  <2> HIDE DEF G
  <2> QED BY <1>1, <1>2, SequencesByInduction
<1> QED
  BY <1>3

\* The parts of packets are those of the first and those of the others.
LEMMA PartsOfHeadTail ==
    ASSUME NEW s \in Seq(Packets), s # <<>>
    PROVE  PartsOf(s) = Parts(Head(s)) \o PartsOf(Tail(s))
<1> DEFINE e == <<Head(s)>>
           none == <<>>
<1>1. Head(s) \in Packets /\ Tail(s) \in Seq(Packets) /\ none \in Seq(Packets)
  BY HeadTailProperties
<1>2. e \in Seq(Packets) /\ Append(none, Head(s)) = e /\ s = e \o Tail(s)
  BY <1>1
<1>3. PartsOf(e) = none \o Parts(Head(s))
  BY <1>1, <1>2, PartsOfAppend
<1>4. none \o Parts(Head(s)) = Parts(Head(s))
  BY <1>1, PartsAreFramed, ConcatEmptySeq
<1> HIDE DEF e, none
<1> QED
  BY <1>1, <1>2, <1>3, <1>4, PartsOfConcat

-----------------------------------------------------------------------------
(***************************************************************************)
(* What is left of a sequence behind its first n elements.                 *)
(***************************************************************************)
Rest(s, n) == SubSeq(s, n + 1, Len(s))

\* Its elements.
LEMMA RestElements ==
    ASSUME NEW S, NEW s \in Seq(S), NEW n \in 0..Len(s)
    PROVE  /\ Rest(s, n) \in Seq(S) /\ Len(Rest(s, n)) = Len(s) - n
           /\ \A i \in 1..(Len(s) - n) : Rest(s, n)[i] = s[n + i]
<1>1. Len(s) \in Nat /\ n \in Nat /\ n <= Len(s)
  BY LenProperties
<1> DEFINE m == n + 1
           k == Len(s)
           u == SubSeq(s, m, k)
<1>2. m \in Int /\ k \in Int /\ \A i \in m..k : s[i] \in S
  <2>1. \A i \in m..k : i \in 1..Len(s)
    BY <1>1
  <2> QED BY <1>1, <2>1, ElementOfSeq
<1>3. u \in Seq(S) /\ Len(u) = (IF m <= k THEN k - m + 1 ELSE 0)
      /\ \A i \in 1..(k - m + 1) : u[i] = s[m + i - 1]
  <2> HIDE DEF m, k
  <2> QED BY <1>2, SubSeqProperties
<1>4. Rest(s, n) = u
  BY DEF Rest
<1> HIDE DEF u
<1>5. Len(u) = Len(s) - n /\ k - m + 1 = Len(s) - n
  BY <1>1, <1>3
<1>6. ASSUME NEW i \in 1..(Len(s) - n) PROVE u[i] = s[n + i]
  <2>1. m + i - 1 = n + i /\ i \in 1..(k - m + 1)
    BY <1>1
  <2> HIDE DEF m, k
  <2> QED BY <1>3, <2>1
<1> QED
  BY <1>3, <1>4, <1>5, <1>6

\* Nothing is taken from what is put behind.
LEMMA RestOfConcat ==
    ASSUME NEW S, NEW s \in Seq(S), NEW t \in Seq(S), NEW n \in 0..Len(s)
    PROVE  Rest(s \o t, n) = Rest(s, n) \o t
<1> DEFINE st == s \o t
           r == Rest(s, n)
           x == Rest(st, n)
           y == r \o t
<1>1. /\ st \in Seq(S) /\ Len(st) = Len(s) + Len(t) /\ Len(s) \in Nat /\ Len(t) \in Nat
      /\ \A i \in 1..(Len(s) + Len(t)) : st[i] = IF i <= Len(s) THEN s[i] ELSE t[i - Len(s)]
  BY ConcatProperties, LenProperties
<1>2. r \in Seq(S) /\ Len(r) = Len(s) - n /\ \A i \in 1..(Len(s) - n) : r[i] = s[n + i]
  BY RestElements
<1> HIDE DEF st, r
<1>3. n \in 0..Len(st) /\ n \in Nat /\ n <= Len(s)
  BY <1>1
<1>4. x \in Seq(S) /\ Len(x) = Len(st) - n /\ \A i \in 1..(Len(st) - n) : x[i] = st[n + i]
  BY <1>1, <1>3, RestElements
<1>5. /\ y \in Seq(S) /\ Len(y) = Len(r) + Len(t)
      /\ \A i \in 1..(Len(r) + Len(t)) : y[i] = IF i <= Len(r) THEN r[i] ELSE t[i - Len(r)]
  BY <1>2, ConcatProperties
<1> HIDE DEF x, y
<1>6. Len(x) = Len(y)
  BY <1>1, <1>2, <1>3, <1>4, <1>5
<1>7. ASSUME NEW i \in 1..Len(x) PROVE x[i] = y[i]
  <2>1. /\ i \in 1..(Len(st) - n) /\ i \in 1..(Len(r) + Len(t))
        /\ n + i \in 1..(Len(s) + Len(t)) /\ i \in Nat
    BY <1>1, <1>2, <1>3, <1>4, <1>5
  <2>2. x[i] = IF n + i <= Len(s) THEN s[n + i] ELSE t[n + i - Len(s)]
    BY <1>1, <1>4, <2>1
  <2>3. y[i] = IF i <= Len(r) THEN r[i] ELSE t[i - Len(r)]
    BY <1>5, <2>1
  <2>4. CASE i <= Len(r)
    <3>1. i \in 1..(Len(s) - n) /\ n + i <= Len(s)
      BY <1>1, <1>2, <1>3, <2>1, <2>4
    <3> QED BY <1>2, <2>2, <2>3, <2>4, <3>1
  <2>5. CASE ~(i <= Len(r))
    <3>1. ~(n + i <= Len(s)) /\ n + i - Len(s) = i - Len(r)
      BY <1>1, <1>2, <1>3, <2>1, <2>5
    <3> QED BY <2>2, <2>3, <2>5, <3>1
  <2> QED BY <2>4, <2>5
<1>8. x = y
  BY <1>4, <1>5, <1>6, <1>7, SeqEqual
<1> QED
  BY <1>8 DEF x, y, st, r

\* Nor by taking the first element away.
LEMMA TailOfConcat ==
    ASSUME NEW S, NEW s \in Seq(S), NEW t \in Seq(S), s # <<>>
    PROVE  /\ s \o t # <<>> /\ (s \o t)[1] = Head(s)
           /\ Tail(s \o t) = Tail(s) \o t
<1> DEFINE st == s \o t
           r == Tail(s)
           x == Tail(st)
           y == r \o t
<1>1. /\ st \in Seq(S) /\ Len(st) = Len(s) + Len(t) /\ Len(s) \in Nat /\ Len(t) \in Nat
      /\ \A i \in 1..(Len(s) + Len(t)) : st[i] = IF i <= Len(s) THEN s[i] ELSE t[i - Len(s)]
  BY ConcatProperties, LenProperties
<1>2. /\ r \in Seq(S) /\ Len(r) = Len(s) - 1 /\ Len(s) >= 1
      /\ \A i \in 1..Len(r) : r[i] = s[i + 1]
  BY HeadTailProperties, EmptySeq
<1>3. Head(s) = s[1]
  OBVIOUS
<1>4. st # <<>>
  <2>1. Len(st) # 0
    BY <1>1, <1>2
  <2> HIDE DEF st
  <2> QED BY <2>1
<1> HIDE DEF st, r
<1>5. st[1] = s[1]
  BY <1>1, <1>2
<1>6. x \in Seq(S) /\ Len(x) = Len(st) - 1 /\ \A i \in 1..Len(x) : x[i] = st[i + 1]
  BY <1>1, <1>4, HeadTailProperties
<1>7. /\ y \in Seq(S) /\ Len(y) = Len(r) + Len(t)
      /\ \A i \in 1..(Len(r) + Len(t)) : y[i] = IF i <= Len(r) THEN r[i] ELSE t[i - Len(r)]
  <2>1. r \in Seq(S)
    BY <1>2
  <2> QED BY <2>1, ConcatProperties
<1> HIDE DEF x, y
<1>8. Len(x) = Len(y)
  BY <1>1, <1>2, <1>6, <1>7
<1>9. ASSUME NEW i \in 1..Len(x) PROVE x[i] = y[i]
  <2>1. /\ i \in 1..(Len(r) + Len(t)) /\ i + 1 \in 1..(Len(s) + Len(t)) /\ i \in Nat
    BY <1>1, <1>2, <1>6, <1>7
  <2>2. x[i] = IF i + 1 <= Len(s) THEN s[i + 1] ELSE t[i + 1 - Len(s)]
    BY <1>1, <1>6, <2>1
  <2>3. y[i] = IF i <= Len(r) THEN r[i] ELSE t[i - Len(r)]
    BY <1>7, <2>1
  <2>4. CASE i <= Len(r)
    <3>1. i \in 1..Len(r) /\ i + 1 <= Len(s)
      BY <1>1, <1>2, <2>1, <2>4
    <3> QED BY <1>2, <2>2, <2>3, <2>4, <3>1
  <2>5. CASE ~(i <= Len(r))
    <3>1. ~(i + 1 <= Len(s)) /\ i + 1 - Len(s) = i - Len(r)
      BY <1>1, <1>2, <2>1, <2>5
    <3> QED BY <2>2, <2>3, <2>5, <3>1
  <2> QED BY <2>4, <2>5
<1>10. x = y
  BY <1>6, <1>7, <1>8, <1>9, SeqEqual
<1> QED
  BY <1>3, <1>4, <1>5, <1>10 DEF x, y, st, r

-----------------------------------------------------------------------------
(***************************************************************************)
(* The unread parts are those on the wire and behind them what is left of  *)
(* the packets that were sent.                                             *)
(***************************************************************************)
Coming == Rest(PartsOf(outbox), arrived)

LEMMA UnreadParts ==
    ASSUME FlowTypes
    PROVE  /\ PartsOf(outbox) \in Seq(StreamParts) /\ arrived \in 0..Len(PartsOf(outbox))
           /\ outbox # <<>> => Head(outbox) \in Packets /\ Tail(outbox) \in Seq(Packets)
                               /\ PartsOf(outbox) = Parts(Head(outbox)) \o PartsOf(Tail(outbox))
           /\ Coming \in Seq(StreamParts) /\ wire \in Seq(StreamParts)
           /\ Unread = wire \o Coming /\ Unread \in Seq(StreamParts)
<1>1. /\ outbox \in Seq(Packets) /\ wire \in Seq(StreamParts) /\ arrived \in Nat
      /\ IF outbox = <<>> THEN arrived = 0 ELSE arrived < Len(Parts(Head(outbox)))
  BY DEF FlowTypes
<1>2. PartsOf(outbox) \in Seq(StreamParts) /\ Len(PartsOf(outbox)) \in Nat
  BY <1>1, PartsOfIsFramed, LenProperties
<1>3. ASSUME outbox # <<>>
      PROVE  /\ Head(outbox) \in Packets /\ Tail(outbox) \in Seq(Packets)
             /\ PartsOf(outbox) = Parts(Head(outbox)) \o PartsOf(Tail(outbox))
  BY <1>1, <1>3, HeadTailProperties, PartsOfHeadTail
<1>4. arrived \in 0..Len(PartsOf(outbox))
  <2>1. CASE outbox = <<>>
    BY <1>1, <1>2, <2>1
  <2>2. CASE outbox # <<>>
    <3> DEFINE x == Parts(Head(outbox))
               y == PartsOf(Tail(outbox))
    <3>1. x \in Seq(StreamParts) /\ y \in Seq(StreamParts)
      BY <1>3, <2>2, PartsAreFramed, PartsOfIsFramed
    <3>2. arrived < Len(x) /\ PartsOf(outbox) = x \o y
      BY <1>1, <1>3, <2>2
    <3> HIDE DEF x, y
    <3>3. Len(PartsOf(outbox)) = Len(x) + Len(y) /\ Len(x) \in Nat /\ Len(y) \in Nat
      BY <3>1, <3>2, ConcatProperties, LenProperties
    <3> QED BY <1>1, <3>2, <3>3
  <2> QED BY <2>1, <2>2
<1>5. Coming \in Seq(StreamParts)
  BY <1>2, <1>4, RestElements DEF Coming
<1>6. Unread = wire \o Coming
  BY DEF Unread, Coming, Rest
<1> QED
  BY <1>1, <1>2, <1>3, <1>4, <1>5, <1>6, ConcatProperties

(***************************************************************************)
(* A part that arrives stays unread: the network neither loses nor moves   *)
(* any.                                                                    *)
(***************************************************************************)
LEMMA ArriveKeepsUnread ==
    ASSUME FlowTypes, FlowTypes', Arrive PROVE Unread' = Unread
<1> DEFINE x == Parts(Head(outbox))
           y == PartsOf(Tail(outbox))
           part == x[arrived + 1]
           sent == PartsOf(outbox)
<1>1. /\ outbox # <<>> /\ wire' = Append(wire, part)
      /\ IF arrived + 1 < Len(x) THEN arrived' = arrived + 1 /\ UNCHANGED outbox
         ELSE arrived' = 0 /\ outbox' = Tail(outbox)
  BY DEF Arrive
<1>2. /\ x \in Seq(StreamParts) /\ y \in Seq(StreamParts) /\ sent = x \o y
      /\ wire \in Seq(StreamParts) /\ sent \in Seq(StreamParts)
      /\ Unread = wire \o Rest(sent, arrived)
  BY <1>1, UnreadParts, PartsAreFramed, PartsOfIsFramed DEF Coming
<1>3. arrived \in Nat /\ arrived < Len(x) /\ Len(x) \in Nat
  BY <1>1, <1>2, LenProperties DEF FlowTypes
<1>4. Unread' = wire' \o Rest(PartsOf(outbox'), arrived')
  BY UnreadParts DEF Unread, Rest
<1> HIDE DEF x, y
<1>5. /\ arrived + 1 \in 1..Len(x) /\ Len(sent) = Len(x) + Len(y) /\ Len(y) \in Nat
      /\ arrived + 1 \in 0..Len(sent) /\ arrived + 1 \in 1..Len(sent) /\ sent[arrived + 1] = part
  <2> HIDE DEF sent
  <2>1. /\ Len(sent) = Len(x) + Len(y) /\ Len(y) \in Nat
        /\ \A i \in 1..(Len(x) + Len(y)) : sent[i] = IF i <= Len(x) THEN x[i] ELSE y[i - Len(x)]
    BY <1>2, ConcatProperties, LenProperties
  <2> QED BY <1>3, <2>1
<1>6. part \in StreamParts
  BY <1>2, <1>5, ElementOfSeq
<1> HIDE DEF part, sent
<1> DEFINE e == <<part>>
           left == Rest(sent, arrived + 1)
<1>7. e \in Seq(StreamParts) /\ wire' = wire \o e
  BY <1>1, <1>2, <1>6, AppendIsConcat
<1>8. left \in Seq(StreamParts)
  BY <1>2, <1>5, RestElements
<1>9. Rest(sent, arrived) = e \o left
  <2>1. Len(sent) \in (arrived + 1)..Len(sent)
    BY <1>3, <1>5
  <2>2. SubSeq(sent, arrived + 1, Len(sent)) = e \o SubSeq(sent, arrived + 1 + 1, Len(sent))
    BY <1>2, <1>5, <2>1, SubSeqRecursiveFirst
  <2> QED BY <2>2 DEF Rest
<1> HIDE DEF e, left
<1>10. Unread = (wire \o e) \o left
  <2>1. wire \in Seq(StreamParts) /\ e \in Seq(StreamParts)
    BY <1>2, <1>7
  <2>2. (wire \o e) \o left = wire \o (e \o left)
    BY <1>8, <2>1, ConcatAssociative
  <2>3. Unread = wire \o Rest(sent, arrived)
    BY <1>2
  <2> QED BY <1>9, <2>2, <2>3
<1>11. Rest(PartsOf(outbox'), arrived') = left
  <2>1. CASE arrived + 1 < Len(x)
    BY <1>1, <2>1 DEF left, sent
  <2>2. CASE ~(arrived + 1 < Len(x))
    <3>1. arrived' = 0 /\ PartsOf(outbox') = y /\ arrived + 1 = Len(x) /\ Len(x) \in 0..Len(x)
      <4>1. arrived' = 0 /\ outbox' = Tail(outbox)
        BY <1>1, <2>2
      <4>2. PartsOf(outbox') = y
        BY <4>1 DEF y
      <4> QED BY <1>3, <2>2, <4>1, <4>2
    <3>2. left = Rest(x, Len(x)) \o y
      BY <1>2, <3>1, RestOfConcat DEF left
    <3>3. Rest(x, Len(x)) = <<>>
      BY <1>3, SubSeqEmpty DEF Rest
    <3>4. Rest(y, 0) = y
      BY <1>2, SubSeqFull DEF Rest
    <3> QED BY <1>2, <3>1, <3>2, <3>3, <3>4, ConcatEmptySeq
  <2> QED BY <2>1, <2>2
<1> QED
  BY <1>4, <1>7, <1>10, <1>11

(***************************************************************************)
(* The camera sends whole packets, behind everything that is unread.       *)
(***************************************************************************)
LEMMA SentIsUnread ==
    ASSUME FlowTypes, NEW a \in Seq(Packets), outbox' = outbox \o a, UNCHANGED <<wire, arrived>>
    PROVE  Unread' = Unread \o PartsOf(a)
<1> DEFINE sent == PartsOf(outbox)
           new == PartsOf(a)
<1>1. /\ sent \in Seq(StreamParts) /\ new \in Seq(StreamParts) /\ arrived \in 0..Len(sent)
      /\ wire \in Seq(StreamParts) /\ Rest(sent, arrived) \in Seq(StreamParts)
      /\ Unread = wire \o Rest(sent, arrived)
  BY UnreadParts, PartsOfIsFramed DEF Coming
<1>2. PartsOf(outbox') = sent \o new
  BY PartsOfConcat DEF FlowTypes
<1>3. Unread' = wire \o Rest(sent \o new, arrived)
  BY <1>2 DEF Unread, Rest
<1> HIDE DEF sent, new
<1>4. Rest(sent \o new, arrived) = Rest(sent, arrived) \o new
  BY <1>1, RestOfConcat
<1> DEFINE left == Rest(sent, arrived)
<1>5. wire \in Seq(StreamParts) /\ left \in Seq(StreamParts) /\ new \in Seq(StreamParts)
  BY <1>1
<1>6. Unread = wire \o left /\ Unread' = wire \o (left \o new)
  BY <1>1, <1>3, <1>4
<1> HIDE DEF left
<1>7. (wire \o left) \o new = wire \o (left \o new)
  BY <1>5, ConcatAssociative
<1>8. Unread' = Unread \o new
  BY <1>6, <1>7
<1> QED
  BY <1>8 DEF new

(***************************************************************************)
(* A reader takes the first of the unread parts, and connect begins a      *)
(* stream without any.                                                     *)
(***************************************************************************)
LEMMA TakesFirstUnread ==
    ASSUME FlowTypes, Takes
    PROVE  Unread # <<>> /\ Unread[1] = Head(wire) /\ Unread' = Tail(Unread)
<1>1. /\ wire \in Seq(StreamParts) /\ Coming \in Seq(StreamParts) /\ wire # <<>>
      /\ Unread = wire \o Coming
  BY UnreadParts DEF Takes
<1>2. Unread' = Tail(wire) \o Coming
  BY DEF Takes, Unread, Coming, Rest
<1> QED
  BY <1>1, <1>2, TailOfConcat

\* Without packets nothing is unread.
LEMMA NothingUnread ==
    <<>> \o SubSeq(PartsOf(<<>>), 1, Len(PartsOf(<<>>))) = <<>> /\ Linked(<<>>)
<1> DEFINE none == <<>>
<1>1. PartsOf(none) = none /\ Len(none) = 0 /\ none \in Seq(StreamParts) /\ 1..Len(none) = {}
  BY PartsOfAppend
<1>2. SubSeq(none, 1, 0) = none
  BY SubSeqEmpty
<1> HIDE DEF none
<1>3. none \o none = none
  BY <1>1, ConcatEmptySeq DEF none
<1>4. none \o SubSeq(PartsOf(none), 1, Len(PartsOf(none))) = none
  BY <1>1, <1>2, <1>3
<1>5. Linked(none)
  BY <1>1 DEF Linked
<1> QED
  BY <1>4, <1>5 DEF none

-----------------------------------------------------------------------------
(***************************************************************************)
(* What is unread begins where the one reader that is inside a packet is,  *)
(* and holds the rest of that packet and whole ones.                       *)
(***************************************************************************)
Inside(r) == at[r] \in {"head", "len", "body"}

PlaceInv ==
    /\ Linked(Unread)
    /\ aligned => \A r \in Readers : Inside(r) => Unread # <<>> /\ Unread[1].name = at[r]
    /\ aligned => \E r \in Readers : ~Inside(r)

\* The readers wait where they did, or for a new packet, or not at all.
GoesBack == \A r \in Readers : at'[r] \in {at[r], "type", "off"}

\* The command thread leaves a packet only when nothing comes or out of step,
\* and a reader loses its place only by a part it does not wait for.
WaitsOn ==
    /\ Inside("command") /\ at'["command"] # at["command"] => wire = <<>> \/ ~aligned'
    /\ UNCHANGED aligned \/ \E r \in Readers : Misread(r)

(***************************************************************************)
(* The steps, by what they do to the unread parts and the readers.         *)
(***************************************************************************)
LEMMA RestartGoesBack ==
    ASSUME ReadersInv, NEW r \in Readers, NEW again, Restart(r, again) \/ Stop(r)
    PROVE  GoesBack /\ ~Inside(r)'
BY DEF Restart, Stop, GoesBack, ReadersInv, Inside

\* A command that returns goes back, and a listener that starts does not move it.
LEMMA ReturnGoesBack ==
    ASSUME ReadersInv, InPacket, call # NoCall,
           (\E data : ReturnOk(data)) \/ (\E status : ReturnError(status))
    PROVE  GoesBack /\ ~Inside("command")'
<1>1. "command" \in Readers /\ "listener" \in Readers
  BY DEF Readers
<1>2. CASE Stop("command")
  BY <1>1, <1>2, RestartGoesBack
<1>3. CASE at' = [command |-> "off", listener |-> "type"]
  BY <1>3 DEF GoesBack, Readers, Inside
<1> QED
  BY <1>2, <1>3 DEF ReturnOk, ReturnError

\* Every step is one of five kinds.
LEMMA ReadsPlace ==
    ASSUME ReadersInv, InPacket, [Next]_vars
    PROVE  \/ UNCHANGED <<wire, outbox, arrived>> /\ GoesBack /\ WaitsOn
           \/ \E r \in Readers :
                 /\ InStep(r) /\ Takes /\ UNCHANGED aligned
                 /\ After(Front, at[r]) = "done" /\ GoesBack /\ ~Inside(r)'
           \/ \E r \in Readers :
                 /\ InStep(r) /\ Takes /\ UNCHANGED aligned
                 /\ After(Front, at[r]) # "done"
                 /\ at' = [at EXCEPT ![r] = After(Front, at[r])]
           \/ Connect
           \/ (Answer \/ Signal \/ Arrive) /\ UNCHANGED <<at, aligned>>
<1> DEFINE Stays == UNCHANGED <<wire, outbox, arrived>> /\ GoesBack /\ WaitsOn
           Leaves(r) == /\ InStep(r) /\ Takes /\ UNCHANGED aligned
                        /\ After(Front, at[r]) = "done" /\ GoesBack /\ ~Inside(r)'
           Goes(r) == /\ InStep(r) /\ Takes /\ UNCHANGED aligned
                      /\ After(Front, at[r]) # "done"
                      /\ at' = [at EXCEPT ![r] = After(Front, at[r])]
<1>1. "command" \in Readers /\ "listener" \in Readers
  BY DEF Readers
<1>2. UNCHANGED at => GoesBack
  BY DEF GoesBack
<1>3. CASE Operation
  <2>1. Restart("command", FALSE)
    BY <1>3 DEF Operation, Begin
  <2>2. UNCHANGED <<wire, outbox, arrived, aligned>> /\ ~Inside("command")
    BY <1>3 DEF Operation, Begin, Inside, ReadersInv
  <2> QED BY <1>1, <2>1, <2>2, RestartGoesBack DEF WaitsOn
<1>4. CASE Drop \/ UNCHANGED vars
  BY <1>2, <1>4 DEF Drop, vars, readers, network, WaitsOn
<1>5. ASSUME NEW r \in Readers, Read(r) PROVE Stays \/ Leaves(r) \/ Goes(r)
  <2>1. CASE ReadPart(r)
    BY <2>1 DEF ReadPart, InStep, Ready, Consume, Takes
  <2>2. CASE Misread(r)
    <3>1. at[r] # "off" /\ aligned' = FALSE /\ UNCHANGED network
      BY <2>2 DEF Misread, Ready
    <3>2. UNCHANGED <<wire, outbox, arrived>> /\ WaitsOn
      BY <2>2, <3>1 DEF network, WaitsOn
    <3>3. CASE UNCHANGED <<timeoutKind, command, readers>>
      BY <1>2, <3>2, <3>3 DEF readers
    <3>4. CASE r = "command" /\ ReturnError("ProtocolError")
      BY <3>1, <3>2, <3>4, ReturnGoesBack DEF ReadersInv
    <3>5. CASE Stop(r)
      BY <3>2, <3>5, RestartGoesBack
    <3> QED BY <2>2, <3>3, <3>4, <3>5 DEF Misread
  <2>3. CASE SkipType(r)
    <3>1. Restart(r, TRUE) /\ Received(r)
      BY <2>3 DEF SkipType
    <3> QED BY <3>1, RestartGoesBack DEF Received, InStep, Ready, Consume, Takes
  <2> QED BY <1>5, <2>1, <2>2, <2>3 DEF Read
<1>6. CASE SkipTransaction \/ GotData
  <2>1. Restart("command", FALSE) /\ Received("command")
    BY <1>6 DEF SkipTransaction, GotData, Mine
  <2> QED BY <1>1, <2>1, RestartGoesBack DEF Received, InStep, Ready, Consume, Takes
<1>7. CASE GotEvent
  <2>1. Restart("listener", FALSE) /\ Received("listener")
    BY <1>7 DEF GotEvent
  <2> QED BY <1>1, <2>1, RestartGoesBack DEF Received, InStep, Ready, Consume, Takes
<1>8. CASE GotResponse \/ GotEnd \/ GotRefusal
  <2>1. Received("command") /\ ((\E data : ReturnOk(data)) \/ (\E status : ReturnError(status)))
    BY <1>8 DEF GotResponse, GotEnd, GotRefusal, Mine
  <2>2. call # NoCall
    BY <2>1 DEF Received, InStep, Ready, ReadersInv
  <2> QED BY <1>1, <2>1, <2>2, ReturnGoesBack DEF Received, InStep, Ready, Consume, Takes
<1>9. CASE CommandTimesOut
  <2>1. (\E status : ReturnError(status)) /\ call # NoCall
    BY <1>9 DEF CommandTimesOut, Silent, ReadersInv
  <2> QED BY <1>9, <2>1, ReturnGoesBack DEF CommandTimesOut, Silent, network, WaitsOn
<1>10. CASE ListenerTimesOut
  <2>1. Restart("listener", FALSE) \/ Stop("listener")
    BY <1>10 DEF ListenerTimesOut
  <2> QED BY <1>1, <1>10, <2>1, RestartGoesBack DEF ListenerTimesOut, Silent, network, WaitsOn
<1>11. ASSUME NEW r \in Readers, LengthTimesOut(r) \/ Expire(r) PROVE Stays
  <2>1. UNCHANGED <<network, aligned>> /\ at[r] # "off"
    BY <1>11 DEF LengthTimesOut, Silent, Expire
  <2>2. \/ r = "command" /\ \E status : ReturnError(status)
        \/ \E again : Restart(r, again)
    BY <1>11 DEF LengthTimesOut, Expire, Readers
  <2>3. WaitsOn
    <3>1. wire = <<>> \/ at[r] = "type"
      BY <1>11 DEF LengthTimesOut, Silent, Expire
    <3>2. r = "listener" => UNCHANGED at["command"]
      BY <2>2 DEF Restart, ReadersInv, Readers
    <3> QED BY <2>1, <3>1, <3>2 DEF WaitsOn, Inside, Readers
  <2>4. CASE r = "command" /\ \E status : ReturnError(status)
    BY <2>1, <2>3, <2>4, ReturnGoesBack DEF ReadersInv, network
  <2>5. CASE \E again : Restart(r, again)
    BY <2>1, <2>3, <2>5, RestartGoesBack DEF network
  <2> QED BY <2>2, <2>4, <2>5
<1>12. ASSUME Camera PROVE Stays \/ ((Answer \/ Signal \/ Arrive) /\ UNCHANGED <<at, aligned>>)
  <2>1. CASE Close
    BY <1>2, <2>1 DEF Close, readers, WaitsOn
  <2>2. CASE Answer \/ Signal \/ Arrive
    BY <2>2 DEF Answer, Signal, Arrive, readers
  <2> QED BY <1>12, <2>1, <2>2 DEF Camera
<1> HIDE DEF Stays, Ends, Goes
<1>13. Stays \/ (\E r \in Readers : Leaves(r)) \/ (\E r \in Readers : Goes(r)) \/ Connect
       \/ ((Answer \/ Signal \/ Arrive) /\ UNCHANGED <<at, aligned>>)
  BY <1>1, <1>3, <1>4, <1>5, <1>6, <1>7, <1>8, <1>9, <1>10, <1>11, <1>12
     DEF Next, CommandReads, ListenerReads, Stays, Ends, Goes
<1> QED
  BY <1>13 DEF Stays, Ends, Goes

(***************************************************************************)
(* Where the readers are inside a packet they are so with the stream.      *)
(***************************************************************************)
LEMMA BackKeepsPlace ==
    ASSUME PlaceInv, GoesBack, Unread' = Unread, aligned' => aligned PROVE PlaceInv'
<1>1. \A r \in Readers : Inside(r)' => Inside(r) /\ at'[r] = at[r]
  BY DEF GoesBack, Inside
<1>2. Linked(Unread')
  BY DEF PlaceInv
<1>3. ASSUME aligned', NEW r \in Readers, Inside(r)'
      PROVE  Unread' # <<>> /\ Unread'[1].name = at'[r]
  BY <1>1, <1>3 DEF PlaceInv
<1>4. aligned' => \E r \in Readers : ~Inside(r)'
  BY <1>1 DEF PlaceInv
<1> QED
  BY <1>2, <1>3, <1>4 DEF PlaceInv

\* The part that is read is the first unread one, and no other reader is in a packet.
LEMMA OneInside ==
    ASSUME FlowTypes, ReadersInv, PlaceInv, NEW r \in Readers, InStep(r), Takes
    PROVE  /\ Unread # <<>> /\ Unread[1] \in StreamParts /\ Unread[1] = Head(wire)
           /\ Unread[1].pkt = Front /\ Unread[1].name = at[r]
           /\ Unread \in Seq(StreamParts) /\ Unread' = Tail(Unread) /\ Linked(Unread')
           /\ \A q \in Readers \ {r} : ~Inside(q)
<1>1. /\ Unread # <<>> /\ Unread[1] = Head(wire) /\ Unread' = Tail(Unread)
      /\ Unread \in Seq(StreamParts)
  BY TakesFirstUnread, UnreadParts
<1>2. Linked(Unread')
  BY <1>1, LinkedTail DEF PlaceInv
<1>3. Unread[1] \in StreamParts
  <2> DEFINE u == Unread
  <2>1. u \in Seq(StreamParts) /\ u # <<>>
    BY <1>1
  <2> HIDE DEF u
  <2>2. u[1] \in StreamParts
    BY <2>1, EmptySeq, ElementOfSeq
  <2> QED BY <2>2 DEF u
<1>4. Unread[1].name = at[r] /\ Unread[1].pkt = Front /\ aligned
  BY <1>1 DEF InStep, Ready, Front
<1>5. ASSUME NEW q \in Readers \ {r}, Inside(q) PROVE FALSE
  <2>1. at[q] = at[r]
    BY <1>4, <1>5 DEF PlaceInv
  <2>2. Inside(r)
    BY <1>5, <2>1 DEF Inside
  <2>3. \A x \in Readers : x = q \/ x = r
    BY <1>5 DEF Readers
  <2> QED BY <1>4, <1>5, <2>2, <2>3 DEF PlaceInv
<1> QED
  BY <1>1, <1>2, <1>3, <1>4, <1>5

\* The last part of a packet leaves no reader in one.
LEMMA EndKeepsPlace ==
    ASSUME FlowTypes, ReadersInv, PlaceInv, NEW r \in Readers, InStep(r), Takes,
           After(Front, at[r]) = "done", GoesBack, ~Inside(r)'
    PROVE  PlaceInv'
<1>1. Linked(Unread') /\ \A q \in Readers \ {r} : ~Inside(q)
  BY OneInside
<1>2. \A q \in Readers : ~Inside(q)'
  BY <1>1 DEF GoesBack, Inside
<1> QED
  BY <1>1, <1>2 DEF PlaceInv, Readers

\* Behind any other part comes the one its reader then waits for.
LEMMA PartKeepsPlace ==
    ASSUME FlowTypes, ReadersInv, PlaceInv, NEW r \in Readers, InStep(r), Takes,
           After(Front, at[r]) # "done", at' = [at EXCEPT ![r] = After(Front, at[r])]
    PROVE  PlaceInv'
<1> DEFINE u == Unread
<1>1. /\ u # <<>> /\ u \in Seq(StreamParts) /\ u[1] \in StreamParts
      /\ u[1].pkt = Front /\ u[1].name = at[r]
      /\ Unread' = Tail(u) /\ Linked(Unread') /\ Linked(u)
      /\ \A q \in Readers \ {r} : ~Inside(q)
  BY OneInside DEF PlaceInv
<1>2. at'[r] = After(Front, at[r])
  BY DEF ReadersInv
<1>3. \A q \in Readers \ {r} : ~Inside(q)'
  BY <1>1 DEF Inside
<1> HIDE DEF u
<1>4. NextPart(u[1]) = at'[r] /\ NextPart(u[1]) # "type"
  BY <1>1, <1>2, FollowingIsNext
<1>5. Len(u) >= 1
  BY <1>1, EmptySeq
<1>6. 1 < Len(u) /\ u[2].name = at'[r]
  <2>1. 1 \in 1..Len(u)
    BY <1>1, <1>5, LenProperties
  <2> QED BY <1>1, <1>4, <2>1 DEF Linked
<1>7. Tail(u) # <<>> /\ Tail(u)[1] = u[2]
  <2> DEFINE v == Tail(u)
  <2>1. Len(v) = Len(u) - 1 /\ \A i \in 1..Len(v) : v[i] = u[i + 1]
    BY <1>1, HeadTailProperties
  <2> HIDE DEF v
  <2>2. Len(v) >= 1 /\ 1 \in 1..Len(v)
    BY <1>1, <1>6, <2>1, LenProperties
  <2>3. v # <<>> /\ v[1] = u[2]
    BY <2>1, <2>2
  <2> QED BY <2>3 DEF v
<1>8. \A q \in Readers : Inside(q)' => q = r
  BY <1>3
<1>9. \E q \in Readers : q # r
  BY DEF Readers
<1> QED
  BY <1>1, <1>3, <1>6, <1>7, <1>8, <1>9 DEF PlaceInv

(***************************************************************************)
(* The camera puts whole packets behind what is unread.                    *)
(***************************************************************************)
LEMMA SendKeepsPlace ==
    ASSUME FlowTypes, PlaceInv, NEW a \in Seq(Packets), Unread' = Unread \o PartsOf(a),
           UNCHANGED <<at, aligned>>
    PROVE  PlaceInv'
<1> DEFINE u == Unread
           new == PartsOf(a)
<1>1. u \in Seq(StreamParts) /\ Linked(u) /\ new \in Seq(StreamParts) /\ Framed(new)
  BY UnreadParts, PartsOfIsFramed DEF PlaceInv
<1>2. Unread' = u \o new
  OBVIOUS
<1>3. \A r \in Readers : Inside(r)' <=> Inside(r)
  BY DEF Inside
<1>4. ASSUME u # <<>> PROVE u \o new # <<>> /\ (u \o new)[1] = u[1]
  <2> HIDE DEF u, new
  <2>1. u \o new # <<>> /\ (u \o new)[1] = Head(u)
    BY <1>1, <1>4, TailOfConcat
  <2> QED BY <2>1
<1>5. Linked(u \o new)
  <2> HIDE DEF u, new
  <2> QED BY <1>1, LinkedConcat
<1>6. ASSUME aligned', NEW r \in Readers, Inside(r)'
      PROVE  Unread' # <<>> /\ Unread'[1].name = at'[r]
  <2>1. u # <<>> /\ u[1].name = at[r]
    BY <1>3, <1>6 DEF PlaceInv
  <2> HIDE DEF u, new
  <2> QED BY <1>2, <1>4, <2>1
<1> QED
  BY <1>2, <1>3, <1>5, <1>6 DEF PlaceInv

(***************************************************************************)
(* What a step adds to the packets of the camera.                          *)
(***************************************************************************)
LEMMA CameraSends ==
    ASSUME FlowTypes, FlowTids, Answer \/ Signal
    PROVE  \E a \in Seq(Packets) :
              /\ Unread' = Unread \o PartsOf(a)
              /\ Answer => \A i \in 1..Len(a) : a[i].type # "event"
<1>1. CASE Answer
  <2>1. PICK a \in Seq(Packets) :
           outbox' = outbox \o a /\ \A i \in 1..Len(a) : a[i].tid = Head(commands).tid
    BY <1>1, AnswerAppends
  <2>2. UNCHANGED <<wire, arrived>>
    BY <1>1 DEF Answer
  <2>3. Unread' = Unread \o PartsOf(a)
    BY <2>1, <2>2, SentIsUnread
  <2>4. Head(commands).tid # 0
    <3>1. commands # <<>> /\ commands \in Seq(Calls)
      BY <1>1 DEF Answer, FlowTypes
    <3>2. 1 \in 1..Len(commands) /\ Head(commands) = commands[1]
      BY <3>1, EmptySeq
    <3> QED BY <3>2 DEF FlowTids, FlowTypes
  <2>5. ASSUME NEW i \in 1..Len(a) PROVE a[i].type # "event"
    <3>1. a[i] \in Packets /\ a[i].tid # 0
      BY <2>1, <2>4, ElementOfSeq
    <3> QED BY <3>1 DEF Packets, DataPackets, ResponsePackets, Event
  <2> QED BY <2>3, <2>5
<1>2. CASE Signal /\ ~Answer
  <2> DEFINE a == <<Event>>
  <2>1. a \in Seq(Packets)
    BY DEF Packets
  <2>2. outbox' = outbox \o a /\ UNCHANGED <<wire, arrived>>
    <3>1. Event \in Packets /\ outbox \in Seq(Packets)
      BY DEF Packets, FlowTypes
    <3> QED BY <1>2, <3>1, AppendIsConcat DEF Signal
  <2> HIDE DEF a
  <2> QED BY <1>2, <2>1, <2>2, SentIsUnread
<1> QED
  BY <1>1, <1>2

\* PlaceInv is inductive.
LEMMA PlaceNext ==
    ASSUME FlowTypes, FlowTypes', FlowTids, ReadersInv, InPacket, PlaceInv, [Next]_vars
    PROVE  PlaceInv'
<1>1. CASE UNCHANGED <<wire, outbox, arrived>> /\ GoesBack /\ WaitsOn
  <2>1. aligned' => aligned
    BY <1>1 DEF WaitsOn, Misread
  <2> QED BY <1>1, <2>1, BackKeepsPlace DEF Unread
<1>2. ASSUME NEW r \in Readers, InStep(r), Takes, After(Front, at[r]) = "done", GoesBack, ~Inside(r)'
      PROVE  PlaceInv'
  BY <1>2, EndKeepsPlace
<1>3. ASSUME NEW r \in Readers, InStep(r), Takes, After(Front, at[r]) # "done",
             at' = [at EXCEPT ![r] = After(Front, at[r])]
      PROVE  PlaceInv'
  BY <1>3, PartKeepsPlace
<1>4. CASE Connect
  <2>1. Unread' = <<>>
    BY <1>4, NothingUnread DEF Connect, Unread
  <2>2. at["listener"] = "off" /\ at' = [at EXCEPT !["command"] = "type"]
    BY <1>4 DEF Connect, Begin, Restart, InPacket
  <2>3. \A r \in Readers : ~Inside(r)'
    BY <2>2 DEF Inside, Readers, ReadersInv
  <2>4. Linked(Unread')
    BY <2>1, NothingUnread
  <2> QED BY <2>3, <2>4 DEF PlaceInv, Readers
<1>5. CASE (Answer \/ Signal) /\ UNCHANGED <<at, aligned>>
  <2>1. PICK a \in Seq(Packets) : Unread' = Unread \o PartsOf(a)
    BY <1>5, CameraSends
  <2> QED BY <1>5, <2>1, SendKeepsPlace
<1>6. CASE Arrive /\ UNCHANGED <<at, aligned>>
  <2>1. Unread' = Unread /\ GoesBack
    BY <1>6, ArriveKeepsUnread DEF GoesBack
  <2> QED BY <1>6, <2>1, BackKeepsPlace
<1> QED
  BY <1>1, <1>2, <1>3, <1>4, <1>5, <1>6, ReadsPlace

-----------------------------------------------------------------------------
(***************************************************************************)
(* A stream of whole packets without events is what recv_packet expects.   *)
(***************************************************************************)
Expected(s) == \A i \in 1..(Len(s) - 1) : s[i + 1].name = Following(s[i])

\* Whole packets without events may come behind such a stream.
LEMMA ExpectedConcat ==
    ASSUME NEW s \in Seq(StreamParts), NEW t \in Seq(StreamParts), Expected(s), Linked(s), Framed(t),
           \A i \in 1..Len(t) : t[i].pkt.type # "event"
    PROVE  Expected(s \o t)
<1> DEFINE u == s \o t
<1>1. /\ u \in Seq(StreamParts) /\ Len(u) = Len(s) + Len(t) /\ Len(s) \in Nat /\ Len(t) \in Nat
      /\ \A i \in 1..(Len(s) + Len(t)) : u[i] = IF i <= Len(s) THEN s[i] ELSE t[i - Len(s)]
  BY ConcatProperties, LenProperties
<1> HIDE DEF u
<1>2. ASSUME NEW i \in 1..(Len(u) - 1) PROVE u[i + 1].name = Following(u[i])
  <2>1. CASE i < Len(s)
    <3>1. u[i] = s[i] /\ u[i + 1] = s[i + 1] /\ i \in 1..(Len(s) - 1)
      BY <1>1, <2>1
    <3> QED BY <3>1 DEF Expected
  <2>2. CASE i = Len(s)
    <3>1. u[i] = s[i] /\ i \in 1..Len(s) /\ ~(i < Len(s)) /\ u[i + 1] = t[1] /\ t # <<>>
      BY <1>1, <2>2
    <3>2. NextPart(s[i]) = "type" /\ s[i] \in StreamParts
      BY <3>1, ElementOfSeq DEF Linked
    <3>3. Following(s[i]) = "type"
      BY <3>2, FollowingIsNext
    <3> QED BY <3>1, <3>3 DEF Framed
  <2>3. CASE i > Len(s)
    <3> DEFINE j == i - Len(s)
    <3>1. j \in 1..Len(t) /\ j < Len(t) /\ u[i] = t[j] /\ u[i + 1] = t[j + 1]
      BY <1>1, <2>3
    <3> HIDE DEF j
    <3>2. t[j] \in StreamParts /\ t[j].pkt.type # "event"
      BY <3>1, ElementOfSeq
    <3>3. Following(t[j]) = NextPart(t[j])
      BY <3>2, FollowingIsNext
    <3> QED BY <3>1, <3>3 DEF Framed, Linked
  <2> QED BY <1>1, <2>1, <2>2, <2>3
<1> QED
  BY <1>2 DEF Expected, u

\* Its first part may be taken away.
LEMMA ExpectedTail ==
    ASSUME NEW s \in Seq(StreamParts), s # <<>>, Expected(s)
    PROVE  Expected(Tail(s)) /\ (Tail(s) # <<>> => Tail(s)[1].name = Following(s[1]))
<1> DEFINE u == Tail(s)
<1>1. /\ Len(u) = Len(s) - 1 /\ Len(s) \in Nat /\ \A i \in 1..Len(u) : u[i] = s[i + 1]
      /\ u \in Seq(StreamParts)
  BY HeadTailProperties, LenProperties
<1> HIDE DEF u
<1>2. ASSUME NEW i \in 1..(Len(u) - 1) PROVE u[i + 1].name = Following(u[i])
  <2> DEFINE j == i + 1
  <2>1. j \in 1..(Len(s) - 1) /\ u[i] = s[j] /\ u[i + 1] = s[j + 1]
    BY <1>1
  <2> HIDE DEF j
  <2> QED BY <2>1 DEF Expected
<1>3. ASSUME u # <<>> PROVE u[1].name = Following(s[1])
  <2>1. Len(u) >= 1
    BY <1>1, <1>3, EmptySeq
  <2>2. 1 \in 1..(Len(s) - 1) /\ u[1] = s[2]
    BY <1>1, <2>1
  <2> QED BY <2>2 DEF Expected
<1> QED
  BY <1>2, <1>3 DEF Expected, u

(***************************************************************************)
(* The steps without a listener, an event or a timeout in a packet.        *)
(***************************************************************************)
Place == IF at["command"] = "off" THEN "type" ELSE at["command"]

InPlaceWith(u, place) == (u # <<>> => u[1].name = place) /\ Expected(u)

\* None of them moves the command thread away from the stream.
LEMMA InPlaceNext ==
    ASSUME FlowTypes, FlowTypes', FlowTids, ReadersInv, InPacket, PlaceInv, TypeOK,
           [Next]_vars, InPlace, at["listener"] = "off", events' = events, ~TimeoutCutsPacket
    PROVE  InPlace'
<1> DEFINE c == "command"
<1>1. InPlace <=> aligned /\ InPlaceWith(Unread, Place)
  BY DEF InPlace, InPlaceWith, Place, Expected
<1>2. InPlace' <=> aligned' /\ InPlaceWith(Unread', Place')
  BY DEF InPlace, InPlaceWith, Place, Expected
<1>3. aligned /\ InPlaceWith(Unread, Place) /\ c \in Readers /\ Unread \in Seq(StreamParts)
      /\ at[c] \in Places
  BY <1>1, UnreadParts DEF Readers, ReadersInv
<1>4. ASSUME NEW r \in Readers, Ready(r) PROVE r = c
  BY <1>4 DEF Ready, Readers
<1>5. CASE UNCHANGED <<wire, outbox, arrived>> /\ GoesBack /\ WaitsOn
  <2>1. Unread' = Unread
    BY <1>5 DEF Unread
  <2>2. ASSUME NEW r \in Readers, Misread(r) PROVE FALSE
    <3>1. r = c /\ at[c] # "off" /\ wire # <<>> /\ Head(wire).name # at[c]
      BY <1>4, <2>2 DEF Misread, InStep, Ready
    <3>2. Unread # <<>> /\ Unread[1] = Head(wire)
      <4>1. /\ wire \in Seq(StreamParts) /\ Coming \in Seq(StreamParts)
            /\ Unread = wire \o Coming
        BY UnreadParts
      <4> QED BY <3>1, <4>1, TailOfConcat
    <3> QED BY <1>3, <3>1, <3>2 DEF InPlaceWith, Place
  <2>3. aligned'
    BY <1>3, <1>5, <2>2 DEF WaitsOn
  <2>4. Place' = Place
    <3>1. CASE Inside(c)
      <4>1. at'[c] = at[c]
        BY <1>5, <2>3, <3>1 DEF WaitsOn, TimeoutCutsPacket, Inside
      <4> QED BY <4>1 DEF Place
    <3>2. CASE ~Inside(c)
      BY <1>3, <1>5, <3>2 DEF Inside, GoesBack, Place, Places
    <3> QED BY <3>1, <3>2
  <2> QED BY <1>2, <1>3, <2>1, <2>3, <2>4
<1>6. ASSUME NEW r \in Readers, InStep(r), Takes
      PROVE  /\ r = c /\ Unread[1].pkt = Front /\ Unread[1].name = at[c]
             /\ InPlaceWith(Unread', Following(Unread[1]))
  <2>1. r = c
    BY <1>4, <1>6 DEF InStep
  <2>2. /\ Unread # <<>> /\ Unread[1].pkt = Front /\ Unread[1].name = at[r]
        /\ Unread' = Tail(Unread)
    BY <1>6, OneInside
  <2>3. Expected(Tail(Unread)) /\ (Tail(Unread) # <<>> => Tail(Unread)[1].name = Following(Unread[1]))
    BY <1>3, <2>2, ExpectedTail DEF InPlaceWith
  <2> QED BY <2>1, <2>2, <2>3 DEF InPlaceWith
<1>7. ASSUME NEW r \in Readers, InStep(r), Takes, UNCHANGED aligned,
             After(Front, at[r]) = "done", GoesBack, ~Inside(r)'
      PROVE  InPlace'
  <2>1. r = c /\ Following(Unread[1]) = "type"
    BY <1>6, <1>7 DEF Following
  <2>2. Place' = "type"
    BY <1>3, <1>7, <2>1 DEF GoesBack, Inside, Place, Places
  <2> QED BY <1>2, <1>3, <1>6, <1>7, <2>1, <2>2
<1>8. ASSUME NEW r \in Readers, InStep(r), Takes, UNCHANGED aligned,
             After(Front, at[r]) # "done", at' = [at EXCEPT ![r] = After(Front, at[r])]
      PROVE  InPlace'
  <2>1. r = c /\ Following(Unread[1]) = After(Front, at[r]) /\ at[r] # "off"
    BY <1>6, <1>8 DEF Following, InStep, Ready
  <2>2. After(Front, at[r]) # "off"
    BY <1>3, <2>1 DEF After, Places
  <2>3. Place' = Following(Unread[1])
    BY <1>3, <1>8, <2>1, <2>2 DEF Place, ReadersInv
  <2> QED BY <1>2, <1>3, <1>6, <1>8, <2>1, <2>3
<1>9. CASE Connect
  <2>1. Unread' = <<>> /\ aligned'
    BY <1>3, <1>9, NothingUnread DEF Connect, Begin, Unread
  <2> DEFINE none == <<>>
  <2>2. Len(none) = 0
    OBVIOUS
  <2> HIDE DEF none
  <2>3. Expected(none)
    BY <2>2 DEF Expected
  <2> QED BY <1>2, <2>1, <2>3 DEF InPlaceWith, none
<1>10. CASE Answer /\ UNCHANGED <<at, aligned>>
  <2>1. PICK a \in Seq(Packets) :
           Unread' = Unread \o PartsOf(a) /\ \A i \in 1..Len(a) : a[i].type # "event"
    BY <1>10, CameraSends
  <2> DEFINE u == Unread
             new == PartsOf(a)
  <2>2. /\ u \in Seq(StreamParts) /\ Linked(u) /\ new \in Seq(StreamParts) /\ Framed(new)
        /\ \A i \in 1..Len(new) : new[i].pkt.type # "event"
    BY <1>3, <2>1, PartsOfIsFramed DEF PlaceInv
  <2>3. Unread' = u \o new /\ InPlaceWith(u, Place) /\ Place' = Place /\ aligned'
    BY <1>3, <1>10, <2>1 DEF Place
  <2>4. u = <<>> => Place = "type"
    BY <1>3 DEF PlaceInv, Inside, Place, Places
  <2> HIDE DEF u, new
  <2>5. Expected(u \o new)
    BY <2>2, <2>3, ExpectedConcat DEF InPlaceWith
  <2>6. CASE u = <<>>
    <3>1. u \o new = new
      BY <2>2, <2>6, ConcatEmptySeq
    <3>2. InPlaceWith(new, "type")
      BY <2>2, <2>5, <3>1 DEF Framed, InPlaceWith
    <3> QED BY <1>2, <2>3, <2>4, <2>6, <3>1, <3>2
  <2>7. CASE u # <<>>
    <3>1. (u \o new)[1] = Head(u)
      BY <2>2, <2>7, TailOfConcat
    <3>2. Head(u) = u[1]
      OBVIOUS
    <3>3. InPlaceWith(u \o new, Place)
      BY <2>3, <2>5, <2>7, <3>1, <3>2 DEF InPlaceWith
    <3> QED BY <1>2, <2>3, <3>3
  <2> QED BY <2>6, <2>7
<1>11. ~Signal
  BY DEF Signal, TypeOK
<1>12. CASE Arrive /\ UNCHANGED <<at, aligned>>
  BY <1>2, <1>3, <1>12, ArriveKeepsUnread DEF Place
<1> QED
  BY <1>5, <1>7, <1>8, <1>9, <1>10, <1>11, <1>12, ReadsPlace

(***************************************************************************)
(* Without a listener the command thread stays where the stream is, for    *)
(* any answers, delays and ends of commands: an early end, a late block,   *)
(* an ignored packet or a timeout between packets does not move it         *)
(* (transport.rs:177-253).                                                 *)
(***************************************************************************)
THEOREM PlaceIsKept == Spec => KeepsPlace
<1> DEFINE Inv == FlowInv /\ ReadersInv /\ InPacket /\ PlaceInv
           Keeps == InPlace /\ at["listener"] = "off" /\ events' = events /\ ~TimeoutCutsPacket
                       => InPlace'
<1>1. Init => Inv
  <2> SUFFICES ASSUME Init PROVE Inv
    OBVIOUS
  <2>1. at = [r \in Readers |-> "off"] /\ cur = [r \in Readers |-> NoPacket]
        /\ skipped = [r \in Readers |-> FALSE] /\ "listener" \in Readers
    BY DEF Init, Readers
  <2>2. InPacket
    BY <2>1 DEF InPacket
  <2>3. Unread = <<>>
    BY NothingUnread DEF Init, Unread
  <2>4. Linked(Unread)
    BY <2>3, NothingUnread
  <2>5. \A r \in Readers : ~Inside(r)
    BY <2>1 DEF Inside
  <2>6. PlaceInv
    BY <2>1, <2>4, <2>5 DEF PlaceInv
  <2> QED BY <2>2, <2>6, FlowInit, ReadersInit
<1>2. Inv /\ [Next]_vars => Inv'
  <2> SUFFICES ASSUME Inv, [Next]_vars PROVE Inv'
    OBVIOUS
  <2>1. FlowInv' /\ ReadersInv' /\ InPacket'
    BY FlowNext, ReadersNext, PacketNext DEF FlowInv
  <2> QED BY <2>1, PlaceNext DEF FlowInv
<1>3. Inv /\ Inv' /\ TypeOK /\ [Next]_vars => [Keeps]_vars
  <2> SUFFICES ASSUME Inv, Inv', TypeOK, [Next]_vars, InPlace, at["listener"] = "off",
                      events' = events, ~TimeoutCutsPacket
               PROVE  InPlace'
    OBVIOUS
  <2> QED BY InPlaceNext DEF FlowInv
<1>4. KeepsPlace <=> [][Keeps]_vars
  BY DEF KeepsPlace
<1> QED
  BY <1>1, <1>2, <1>3, <1>4, TypeCorrect, PTL DEF Spec
=============================================================================
