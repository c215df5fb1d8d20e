--------------------------- MODULE Parsers_proofs ---------------------------
(***************************************************************************)
(* Proofs about Parsers: a walk over a payload that was cut anywhere reads *)
(* what the camera wrote, number by number, entry by entry and string by   *)
(* string, and ends with a value exactly when the payload is whole.        *)
(*                                                                         *)
(* The first part is about the recursive functions of the model: what the  *)
(* bytes of a number are worth, and where the parts of a payload lie.      *)
(***************************************************************************)
EXTENDS Parsers, SequenceTheorems, NaturalsInduction, WellFoundedInduction, TLAPS

(***************************************************************************)
(* Induction and recursion, stated with sets and functions.                *)
(***************************************************************************)
LEMMA NumbersByInduction ==
    ASSUME NEW G, 0 \in G, \A n \in Nat : n \in G => n + 1 \in G
    PROVE  Nat \subseteq G
<1> DEFINE T == Nat \ G
<1> SUFFICES ASSUME T # {} PROVE FALSE
  OBVIOUS
<1>1. T \subseteq Nat
  OBVIOUS
<1>2. \A x, y \in Nat : x < y => <<x, y>> \in OpToRel(<, Nat)
  BY DEF OpToRel
<1> HIDE DEF T
<1>3. \E n \in T : \A m \in T : ~(<<m, n>> \in OpToRel(<, Nat))
  BY <1>1, WFMin, NatLessThanWellFounded
<1>4. PICK n \in T : \A m \in T : ~(<<m, n>> \in OpToRel(<, Nat))
  BY <1>3
<1>5. n \in Nat /\ n # 0
  BY <1>1 DEF T
<1>6. n - 1 \in Nat /\ n - 1 < n /\ (n - 1) + 1 = n
  BY <1>5
<1>7. n - 1 \in G
  BY <1>2, <1>4, <1>5, <1>6 DEF T
<1>8. n \in G
  BY <1>6, <1>7
<1> QED
  BY <1>8 DEF T

\* The same for the numbers up to n.
LEMMA UpTo ==
    ASSUME NEW n \in Nat, NEW G, 0 \in G, \A i \in 1..n : i - 1 \in G => i \in G
    PROVE  \A i \in 0..n : i \in G
<1> DEFINE H == {m \in Nat : m <= n => m \in G}
<1>1. 0 \in H
  OBVIOUS
<1>2. ASSUME NEW m \in Nat, m \in H PROVE m + 1 \in H
  <2> SUFFICES ASSUME m + 1 <= n PROVE m + 1 \in G
    OBVIOUS
  <2>1. m + 1 \in 1..n /\ (m + 1) - 1 = m /\ m \in G
    BY <1>2
  <2> QED BY <2>1
<1>3. Nat \subseteq H
  <2> HIDE DEF H
  <2> QED BY <1>1, <1>2, NumbersByInduction
<1> QED
  BY <1>3

\* A recursion from a, with a step of its own for each number, has a solution.
Steps(n, X) == [1..n -> [X -> X]]
HasSolution(n, X, a, step) ==
    \E f \in [0..n -> X] : f[0] = a /\ \A i \in 1..n : f[i] = step[i][f[i - 1]]

LEMMA RecursionHasSolution ==
    ASSUME NEW X, NEW a \in X, NEW n \in Nat, NEW step \in Steps(n, X)
    PROVE  HasSolution(n, X, a, step)
<1> DEFINE Goes(f, m) == f[0] = a /\ \A i \in 1..m : f[i] = step[i][f[i - 1]]
           G == {m \in Nat : \E f \in [0..m -> X] : Goes(f, m)}
<1>1. 0 \in G
  <2>1. [i \in 0..0 |-> a] \in [0..0 -> X] /\ Goes([i \in 0..0 |-> a], 0)
    OBVIOUS
  <2> QED BY <2>1
<1>2. ASSUME NEW k \in 1..n, k - 1 \in G PROVE k \in G
  <2> DEFINE m == k - 1
  <2>0. m \in Nat /\ k = m + 1 /\ m \in G
    BY <1>2
  <2> HIDE DEF m
  <2>1. PICK f \in [0..m -> X] : Goes(f, m)
    BY <2>0
  <2> DEFINE g == [i \in 0..(m + 1) |-> IF i = m + 1 THEN step[m + 1][f[m]] ELSE f[i]]
  <2>2. step[m + 1][f[m]] \in X
    BY <1>2, <2>0, <2>1 DEF Steps
  <2>3. g \in [0..(m + 1) -> X]
    BY <2>0, <2>1, <2>2
  <2>4. g[0] = a /\ \A i \in 1..(m + 1) : g[i] = step[i][g[i - 1]]
    BY <2>0, <2>1
  <2> HIDE DEF g
  <2>5. g \in [0..k -> X] /\ Goes(g, k) /\ k \in Nat
    BY <2>0, <2>3, <2>4
  <2> HIDE DEF Goes
  <2> QED BY <2>5
<1>3. n \in G
  <2> HIDE DEF G
  <2>1. \A i \in 0..n : i \in G
    BY <1>1, <1>2, UpTo
  <2> QED BY <2>1
<1> QED
  BY <1>3 DEF HasSolution

-----------------------------------------------------------------------------
(***************************************************************************)
(* Numbers in bytes.  Shifted(value, n) is value without its n last bytes. *)
(***************************************************************************)
Shifting(f, value, n) ==
    f = [i \in 0..n |-> IF i = 0 THEN value ELSE f[i - 1] \div 256]

LEMMA ShiftedSolves ==
    ASSUME NEW value \in Nat, NEW n \in Nat
    PROVE  \E f : Shifting(f, value, n) /\ Shifted(value, n) = f[n] /\ \A i \in 0..n : f[i] \in Nat
<1> DEFINE step == [i \in 1..n |-> [x \in Nat |-> x \div 256]]
<1>1. \A x \in Nat : x \div 256 \in Nat
  OBVIOUS
<1>2. step \in Steps(n, Nat)
  BY <1>1 DEF Steps
<1> HIDE DEF step
<1>3. PICK f \in [0..n -> Nat] : f[0] = value /\ \A i \in 1..n : f[i] = step[i][f[i - 1]]
  <2>1. HasSolution(n, Nat, value, step)
    BY <1>2, RecursionHasSolution
  <2> QED BY <2>1 DEF HasSolution
<1>4. Shifting(f, value, n)
  <2>1. ASSUME NEW i \in 0..n PROVE f[i] = IF i = 0 THEN value ELSE f[i - 1] \div 256
    <3>1. i # 0 => i \in 1..n /\ i - 1 \in 0..n
      OBVIOUS
    <3>2. i # 0 => f[i - 1] \in Nat
      BY <1>3, <3>1
    <3>3. i # 0 => step[i][f[i - 1]] = f[i - 1] \div 256
      BY <3>1, <3>2 DEF step
    <3> QED BY <1>3, <3>1, <3>3
  <2>2. f = [i \in 0..n |-> f[i]]
    BY <1>3
  <2> QED BY <2>1, <2>2, Zenon DEF Shifting
<1> DEFINE g == CHOOSE h : Shifting(h, value, n)
<1>5. Shifting(g, value, n)
  BY <1>4
<1>6. Shifted(value, n) = g[n]
  BY DEF Shifted, Shifting
<1> HIDE DEF g
<1>7. \A i \in 0..n : g[i] \in Nat
  <2> DEFINE G == {i \in 0..n : g[i] \in Nat}
  <2>1. \A i \in 0..n : g[i] = IF i = 0 THEN value ELSE g[i - 1] \div 256
    BY <1>5 DEF Shifting
  <2>2. 0 \in G /\ \A i \in 1..n : i - 1 \in G => i \in G
    BY <1>1, <2>1
  <2> HIDE DEF G
  <2>3. \A i \in 0..n : i \in G
    BY <2>2, UpTo
  <2> QED BY <2>3 DEF G
<1> QED
  BY <1>5, <1>6, <1>7

\* What one more byte shifts out is the last byte of what is left.
LowByte(x) == x % 256

LEMMA ShiftedStep ==
    ASSUME NEW value \in Nat, NEW n \in Nat
    PROVE  /\ Shifted(value, 0) = value
           /\ Shifted(value, n) \in Nat /\ LowByte(Shifted(value, n)) \in Nat
           /\ Shifted(value, n + 1) * 256 + LowByte(Shifted(value, n)) = Shifted(value, n)
<1>1. Shifted(value, 0) = value
  <2>1. PICK f : Shifting(f, value, 0) /\ Shifted(value, 0) = f[0]
    BY ShiftedSolves
  <2> QED BY <2>1 DEF Shifting
<1>2. PICK f : /\ Shifting(f, value, n) /\ Shifted(value, n) = f[n]
               /\ \A i \in 0..n : f[i] \in Nat
  BY ShiftedSolves
<1>3. PICK g : Shifting(g, value, n + 1) /\ Shifted(value, n + 1) = g[n + 1]
  <2> DEFINE m == n + 1
  <2>1. m \in Nat
    OBVIOUS
  <2> HIDE DEF m
  <2>2. \E g : Shifting(g, value, m) /\ Shifted(value, m) = g[m]
    BY <2>1, ShiftedSolves
  <2> QED BY <2>2 DEF m
<1>4. \A i \in 0..n : g[i] = f[i]
  <2> DEFINE G == {i \in 0..n : g[i] = f[i]}
  <2>1. 0 \in G
    BY <1>2, <1>3 DEF Shifting
  <2>2. ASSUME NEW i \in 1..n, i - 1 \in G PROVE i \in G
    <3>1. i # 0 /\ i \in 0..n /\ i \in 0..(n + 1) /\ g[i - 1] = f[i - 1]
      BY <2>2
    <3>2. f[i] = f[i - 1] \div 256 /\ g[i] = g[i - 1] \div 256
      BY <3>1, <1>2, <1>3 DEF Shifting
    <3> QED BY <3>1, <3>2
  <2> HIDE DEF G
  <2>3. \A i \in 0..n : i \in G
    BY <2>1, <2>2, UpTo
  <2> QED BY <2>3 DEF G
<1>5. g[n + 1] = g[n] \div 256
  BY <1>3 DEF Shifting
<1> DEFINE x == f[n]
<1>6. x \in Nat /\ Shifted(value, n) = x /\ Shifted(value, n + 1) = x \div 256
  BY <1>2, <1>3, <1>4, <1>5
<1> HIDE DEF x
<1>7. x % 256 \in Nat /\ (x \div 256) * 256 + (x % 256) = x
  BY <1>6
<1> QED
  BY <1>1, <1>6, <1>7 DEF LowByte

(***************************************************************************)
(* What read_u16_be and the others make of bytes.                          *)
(***************************************************************************)
Valuing(f, bytes) ==
    f = [i \in 0..Len(bytes) |-> IF i = 0 THEN 0 ELSE f[i - 1] * 256 + bytes[i]]

LEMMA BigEndianSolves ==
    ASSUME NEW bytes \in Seq(Nat)
    PROVE  \E f : Valuing(f, bytes) /\ BigEndian(bytes) = f[Len(bytes)]
<1> DEFINE n == Len(bytes)
           step == [i \in 1..n |-> [x \in Nat |-> x * 256 + bytes[i]]]
<1>1. n \in Nat /\ \A i \in 1..n : bytes[i] \in Nat
  BY LenProperties, ElementOfSeq
<1>2. step \in Steps(n, Nat)
  BY <1>1 DEF Steps
<1> HIDE DEF step
<1>3. PICK f \in [0..n -> Nat] : f[0] = 0 /\ \A i \in 1..n : f[i] = step[i][f[i - 1]]
  <2>1. HasSolution(n, Nat, 0, step)
    BY <1>1, <1>2, RecursionHasSolution
  <2> QED BY <2>1 DEF HasSolution
<1>4. Valuing(f, bytes)
  <2>1. ASSUME NEW i \in 0..n PROVE f[i] = IF i = 0 THEN 0 ELSE f[i - 1] * 256 + bytes[i]
    <3>1. i # 0 => i \in 1..n /\ i - 1 \in 0..n
      BY <1>1
    <3>2. i # 0 => f[i - 1] \in Nat
      BY <1>3, <3>1
    <3>3. i # 0 => step[i][f[i - 1]] = f[i - 1] * 256 + bytes[i]
      BY <3>1, <3>2 DEF step
    <3> QED BY <1>3, <3>1, <3>3
  <2>2. f = [i \in 0..n |-> f[i]]
    BY <1>3
  <2> QED BY <2>1, <2>2, Zenon DEF Valuing
<1> DEFINE g == CHOOSE h : Valuing(h, bytes)
<1>5. Valuing(g, bytes)
  BY <1>4
<1>6. BigEndian(bytes) = g[n]
  BY DEF BigEndian, Valuing
<1> QED
  BY <1>5, <1>6

\* Bytes are as many as asked for.
LEMMA BytesAreBytes ==
    ASSUME NEW value \in Nat, NEW width \in Nat
    PROVE  /\ Bytes(value, width) \in Seq(Nat)
           /\ Len(Bytes(value, width)) = width
           /\ \A i \in 1..width : Bytes(value, width)[i] = LowByte(Shifted(value, width - i))
<1>1. \A i \in 1..width : width - i \in Nat
  OBVIOUS
<1>2. \A i \in 1..width : LowByte(Shifted(value, width - i)) \in Nat
  BY <1>1, ShiftedStep
<1>3. Bytes(value, width) = [i \in 1..width |-> LowByte(Shifted(value, width - i))]
  BY DEF Bytes, LowByte
<1> QED
  BY <1>2, <1>3

(***************************************************************************)
(* A number that fits into its field is read as it was written, in any     *)
(* number of bytes (utils.rs:6-31).                                        *)
(***************************************************************************)
LEMMA BytesAreReadBack ==
    ASSUME NEW value \in Nat, NEW width \in Nat, Shifted(value, width) = 0
    PROVE  BigEndian(Bytes(value, width)) = value
<1> DEFINE b == Bytes(value, width)
<1>1. b \in Seq(Nat) /\ Len(b) = width /\ \A i \in 1..width : b[i] = LowByte(Shifted(value, width - i))
  BY BytesAreBytes
<1> HIDE DEF b
<1>2. PICK f : Valuing(f, b) /\ BigEndian(b) = f[width]
  BY <1>1, BigEndianSolves
<1> DEFINE G == {i \in 0..width : f[i] = Shifted(value, width - i)}
<1>3. 0 \in G
  <2>1. f[0] = 0
    BY <1>1, <1>2 DEF Valuing
  <2> QED BY <2>1
<1>4. ASSUME NEW i \in 1..width, i - 1 \in G PROVE i \in G
  <2> DEFINE m == width - i
  <2>1. m \in Nat /\ f[i - 1] = Shifted(value, m + 1) /\ b[i] = LowByte(Shifted(value, m))
    BY <1>1, <1>4
  <2>2. f[i] = f[i - 1] * 256 + b[i]
    BY <1>1, <1>2 DEF Valuing
  <2>3. i \in G <=> f[i] = Shifted(value, m)
    OBVIOUS
  <2> HIDE DEF m, G
  <2> QED BY <2>1, <2>2, <2>3, ShiftedStep
<1> HIDE DEF G
<1>5. \A i \in 0..width : i \in G
  BY <1>3, <1>4, UpTo
<1>6. f[width] = Shifted(value, 0)
  BY <1>5 DEF G
<1> QED
  BY <1>2, <1>6, ShiftedStep DEF b

-----------------------------------------------------------------------------
(***************************************************************************)
(* The layouts: the strings of a payload have their offsets and lengths    *)
(* among its numbers, in front of the count of a list.                     *)
(***************************************************************************)
NumbersBeforeCount(l) == IF l.item = 0 THEN Len(l.widths) ELSE Len(l.widths) - 1

Proper(l) ==
    /\ l.widths \in Seq({1, 2, 4, 8}) /\ Len(l.widths) >= 1
    /\ l.item \in Nat /\ l.strings \in Nat /\ l.gap \in Nat /\ l.least \in Nat
    /\ l.first \in Nat /\ l.first >= 1
    /\ l.strings # 0 => l.first + 2 * l.strings - 1 <= NumbersBeforeCount(l)

LEMMA LayoutIsProper == \A kind \in DOMAIN Layout : Proper(Layout[kind])
<1>1. DOMAIN Layout = {"storage_ids", "object_handles", "capture", "object_info",
                       "device_info", "storage_info"}
  BY DEF Layout
<1>2. Proper(Layout["storage_ids"])
  <2> DEFINE l == Layout["storage_ids"]
             w == <<4>>
  <2>1. /\ l.least = 10 /\ l.widths = w /\ l.item = 4
        /\ l.first = 2 /\ l.strings = 0 /\ l.gap = 0
    BY DEF Layout
  <2>2. w \in Seq({1, 2, 4, 8}) /\ Len(w) = 1
    OBVIOUS
  <2> HIDE DEF l, w
  <2>3. Proper(l)
    BY <2>1, <2>2 DEF Proper, NumbersBeforeCount
  <2> QED BY <2>3 DEF l
<1>3. Proper(Layout["object_handles"])
  <2> DEFINE l == Layout["object_handles"]
             w == <<4>>
  <2>1. /\ l.least = 10 /\ l.widths = w /\ l.item = 4
        /\ l.first = 2 /\ l.strings = 0 /\ l.gap = 0
    BY DEF Layout
  <2>2. w \in Seq({1, 2, 4, 8}) /\ Len(w) = 1
    OBVIOUS
  <2> HIDE DEF l, w
  <2>3. Proper(l)
    BY <2>1, <2>2 DEF Proper, NumbersBeforeCount
  <2> QED BY <2>3 DEF l
<1>4. Proper(Layout["capture"])
  <2> DEFINE l == Layout["capture"]
             w == <<4>>
  <2>1. /\ l.least = 12 /\ l.widths = w /\ l.item = 0
        /\ l.first = 2 /\ l.strings = 0 /\ l.gap = 0
    BY DEF Layout
  <2>2. w \in Seq({1, 2, 4, 8}) /\ Len(w) = 1
    OBVIOUS
  <2> HIDE DEF l, w
  <2>3. Proper(l)
    BY <2>1, <2>2 DEF Proper, NumbersBeforeCount
  <2> QED BY <2>3 DEF l
<1>5. Proper(Layout["object_info"])
  <2> DEFINE l == Layout["object_info"]
             w == <<4, 2, 1, 8, 4, 4, 4, 4, 4, 4, 4, 4, 4>>
  <2>1. /\ l.least = 64 /\ l.widths = w /\ l.item = 0
        /\ l.first = 6 /\ l.strings = 4 /\ l.gap = 4
    BY DEF Layout
  <2>2. w \in Seq({1, 2, 4, 8}) /\ Len(w) = 13
    OBVIOUS
  <2> HIDE DEF l, w
  <2>3. Proper(l)
    BY <2>1, <2>2 DEF Proper, NumbersBeforeCount
  <2> QED BY <2>3 DEF l
<1>6. Proper(Layout["device_info"])
  <2> DEFINE l == Layout["device_info"]
             w == <<4, 4, 4, 4, 4, 4, 4, 4, 2>>
  <2>1. /\ l.least = 24 /\ l.widths = w /\ l.item = 2
        /\ l.first = 1 /\ l.strings = 4 /\ l.gap = 0
    BY DEF Layout
  <2>2. w \in Seq({1, 2, 4, 8}) /\ Len(w) = 9
    OBVIOUS
  <2> HIDE DEF l, w
  <2>3. Proper(l)
    BY <2>1, <2>2 DEF Proper, NumbersBeforeCount
  <2> QED BY <2>3 DEF l
<1>7. Proper(Layout["storage_info"])
  <2> DEFINE l == Layout["storage_info"]
             w == <<4, 2, 2, 2, 8, 8, 4, 4, 4, 4, 4>>
  <2>1. /\ l.least = 40 /\ l.widths = w /\ l.item = 0
        /\ l.first = 8 /\ l.strings = 2 /\ l.gap = 0
    BY DEF Layout
  <2>2. w \in Seq({1, 2, 4, 8}) /\ Len(w) = 11
    OBVIOUS
  <2> HIDE DEF l, w
  <2>3. Proper(l)
    BY <2>1, <2>2 DEF Proper, NumbersBeforeCount
  <2> QED BY <2>3 DEF l
<1> QED
  BY <1>1, <1>2, <1>3, <1>4, <1>5, <1>6, <1>7

(***************************************************************************)
(* What a description is made of, and how it fits its layout.              *)
(***************************************************************************)
Described(d, l) ==
    /\ l = Layout[d.kind] /\ Proper(l)
    /\ d.code \in Nat /\ Shifted(d.code, 2) = 0
    /\ d.list \in Seq(Nat) /\ (l.item = 0 => d.list = <<>>)
    /\ d.texts \in Seq(Seq(Nat)) /\ Len(d.texts) = l.strings

LEMMA DescriptionsAreProper ==
    ASSUME NEW d \in Descriptions PROVE Described(d, Layout[d.kind])
<1> DEFINE L(kind) == IF Layout[kind].item = 0 THEN {<<>>} ELSE Lists
           D(kind) == [kind : {kind}, code : Codes, list : L(kind),
                       texts : [1..Layout[kind].strings -> Texts]]
<1>1. PICK kind \in Kinds : d \in D(kind)
  BY DEF Descriptions
<1>2. /\ d.kind = kind /\ d.code \in Codes /\ d.list \in L(kind)
      /\ d.texts \in [1..Layout[kind].strings -> Texts]
  BY <1>1
<1>3. Proper(Layout[kind])
  BY LayoutIsProper, ParsersAssumption
<1>4. d.code \in Nat /\ Shifted(d.code, 2) = 0
  BY <1>2, ParsersAssumption DEF Fits
<1>5. d.list \in Seq(Nat) /\ (Layout[kind].item = 0 => d.list = <<>>)
  <2>1. CASE Layout[kind].item = 0
    <3>1. d.list = <<>>
      BY <1>2, <2>1
    <3> QED BY <3>1, EmptySeq
  <2>2. CASE Layout[kind].item # 0
    <3>1. d.list \in Lists
      BY <1>2, <2>2
    <3> QED BY <2>2, <3>1, ParsersAssumption
  <2> QED BY <2>1, <2>2
<1>6. d.texts \in Seq(Seq(Nat)) /\ Len(d.texts) = Layout[kind].strings
  <2>1. Layout[kind].strings \in Nat
    BY <1>3 DEF Proper
  <2>2. Texts \subseteq Seq(Nat)
    <3> DEFINE byte == 0..255
    <3>1. byte \subseteq Nat /\ Texts \subseteq Seq(byte)
      BY ParsersAssumption
    <3> HIDE DEF byte
    <3>2. Seq(byte) \subseteq Seq(Nat)
      BY <3>1, SeqMonotonic
    <3> QED BY <3>1, <3>2
  <2> QED BY <1>2, <2>1, <2>2
<1> QED
  BY <1>2, <1>3, <1>4, <1>5, <1>6 DEF Described

-----------------------------------------------------------------------------
(***************************************************************************)
(* Where the parts of a payload lie.  The header, the numbers, the entries *)
(* of the list and the strings, with their sizes.                          *)
(***************************************************************************)
Follow(s, a, b) ==
    /\ Len(s) = Len(a) + Len(b)
    /\ \A i \in 1..Len(a) : s[i] = a[i]
    /\ \A i \in 1..Len(b) : s[Len(a) + i] = b[i]

LEMMA TwoConcatenated ==
    ASSUME NEW S, NEW a \in Seq(S), NEW b \in Seq(S)
    PROVE  a \o b \in Seq(S) /\ Follow(a \o b, a, b)
<1> DEFINE s == a \o b
<1>1. Len(a) \in Nat /\ Len(b) \in Nat
  BY LenProperties
<1>2. s \in Seq(S)
  BY ConcatProperties
<1>3. /\ Len(s) = Len(a) + Len(b)
      /\ \A i \in 1..(Len(a) + Len(b)) : s[i] = IF i <= Len(a) THEN a[i] ELSE b[i - Len(a)]
  BY ConcatProperties
<1> HIDE DEF s
<1>4. \A i \in 1..Len(a) : s[i] = a[i]
  BY <1>1, <1>3
<1>5. ASSUME NEW i \in 1..Len(b) PROVE s[Len(a) + i] = b[i]
  <2> DEFINE j == Len(a) + i
  <2>1. j \in 1..(Len(a) + Len(b)) /\ ~(j <= Len(a)) /\ j - Len(a) = i
    BY <1>1
  <2> HIDE DEF j
  <2>2. s[j] = b[i]
    BY <2>1, <1>3
  <2> QED BY <2>2 DEF j
<1>6. Follow(s, a, b)
  BY <1>3, <1>4, <1>5 DEF Follow
<1> QED
  BY <1>2, <1>6 DEF s

InARow(s, a, b, c, e) ==
    /\ Len(s) = Len(a) + Len(b) + Len(c) + Len(e)
    /\ \A i \in 1..Len(a) : s[i] = a[i]
    /\ \A i \in 1..Len(b) : s[Len(a) + i] = b[i]
    /\ \A i \in 1..Len(c) : s[Len(a) + Len(b) + i] = c[i]
    /\ \A i \in 1..Len(e) : s[Len(a) + Len(b) + Len(c) + i] = e[i]

LEMMA FourConcatenated ==
    ASSUME NEW S, NEW a \in Seq(S), NEW b \in Seq(S), NEW c \in Seq(S), NEW e \in Seq(S)
    PROVE  /\ a \o b \o c \o e \in Seq(S)
           /\ InARow(a \o b \o c \o e, a, b, c, e)
<1> DEFINE ab == a \o b
           abc == ab \o c
           abce == abc \o e
<1>1. Len(a) \in Nat /\ Len(b) \in Nat /\ Len(c) \in Nat /\ Len(e) \in Nat
  BY LenProperties
<1>2. ab \in Seq(S)
  BY ConcatProperties
<1>3. /\ Len(ab) = Len(a) + Len(b)
      /\ \A i \in 1..(Len(a) + Len(b)) : ab[i] = IF i <= Len(a) THEN a[i] ELSE b[i - Len(a)]
  BY ConcatProperties
<1> HIDE DEF ab
<1>4. abc \in Seq(S)
  BY <1>2, ConcatProperties
<1>5. /\ Len(abc) = Len(ab) + Len(c)
      /\ \A i \in 1..(Len(ab) + Len(c)) : abc[i] = IF i <= Len(ab) THEN ab[i] ELSE c[i - Len(ab)]
  BY <1>2, ConcatProperties
<1> HIDE DEF abc
<1>6. abce \in Seq(S)
  BY <1>4, ConcatProperties
<1>7. /\ Len(abce) = Len(abc) + Len(e)
      /\ \A i \in 1..(Len(abc) + Len(e)) :
            abce[i] = IF i <= Len(abc) THEN abc[i] ELSE e[i - Len(abc)]
  BY <1>4, ConcatProperties
<1> HIDE DEF abce
<1>8. InARow(abce, a, b, c, e)
  <2>1. /\ Len(abce) = Len(a) + Len(b) + Len(c) + Len(e)
        /\ Len(ab) = Len(a) + Len(b) /\ Len(abc) = Len(a) + Len(b) + Len(c)
    BY <1>3, <1>5, <1>7
  <2>2. \A i \in 1..Len(a) : abce[i] = a[i]
    BY <1>1, <1>3, <1>5, <1>7
  <2>3. \A i \in 1..Len(b) : abce[Len(a) + i] = b[i]
    BY <1>1, <1>3, <1>5, <1>7
  <2>4. \A i \in 1..Len(c) : abce[Len(a) + Len(b) + i] = c[i]
    BY <1>1, <1>3, <1>5, <1>7
  <2>5. ASSUME NEW i \in 1..Len(e) PROVE abce[Len(a) + Len(b) + Len(c) + i] = e[i]
    <3> DEFINE k == Len(a) + Len(b) + Len(c) + i
    <3>1. k \in 1..(Len(abc) + Len(e)) /\ ~(k <= Len(abc)) /\ k - Len(abc) = i
      BY <1>1, <2>1
    <3> HIDE DEF k
    <3>2. abce[k] = e[i]
      BY <3>1, <1>7
    <3> QED BY <3>2 DEF k
  <2> QED BY <2>1, <2>2, <2>3, <2>4, <2>5 DEF InARow
<1> QED
  BY <1>6, <1>8 DEF abce, abc, ab

SizesOf(d, l, w, m, sizes) ==
    /\ w \in Nat /\ m \in Nat /\ l.strings \in Nat
    /\ sizes \in Seq(Nat) /\ Len(sizes) = 1 + w + m + l.strings
    /\ sizes[1] = 8
    /\ \A i \in 1..w : sizes[1 + i] = l.widths[i] + (IF l.gap = i THEN 1 ELSE 0)
    /\ \A i \in 1..m : sizes[1 + w + i] = l.item
    /\ \A k \in 1..l.strings : sizes[1 + w + m + k] = Len(d.texts[k])

LEMMA SizesAre ==
    ASSUME NEW d \in Descriptions, NEW l, l = Layout[d.kind]
    PROVE  SizesOf(d, l, Len(l.widths), Len(d.list), Sizes(d))
<1> DEFINE w == Len(l.widths)
           m == Len(d.list)
           a == <<8>>
           b == [i \in DOMAIN l.widths |-> l.widths[i] + (IF l.gap = i THEN 1 ELSE 0)]
           c == [i \in DOMAIN d.list |-> l.item]
           e == [k \in DOMAIN d.texts |-> Len(d.texts[k])]
<1>1. Described(d, l)
  BY DescriptionsAreProper
<1>2. /\ w \in Nat /\ DOMAIN l.widths = 1..w /\ m \in Nat /\ DOMAIN d.list = 1..m
      /\ l.strings \in Nat /\ DOMAIN d.texts = 1..l.strings /\ l.item \in Nat /\ l.gap \in Nat
  BY <1>1, LenProperties DEF Described, Proper
<1>3. a \in Seq(Nat) /\ Len(a) = 1 /\ a[1] = 8
  OBVIOUS
<1>4. b \in Seq(Nat) /\ Len(b) = w
  <2>1. \A i \in 1..w : l.widths[i] \in Nat
    <3> DEFINE W == {1, 2, 4, 8}
    <3>1. l.widths \in Seq(W) /\ W \subseteq Nat
      BY <1>1 DEF Described, Proper
    <3> HIDE DEF W
    <3> QED BY <3>1, ElementOfSeq
  <2>2. \A i \in 1..w : l.widths[i] + (IF l.gap = i THEN 1 ELSE 0) \in Nat
    BY <2>1
  <2> HIDE DEF w
  <2> QED BY <1>2, <2>2
<1>5. c \in Seq(Nat) /\ Len(c) = m
  BY <1>2
<1>6. e \in Seq(Nat) /\ Len(e) = l.strings
  <2>1. \A k \in 1..l.strings : Len(d.texts[k]) \in Nat
    BY <1>1, ElementOfSeq, LenProperties DEF Described
  <2> QED BY <1>2, <2>1
<1>7. Sizes(d) = a \o b \o c \o e
  BY DEF Sizes, HeaderLength
<1>8. /\ \A i \in 1..w : b[i] = l.widths[i] + (IF l.gap = i THEN 1 ELSE 0)
      /\ \A i \in 1..m : c[i] = l.item
      /\ \A k \in 1..l.strings : e[k] = Len(d.texts[k])
  BY <1>2
<1> HIDE DEF a, b, c, e, w, m
<1>9. Sizes(d) \in Seq(Nat) /\ InARow(Sizes(d), a, b, c, e)
  <2>1. a \o b \o c \o e \in Seq(Nat) /\ InARow(a \o b \o c \o e, a, b, c, e)
    BY <1>3, <1>4, <1>5, <1>6, FourConcatenated
  <2> QED BY <1>7, <2>1
<1>10. /\ Len(Sizes(d)) = 1 + w + m + l.strings
       /\ Sizes(d)[1] = 8
       /\ \A i \in 1..w : Sizes(d)[1 + i] = b[i]
       /\ \A i \in 1..m : Sizes(d)[1 + w + i] = c[i]
       /\ \A k \in 1..l.strings : Sizes(d)[1 + w + m + k] = e[k]
  BY <1>3, <1>4, <1>5, <1>6, <1>9 DEF InARow
<1>11. /\ \A i \in 1..w : Sizes(d)[1 + i] = l.widths[i] + (IF l.gap = i THEN 1 ELSE 0)
       /\ \A i \in 1..m : Sizes(d)[1 + w + i] = l.item
       /\ \A k \in 1..l.strings : Sizes(d)[1 + w + m + k] = Len(d.texts[k])
  BY <1>8, <1>10
<1>12. SizesOf(d, l, w, m, Sizes(d))
  BY <1>2, <1>9, <1>10, <1>11 DEF SizesOf
<1> QED
  BY <1>12 DEF w, m

(***************************************************************************)
(* A part begins where the one in front of it ends.                        *)
(***************************************************************************)
Placing(f, d, n) ==
    f = [i \in 0..n |-> IF i = 0 THEN 0 ELSE f[i - 1] + Sizes(d)[i]]

LEMMA PlaceSolves ==
    ASSUME NEW d \in Descriptions, NEW n \in 0..Len(Sizes(d))
    PROVE  \E f : Placing(f, d, n) /\ Place(d, n) = f[n] /\ \A i \in 0..n : f[i] \in Nat
<1> DEFINE step == [i \in 1..n |-> [x \in Nat |-> x + Sizes(d)[i]]]
<1>1. Sizes(d) \in Seq(Nat)
  BY SizesAre DEF SizesOf
<1>2. n \in Nat /\ \A i \in 1..n : Sizes(d)[i] \in Nat
  BY <1>1, ElementOfSeq, LenProperties
<1>3. step \in Steps(n, Nat)
  BY <1>2 DEF Steps
<1> HIDE DEF step
<1>4. PICK f \in [0..n -> Nat] : f[0] = 0 /\ \A i \in 1..n : f[i] = step[i][f[i - 1]]
  <2>1. HasSolution(n, Nat, 0, step)
    BY <1>2, <1>3, RecursionHasSolution
  <2> QED BY <2>1 DEF HasSolution
<1>5. Placing(f, d, n)
  <2>1. ASSUME NEW i \in 0..n PROVE f[i] = IF i = 0 THEN 0 ELSE f[i - 1] + Sizes(d)[i]
    <3>1. i # 0 => i \in 1..n /\ i - 1 \in 0..n
      BY <1>2
    <3>2. i # 0 => f[i - 1] \in Nat
      BY <1>4, <3>1
    <3>3. i # 0 => step[i][f[i - 1]] = f[i - 1] + Sizes(d)[i]
      BY <3>1, <3>2 DEF step
    <3> QED BY <1>4, <3>1, <3>3
  <2>2. f = [i \in 0..n |-> f[i]]
    BY <1>4
  <2> QED BY <2>1, <2>2, Zenon DEF Placing
<1> DEFINE g == CHOOSE h : Placing(h, d, n)
<1>6. Placing(g, d, n)
  BY <1>5
<1>7. Place(d, n) = g[n]
  BY DEF Place, Placing
<1> HIDE DEF g
<1>8. \A i \in 0..n : g[i] \in Nat
  <2> DEFINE G == {i \in 0..n : g[i] \in Nat}
  <2>1. \A i \in 0..n : g[i] = IF i = 0 THEN 0 ELSE g[i - 1] + Sizes(d)[i]
    BY <1>6 DEF Placing
  <2>2. 0 \in G
    BY <1>2, <2>1
  <2>3. ASSUME NEW i \in 1..n, i - 1 \in G PROVE i \in G
    <3>1. i \in 0..n /\ i # 0 /\ g[i - 1] \in Nat /\ Sizes(d)[i] \in Nat
      BY <1>2, <2>3
    <3> QED BY <2>1, <3>1
  <2> HIDE DEF G
  <2>4. \A i \in 0..n : i \in G
    BY <1>2, <2>2, <2>3, UpTo
  <2> QED BY <2>4 DEF G
<1> QED
  BY <1>6, <1>7, <1>8

LEMMA PlaceStep ==
    ASSUME NEW d \in Descriptions, NEW n \in 0..Len(Sizes(d))
    PROVE  /\ Place(d, n) \in Nat
           /\ n = 0 => Place(d, n) = 0
           /\ n # 0 => Place(d, n) = Place(d, n - 1) + Sizes(d)[n]
<1>1. PICK g : Placing(g, d, n) /\ Place(d, n) = g[n] /\ \A i \in 0..n : g[i] \in Nat
  BY PlaceSolves
<1>2. n \in Nat /\ Place(d, n) \in Nat /\ (n = 0 => Place(d, n) = 0)
  <2>1. Len(Sizes(d)) \in Nat
    BY SizesAre, LenProperties DEF SizesOf
  <2> QED BY <1>1, <2>1 DEF Placing
<1>3. CASE n # 0
  <2> DEFINE m == n - 1
  <2>1. m \in Nat /\ m \in 0..Len(Sizes(d)) /\ n = m + 1
    BY <1>2, <1>3
  <2> HIDE DEF m
  <2>2. PICK f : Placing(f, d, m) /\ Place(d, m) = f[m]
    BY <2>1, PlaceSolves
  <2>3. \A i \in 0..m : g[i] = f[i]
    <3> DEFINE G == {i \in 0..m : g[i] = f[i]}
    <3>1. 0 \in G
      BY <1>1, <2>1, <2>2 DEF Placing
    <3>2. ASSUME NEW i \in 1..m, i - 1 \in G PROVE i \in G
      <4>1. i # 0 /\ i \in 0..m /\ i \in 0..n /\ g[i - 1] = f[i - 1]
        BY <2>1, <3>2
      <4>2. f[i] = f[i - 1] + Sizes(d)[i] /\ g[i] = g[i - 1] + Sizes(d)[i]
        BY <4>1, <1>1, <2>2 DEF Placing
      <4> QED BY <4>1, <4>2
    <3> HIDE DEF G
    <3>3. \A i \in 0..m : i \in G
      BY <2>1, <3>1, <3>2, UpTo
    <3> QED BY <3>3 DEF G
  <2>4. g[n] = g[m] + Sizes(d)[n]
    BY <1>1, <1>2, <1>3 DEF Placing, m
  <2>5. g[m] = Place(d, m)
    BY <2>1, <2>2, <2>3
  <2> QED BY <1>1, <1>2, <2>4, <2>5 DEF m
<1> QED
  BY <1>2, <1>3

LEMMA PlacesGrow ==
    ASSUME NEW d \in Descriptions, NEW i \in 0..Len(Sizes(d)), NEW j \in i..Len(Sizes(d))
    PROVE  Place(d, i) <= Place(d, j)
<1> DEFINE n == j - i
           G == {k \in 0..n : Place(d, i) <= Place(d, i + k)}
<1>1. n \in Nat /\ i \in Nat /\ j = i + n /\ Len(Sizes(d)) \in Nat
  BY SizesAre, LenProperties DEF SizesOf
<1>2. \A k \in 1..Len(Sizes(d)) : Sizes(d)[k] \in Nat
  BY SizesAre, ElementOfSeq DEF SizesOf
<1> HIDE DEF n
<1>3. 0 \in G
  <2>1. Place(d, i) \in Nat
    BY PlaceStep
  <2> QED BY <1>1, <2>1
<1>4. ASSUME NEW k \in 1..n, k - 1 \in G PROVE k \in G
  <2> DEFINE p == i + k
  <2>1. p \in 0..Len(Sizes(d)) /\ p # 0 /\ p - 1 = i + (k - 1) /\ p - 1 \in 0..Len(Sizes(d))
    BY <1>1
  <2>2. Place(d, i) <= Place(d, p - 1)
    BY <1>4, <2>1
  <2>3. k \in G <=> Place(d, i) <= Place(d, p)
    BY <1>1
  <2> HIDE DEF p, G
  <2>4. Place(d, p) = Place(d, p - 1) + Sizes(d)[p] /\ Sizes(d)[p] \in Nat
    BY <1>1, <1>2, <2>1, PlaceStep
  <2>5. Place(d, p - 1) \in Nat /\ Place(d, i) \in Nat
    BY <2>1, PlaceStep
  <2> QED BY <2>2, <2>3, <2>4, <2>5
<1> HIDE DEF G
<1>5. \A k \in 0..n : k \in G
  BY <1>1, <1>3, <1>4, UpTo
<1> QED
  BY <1>1, <1>5 DEF G

(***************************************************************************)
(* The numbers of a payload fit into their fields; the last one counts the *)
(* list, and each string has a number for its offset and one for its       *)
(* length.                                                                 *)
(***************************************************************************)
LEMMA Halves ==
    /\ \A s \in Nat : \A x \in 0..(2 * s - 1) : x \div 2 + 1 \in 1..s
    /\ \A x \in Nat : (2 * x) \div 2 = x /\ (2 * x) % 2 = 0
    /\ \A x \in Nat : (2 * x + 1) \div 2 = x /\ (2 * x + 1) % 2 = 1
OBVIOUS

LEMMA NumbersAreGood ==
    ASSUME NEW d \in Descriptions, NEW l, l = Layout[d.kind], NEW i \in 1..Len(l.widths)
    PROVE  Number(d, i) \in Nat /\ Shifted(Number(d, i), l.widths[i]) = 0
<1> DEFINE k == (i - l.first) \div 2 + 1
           w == Len(l.widths)
           m == Len(d.list)
<1>1. Described(d, l) /\ SizesOf(d, l, w, m, Sizes(d))
  BY DescriptionsAreProper, SizesAre
<1>2. /\ w \in Nat /\ m \in Nat /\ l.first \in Nat /\ l.strings \in Nat
      /\ Len(Sizes(d)) = 1 + w + m + l.strings
  BY <1>1 DEF Described, Proper, SizesOf
<1>3. Number(d, i) \in Nat
  <2>1. Number(d, i) =
           CASE l.item # 0 /\ i = w -> m
             [] i \in l.first..(l.first + 2 * l.strings - 1) ->
                   IF (i - l.first) % 2 = 0 THEN Offset(d, k) ELSE Len(d.texts[k])
             [] OTHER -> Numbers[l.widths[i]]
    BY DEF Number
  <2>2. i \in l.first..(l.first + 2 * l.strings - 1) => k \in 1..l.strings
    <3> DEFINE x == i - l.first
    <3>1. i \in l.first..(l.first + 2 * l.strings - 1) => x \in 0..(2 * l.strings - 1)
      BY <1>2
    <3>2. k = x \div 2 + 1
      OBVIOUS
    <3> HIDE DEF x
    <3>3. x \in 0..(2 * l.strings - 1) => x \div 2 + 1 \in 1..l.strings
      BY <1>2, Halves
    <3> HIDE DEF k
    <3> QED BY <3>1, <3>2, <3>3
  <2>3. k \in 1..l.strings => Offset(d, k) \in Nat
    <3> DEFINE n == w + m + k
    <3>1. CASE k \in 1..l.strings
      <4>2. Offset(d, k) = Place(d, n)
        BY DEF Offset
      <4> HIDE DEF k, w, m
      <4>1. n \in 0..Len(Sizes(d))
        BY <1>2, <3>1
      <4> HIDE DEF n
      <4> QED BY <4>1, <4>2, PlaceStep
    <3> QED BY <3>1
  <2>4. k \in 1..l.strings => Len(d.texts[k]) \in Nat
    BY <1>1, ElementOfSeq, LenProperties DEF Described
  <2>5. Numbers[l.widths[i]] \in Nat
    <3>1. l.widths[i] \in {1, 2, 4, 8}
      BY <1>1, ElementOfSeq DEF Described, Proper
    <3> QED BY <3>1, ParsersAssumption
  <2> HIDE DEF k
  <2> QED BY <1>2, <2>1, <2>2, <2>3, <2>4, <2>5
<1>4. Fits(Number(d, i), l.widths[i])
  <2>1. i \in DOMAIN l.widths
    BY <1>1, LenProperties DEF Described, Proper
  <2> QED BY <2>1, ParsersAssumption
<1> QED
  BY <1>3, <1>4 DEF Fits

LEMMA CountIsANumber ==
    ASSUME NEW d \in Descriptions, NEW l, l = Layout[d.kind], l.item # 0
    PROVE  Number(d, Len(l.widths)) = Len(d.list)
<1> DEFINE w == Len(l.widths)
<1>1. Described(d, l)
  BY DescriptionsAreProper
<1>2. w \in Nat /\ l.first \in Nat /\ l.strings \in Nat /\ w >= 1 /\ l.first >= 1
  BY <1>1, LenProperties DEF Described, Proper
<1>3. ~(w \in l.first..(l.first + 2 * l.strings - 1))
  <2>1. CASE l.strings = 0
    BY <1>2, <2>1
  <2>2. CASE l.strings # 0
    <3>1. l.first + 2 * l.strings - 1 <= w - 1
      BY <1>1, <2>2 DEF Described, Proper, NumbersBeforeCount
    <3> QED BY <1>2, <3>1
  <2> QED BY <2>1, <2>2
<1> QED
  BY <1>3 DEF Number

LEMMA StringsAreNamed ==
    ASSUME NEW d \in Descriptions, NEW l, l = Layout[d.kind], NEW k \in 1..l.strings
    PROVE  LET i == l.first + 2 * (k - 1)
           IN  /\ i \in 1..Len(l.widths) /\ i + 1 \in 1..Len(l.widths)
               /\ Number(d, i) = Place(d, Len(l.widths) + Len(d.list) + k)
               /\ Number(d, i + 1) = Len(d.texts[k])
<1> DEFINE w == Len(l.widths)
           x == k - 1
           i == l.first + 2 * x
           j == i + 1
<1>1. Described(d, l)
  BY DescriptionsAreProper
<1>2. l.first \in Nat /\ l.strings \in Nat /\ l.first >= 1
  BY <1>1 DEF Described, Proper
<1>3. w \in Nat
  BY <1>1, LenProperties DEF Described, Proper
<1>4. l.first + 2 * l.strings - 1 <= IF l.item = 0 THEN w ELSE w - 1
  BY <1>1, <1>2 DEF Described, Proper, NumbersBeforeCount
<1>5. x \in Nat /\ x < l.strings /\ x + 1 = k
  BY <1>2
<1> HIDE DEF w, x
<1>6. /\ i \in 1..w /\ j \in 1..w /\ (l.item # 0 => i # w /\ j # w)
      /\ i \in l.first..(l.first + 2 * l.strings - 1)
      /\ j \in l.first..(l.first + 2 * l.strings - 1)
  BY <1>2, <1>3, <1>4, <1>5
<1>7. /\ i - l.first = 2 * x /\ j - l.first = 2 * x + 1
  BY <1>2, <1>5
<1> HIDE DEF i, j
<1>8. /\ (i - l.first) \div 2 + 1 = k /\ (i - l.first) % 2 = 0
      /\ (j - l.first) \div 2 + 1 = k /\ (j - l.first) % 2 = 1
  BY <1>2, <1>5, <1>7, Halves
<1>9. Number(d, i) = Offset(d, k)
  BY <1>6, <1>8 DEF Number, w
<1>10. Number(d, j) = Len(d.texts[k])
  BY <1>6, <1>8 DEF Number, w
<1>11. Offset(d, k) = Place(d, w + Len(d.list) + k)
  BY DEF Offset, w
<1> QED
  BY <1>6, <1>9, <1>10, <1>11 DEF i, j, x, w

-----------------------------------------------------------------------------
(***************************************************************************)
(* The parts of a payload are as long as their sizes say.                  *)
(***************************************************************************)
Header(d) == <<0, 0>> \o Bytes(d.code, 2) \o <<0, 0, 0, 0>>
Gap(l, i) == IF l.gap = i THEN <<0>> ELSE <<>>

PartsOf(d, l, w, m, parts) ==
    /\ parts \in Seq(Seq(Nat)) /\ Len(parts) = 1 + w + m + l.strings
    /\ parts[1] = Header(d)
    /\ \A i \in 1..w : parts[1 + i] = Gap(l, i) \o Bytes(Number(d, i), l.widths[i])
    /\ \A i \in 1..m : parts[1 + w + i] = Bytes(d.list[i], l.item)
    /\ \A k \in 1..l.strings : parts[1 + w + m + k] = d.texts[k]

\* The header with the code at its place, and a number behind its gap.
LEMMA HeaderIs ==
    ASSUME NEW d \in Descriptions
    PROVE  /\ Header(d) \in Seq(Nat) /\ Len(Header(d)) = 8
           /\ \A j \in 1..2 : Header(d)[2 + j] = Bytes(d.code, 2)[j]
<1> DEFINE a == <<0, 0>>
           b == Bytes(d.code, 2)
           c == <<0, 0, 0, 0>>
           ab == a \o b
<1>1. d.code \in Nat
  BY DescriptionsAreProper DEF Described
<1>2. b \in Seq(Nat) /\ Len(b) = 2
  BY <1>1, BytesAreBytes
<1>3. a \in Seq(Nat) /\ Len(a) = 2 /\ c \in Seq(Nat) /\ Len(c) = 4
  OBVIOUS
<1>4. Header(d) = ab \o c
  BY DEF Header
<1> HIDE DEF a, b, c
<1>5. ab \in Seq(Nat) /\ Follow(ab, a, b)
  BY <1>2, <1>3, TwoConcatenated
<1> HIDE DEF ab
<1> DEFINE abc == ab \o c
<1>6. abc \in Seq(Nat) /\ Follow(abc, ab, c)
  BY <1>3, <1>5, TwoConcatenated
<1> HIDE DEF abc
<1>7. Len(ab) = 4 /\ \A j \in 1..2 : ab[2 + j] = b[j]
  BY <1>2, <1>3, <1>5 DEF Follow
<1>8. Len(abc) = 8 /\ \A j \in 1..4 : abc[j] = ab[j]
  BY <1>3, <1>6, <1>7 DEF Follow
<1>9. \A j \in 1..2 : abc[2 + j] = b[j]
  BY <1>7, <1>8
<1> QED
  BY <1>4, <1>6, <1>8, <1>9 DEF abc, b

NumberOf(part, gap, bytes, width) ==
    /\ width \in Nat /\ part \in Seq(Nat) /\ Len(part) = gap + width
    /\ \A j \in 1..width : part[gap + j] = bytes[j]

LEMMA NumberIs ==
    ASSUME NEW d \in Descriptions, NEW l, l = Layout[d.kind], NEW i \in 1..Len(l.widths)
    PROVE  NumberOf(Gap(l, i) \o Bytes(Number(d, i), l.widths[i]), IF l.gap = i THEN 1 ELSE 0,
                    Bytes(Number(d, i), l.widths[i]), l.widths[i])
<1> DEFINE a == Gap(l, i)
           b == Bytes(Number(d, i), l.widths[i])
           gap == IF l.gap = i THEN 1 ELSE 0
           n == l.widths[i]
<1>1. n \in Nat
  <2> DEFINE W == {1, 2, 4, 8}
  <2>1. l.widths \in Seq(W) /\ W \subseteq Nat
    BY DescriptionsAreProper DEF Described, Proper
  <2> HIDE DEF W
  <2> QED BY <2>1, ElementOfSeq
<1>2. b \in Seq(Nat) /\ Len(b) = n
  BY <1>1, NumbersAreGood, BytesAreBytes
<1>3. a \in Seq(Nat) /\ Len(a) = gap
  BY DEF Gap
<1> HIDE DEF a, b, n
<1>4. a \o b \in Seq(Nat) /\ Follow(a \o b, a, b)
  BY <1>2, <1>3, TwoConcatenated
<1>5. Len(a \o b) = gap + n /\ \A j \in 1..n : (a \o b)[gap + j] = b[j]
  BY <1>2, <1>3, <1>4 DEF Follow
<1> QED
  BY <1>1, <1>4, <1>5 DEF a, b, n, NumberOf

LEMMA PartsAre ==
    ASSUME NEW d \in Descriptions, NEW l, l = Layout[d.kind]
    PROVE  PartsOf(d, l, Len(l.widths), Len(d.list), Parts(d))
<1> DEFINE w == Len(l.widths)
           m == Len(d.list)
           a == << Header(d) >>
           b == [i \in DOMAIN l.widths |-> Gap(l, i) \o Bytes(Number(d, i), l.widths[i])]
           c == [i \in DOMAIN d.list |-> Bytes(d.list[i], l.item)]
           e == d.texts
           S == Seq(Nat)
<1>1. Described(d, l)
  BY DescriptionsAreProper
<1>2. /\ w \in Nat /\ DOMAIN l.widths = 1..w /\ m \in Nat /\ DOMAIN d.list = 1..m
      /\ l.strings \in Nat /\ l.item \in Nat
  BY <1>1, LenProperties DEF Described, Proper
<1>3. a \in Seq(S) /\ Len(a) = 1 /\ a[1] = Header(d)
  <2>1. Header(d) \in S
    BY HeaderIs
  <2> HIDE DEF S
  <2> QED BY <2>1
<1>4. b \in Seq(S) /\ Len(b) = w
  <2>1. \A i \in 1..w : Gap(l, i) \o Bytes(Number(d, i), l.widths[i]) \in S
    BY NumberIs DEF NumberOf
  <2> HIDE DEF S, w
  <2> QED BY <1>2, <2>1
<1>5. c \in Seq(S) /\ Len(c) = m
  <2>1. \A i \in 1..m : d.list[i] \in Nat
    BY <1>1, ElementOfSeq DEF Described
  <2>2. \A i \in 1..m : Bytes(d.list[i], l.item) \in S
    BY <1>2, <2>1, BytesAreBytes
  <2> HIDE DEF S, m
  <2> QED BY <1>2, <2>2
<1>6. e \in Seq(S) /\ Len(e) = l.strings
  BY <1>1 DEF Described
<1>7. Parts(d) = a \o b \o c \o e
  BY DEF Parts, Header, Gap
<1>8. /\ \A i \in 1..w : b[i] = Gap(l, i) \o Bytes(Number(d, i), l.widths[i])
      /\ \A i \in 1..m : c[i] = Bytes(d.list[i], l.item)
      /\ \A k \in 1..l.strings : e[k] = d.texts[k]
  BY <1>2
<1> HIDE DEF a, b, c, e, w, m, S
<1>9. Parts(d) \in Seq(S) /\ InARow(Parts(d), a, b, c, e)
  <2>1. a \o b \o c \o e \in Seq(S) /\ InARow(a \o b \o c \o e, a, b, c, e)
    BY <1>3, <1>4, <1>5, <1>6, FourConcatenated
  <2> QED BY <1>7, <2>1
<1>10. /\ Len(Parts(d)) = 1 + w + m + l.strings
       /\ Parts(d)[1] = Header(d)
       /\ \A i \in 1..w : Parts(d)[1 + i] = b[i]
       /\ \A i \in 1..m : Parts(d)[1 + w + i] = c[i]
       /\ \A k \in 1..l.strings : Parts(d)[1 + w + m + k] = e[k]
  BY <1>3, <1>4, <1>5, <1>6, <1>9 DEF InARow
<1>11. /\ \A i \in 1..w : Parts(d)[1 + i] = Gap(l, i) \o Bytes(Number(d, i), l.widths[i])
       /\ \A i \in 1..m : Parts(d)[1 + w + i] = Bytes(d.list[i], l.item)
       /\ \A k \in 1..l.strings : Parts(d)[1 + w + m + k] = d.texts[k]
  BY <1>8, <1>10
<1>12. PartsOf(d, l, w, m, Parts(d))
  BY <1>9, <1>10, <1>11 DEF PartsOf, S
<1> QED
  BY <1>12 DEF w, m

LEMMA PartsFit ==
    ASSUME NEW d \in Descriptions
    PROVE  /\ Len(Parts(d)) = Len(Sizes(d)) /\ Len(Parts(d)) \in Nat
           /\ \A n \in 1..Len(Parts(d)) : /\ Parts(d)[n] \in Seq(Nat)
                                          /\ Len(Parts(d)[n]) = Sizes(d)[n]
<1> DEFINE l == Layout[d.kind]
           w == Len(l.widths)
           m == Len(d.list)
           t == l.strings
           parts == Parts(d)
           sizes == Sizes(d)
<1>1. Described(d, l) /\ SizesOf(d, l, w, m, sizes) /\ PartsOf(d, l, w, m, parts)
  BY DescriptionsAreProper, SizesAre, PartsAre
<1>2. /\ w \in Nat /\ m \in Nat /\ t \in Nat
      /\ Len(parts) = 1 + w + m + t /\ Len(sizes) = 1 + w + m + t
  BY <1>1 DEF SizesOf, PartsOf
<1>3. ASSUME NEW n \in 1..Len(parts) PROVE parts[n] \in Seq(Nat)
  BY <1>1, ElementOfSeq DEF PartsOf
<1>4. Len(parts[1]) = sizes[1]
  BY <1>1, HeaderIs DEF SizesOf, PartsOf
<1>5. ASSUME NEW i \in 1..w PROVE Len(parts[1 + i]) = sizes[1 + i]
  <2>1. parts[1 + i] = Gap(l, i) \o Bytes(Number(d, i), l.widths[i])
    BY <1>1 DEF PartsOf
  <2>2. sizes[1 + i] = l.widths[i] + (IF l.gap = i THEN 1 ELSE 0)
    BY <1>1 DEF SizesOf
  <2>3. /\ Len(Gap(l, i) \o Bytes(Number(d, i), l.widths[i]))
              = (IF l.gap = i THEN 1 ELSE 0) + l.widths[i]
        /\ l.widths[i] \in Nat
    <3>1. l = Layout[d.kind]
      OBVIOUS
    <3> HIDE DEF l
    <3>2. NumberOf(Gap(l, i) \o Bytes(Number(d, i), l.widths[i]), IF l.gap = i THEN 1 ELSE 0,
                   Bytes(Number(d, i), l.widths[i]), l.widths[i])
      BY <3>1, NumberIs
    <3> QED BY <3>2 DEF NumberOf
  <2> QED BY <2>1, <2>2, <2>3
<1>6. ASSUME NEW i \in 1..m PROVE Len(parts[1 + w + i]) = sizes[1 + w + i]
  <2>1. parts[1 + w + i] = Bytes(d.list[i], l.item)
    BY <1>1 DEF PartsOf
  <2>2. sizes[1 + w + i] = l.item
    BY <1>1 DEF SizesOf
  <2> DEFINE value == d.list[i]
             width == l.item
  <2>3. value \in Nat /\ width \in Nat
    BY <1>1, ElementOfSeq DEF Described, Proper
  <2> HIDE DEF value, width
  <2>4. Len(Bytes(value, width)) = width
    BY <2>3, BytesAreBytes
  <2> QED BY <2>1, <2>2, <2>4 DEF value, width
<1>7. ASSUME NEW k \in 1..t PROVE Len(parts[1 + w + m + k]) = sizes[1 + w + m + k]
  BY <1>1 DEF PartsOf, SizesOf
<1> HIDE DEF l, w, m, t, parts, sizes
<1>8. ASSUME NEW n \in 1..Len(parts) PROVE Len(parts[n]) = sizes[n]
  <2>1. CASE n = 1
    BY <1>4, <2>1
  <2>2. CASE n \in 2..(1 + w)
    <3> DEFINE i == n - 1
    <3>1. i \in 1..w /\ n = 1 + i
      BY <1>2, <2>2
    <3> HIDE DEF i
    <3> QED BY <1>5, <3>1
  <2>3. CASE n \in (2 + w)..(1 + w + m)
    <3> DEFINE i == n - 1 - w
    <3>1. i \in 1..m /\ n = 1 + w + i
      BY <1>2, <2>3
    <3> HIDE DEF i
    <3> QED BY <1>6, <3>1
  <2>4. CASE n \in (2 + w + m)..(1 + w + m + t)
    <3> DEFINE k == n - 1 - w - m
    <3>1. k \in 1..t /\ n = 1 + w + m + k
      BY <1>2, <2>4
    <3> HIDE DEF k
    <3> QED BY <1>7, <3>1
  <2> QED BY <1>2, <2>1, <2>2, <2>3, <2>4
<1> QED
  BY <1>2, <1>3, <1>8 DEF parts, sizes

(***************************************************************************)
(* A payload is its parts one after the other, so that each lies at its    *)
(* place.                                                                  *)
(***************************************************************************)
Joining(f, d) ==
    f = [i \in 0..Len(Parts(d)) |-> IF i = 0 THEN <<>> ELSE f[i - 1] \o Parts(d)[i]]

LEMMA EncodedSolves ==
    ASSUME NEW d \in Descriptions
    PROVE  \E f : Joining(f, d) /\ Encoded(d) = f[Len(Parts(d))]
<1> DEFINE S == Seq(Nat)
           parts == Parts(d)
           n == Len(parts)
           none == <<>>
           step == [i \in 1..n |-> [x \in S |-> x \o parts[i]]]
<1>1. n \in Nat /\ none \in S
  BY PartsFit, EmptySeq
<1>2. ASSUME NEW i \in 1..n, NEW x \in S PROVE x \o parts[i] \in S
  <2>1. parts[i] \in Seq(Nat)
    BY PartsFit
  <2> HIDE DEF parts
  <2> QED BY <2>1, ConcatProperties
<1> HIDE DEF S, parts, n, none
<1>3. step \in Steps(n, S)
  BY <1>2 DEF Steps
<1> HIDE DEF step
<1>4. PICK f \in [0..n -> S] : f[0] = none /\ \A i \in 1..n : f[i] = step[i][f[i - 1]]
  <2>1. HasSolution(n, S, none, step)
    BY <1>1, <1>3, RecursionHasSolution
  <2> QED BY <2>1 DEF HasSolution
<1>5. f = [i \in 0..n |-> IF i = 0 THEN none ELSE f[i - 1] \o parts[i]]
  <2>1. ASSUME NEW i \in 0..n PROVE f[i] = IF i = 0 THEN none ELSE f[i - 1] \o parts[i]
    <3>1. i # 0 => i \in 1..n /\ i - 1 \in 0..n
      BY <1>1
    <3>2. i # 0 => f[i - 1] \in S
      BY <1>4, <3>1
    <3>3. i # 0 => step[i][f[i - 1]] = f[i - 1] \o parts[i]
      BY <3>1, <3>2 DEF step
    <3> QED BY <1>4, <3>1, <3>3
  <2>2. f = [i \in 0..n |-> f[i]]
    BY <1>4
  <2> QED BY <2>1, <2>2, Zenon
<1>6. Joining(f, d)
  BY <1>5 DEF Joining, parts, n, none
<1> DEFINE g == CHOOSE h : Joining(h, d)
<1>7. Joining(g, d)
  BY <1>6
<1>8. Encoded(d) = g[n]
  BY DEF Encoded, Joining, n, parts
<1> QED
  BY <1>7, <1>8 DEF n, parts

\* The parts up to one are the beginning of the payload.
LEMMA JoinedIs ==
    ASSUME NEW d \in Descriptions, NEW f, Joining(f, d), NEW n \in 0..Len(Parts(d))
    PROVE  /\ f[n] \in Seq(Nat) /\ Len(f[n]) = Place(d, n)
           /\ n # 0 => Follow(f[n], f[n - 1], Parts(d)[n])
<1> DEFINE parts == Parts(d)
           N == Len(parts)
           none == <<>>
           G == {i \in 0..N : f[i] \in Seq(Nat) /\ Len(f[i]) = Place(d, i)}
<1>1. N = Len(Sizes(d)) /\ N \in Nat
  BY PartsFit
<1>2. f = [i \in 0..N |-> IF i = 0 THEN none ELSE f[i - 1] \o parts[i]]
  BY DEF Joining
<1>3. none \in Seq(Nat) /\ Len(none) = 0
  OBVIOUS
<1>4. 0 \in 0..N
  BY <1>1
<1> HIDE DEF none, parts, N
<1>5. f[0] = none
  BY <1>2, <1>4
<1>6. 0 \in G
  <2>1. Place(d, 0) = 0
    BY <1>1, <1>4, PlaceStep
  <2> QED BY <1>3, <1>4, <1>5, <2>1
<1>7. ASSUME NEW i \in 1..N, i - 1 \in G
      PROVE  f[i] \in Seq(Nat) /\ Len(f[i]) = Place(d, i) /\ Follow(f[i], f[i - 1], parts[i])
  <2> DEFINE x == f[i - 1]
             y == parts[i]
  <2>1. x \in Seq(Nat) /\ Len(x) = Place(d, i - 1)
    BY <1>7
  <2>2. y \in Seq(Nat) /\ Len(y) = Sizes(d)[i]
    BY PartsFit DEF parts, N
  <2>3. i \in 0..N /\ i # 0
    BY <1>1
  <2>4. f[i] = x \o y
    BY <1>2, <2>3
  <2>5. Place(d, i) = Place(d, i - 1) + Sizes(d)[i]
    BY <1>1, <2>3, PlaceStep
  <2> HIDE DEF x, y, G
  <2>6. x \o y \in Seq(Nat) /\ Follow(x \o y, x, y)
    BY <2>1, <2>2, TwoConcatenated
  <2>7. Len(x \o y) = Len(x) + Len(y)
    BY <2>6 DEF Follow
  <2> QED BY <2>1, <2>2, <2>4, <2>5, <2>6, <2>7 DEF x, y
<1>8. \A i \in 1..N : i - 1 \in G => i \in G
  <2>1. \A i \in 1..N : i \in 0..N
    BY <1>1
  <2> QED BY <1>7, <2>1
<1> HIDE DEF G
<1>9. \A i \in 0..N : i \in G
  BY <1>1, <1>6, <1>8, UpTo
<1>10. n \in G /\ (n # 0 => n \in 1..N /\ n - 1 \in G)
  BY <1>1, <1>9 DEF N, parts
<1> QED
  BY <1>7, <1>10 DEF G, N, parts

LEMMA EncodedIs ==
    ASSUME NEW d \in Descriptions
    PROVE  /\ Encoded(d) \in Seq(Nat) /\ Len(Encoded(d)) = Place(d, Len(Parts(d)))
           /\ \A n \in 1..Len(Parts(d)) : \A j \in 1..Len(Parts(d)[n]) :
                 Encoded(d)[Place(d, n - 1) + j] = Parts(d)[n][j]
<1> DEFINE parts == Parts(d)
           N == Len(parts)
<1>1. PICK f : Joining(f, d) /\ Encoded(d) = f[N]
  BY EncodedSolves
<1>2. N \in Nat /\ N = Len(Sizes(d))
  BY PartsFit
<1>3. ASSUME NEW n \in 0..N
      PROVE  /\ f[n] \in Seq(Nat) /\ Len(f[n]) = Place(d, n) /\ Place(d, n) \in Nat
             /\ n # 0 => Follow(f[n], f[n - 1], parts[n])
  <2>1. Place(d, n) \in Nat
    BY <1>2, PlaceStep
  <2> QED BY <1>1, <2>1, JoinedIs
<1> HIDE DEF parts, N
<1>4. ASSUME NEW n \in 1..N, NEW j \in 1..Len(parts[n])
      PROVE  f[N][Place(d, n - 1) + j] = parts[n][j]
  <2> DEFINE q == Place(d, n - 1) + j
             G == {k \in 0..(N - n) : f[n + k][q] = parts[n][j]}
  <2>1. n - 1 \in 0..N /\ n \in 0..N /\ n # 0 /\ N - n \in Nat
    BY <1>2
  <2>2. Place(d, n - 1) \in Nat /\ Len(f[n - 1]) = Place(d, n - 1)
    BY <1>3, <2>1
  <2>3. Follow(f[n], f[n - 1], parts[n])
    BY <1>3, <2>1
  <2>4. Len(parts[n]) \in Nat
    BY PartsFit, LenProperties DEF parts, N
  <2>5. f[n][q] = parts[n][j]
    BY <2>2, <2>3 DEF Follow
  <2>6. q \in 1..Len(f[n])
    BY <2>2, <2>3, <2>4 DEF Follow
  <2> HIDE DEF q
  <2>7. 0 \in G
    BY <2>1, <2>5
  <2>8. ASSUME NEW k \in 1..(N - n), k - 1 \in G PROVE k \in G
    <3> DEFINE p == n + k
    <3>1. p \in 0..N /\ p # 0 /\ p - 1 \in 0..N /\ p - 1 = n + (k - 1) /\ p - 1 \in n..N
      BY <1>2, <2>1
    <3>2. f[p - 1][q] = parts[n][j]
      BY <2>8, <3>1
    <3>3. k \in G <=> f[p][q] = parts[n][j]
      OBVIOUS
    <3> HIDE DEF p, G
    <3>4. Follow(f[p], f[p - 1], parts[p])
      BY <1>3, <3>1
    <3>5. Len(f[n]) <= Len(f[p - 1]) /\ Len(f[p - 1]) \in Nat /\ Len(f[n]) \in Nat
      <4>1. Place(d, n) <= Place(d, p - 1)
        BY <1>2, <2>1, <3>1, PlacesGrow
      <4> QED BY <1>3, <2>1, <3>1, <4>1
    <3>6. q \in 1..Len(f[p - 1])
      BY <2>6, <3>5
    <3>7. f[p][q] = f[p - 1][q]
      BY <3>4, <3>6 DEF Follow
    <3> QED BY <3>2, <3>3, <3>7
  <2> HIDE DEF G
  <2>9. \A k \in 0..(N - n) : k \in G
    <3> DEFINE r == N - n
    <3>1. r \in Nat
      BY <2>1
    <3>2. \A k \in 1..r : k - 1 \in G => k \in G
      BY <2>8
    <3> HIDE DEF r
    <3>3. \A k \in 0..r : k \in G
      BY <2>7, <3>1, <3>2, UpTo
    <3> QED BY <3>3 DEF r
  <2>10. N - n \in G /\ n + (N - n) = N
    BY <1>2, <2>1, <2>9
  <2> QED BY <2>10 DEF G, q
<1>5. N \in 0..N
  BY <1>2
<1> QED
  BY <1>1, <1>3, <1>4, <1>5 DEF N, parts

-----------------------------------------------------------------------------
(***************************************************************************)
(* What is read from the bytes that are there, and the walk only reads     *)
(* such bytes, is what was written.                                        *)
(***************************************************************************)
CutOf(s, d) ==
    /\ s \in Seq(Nat) /\ Len(s) <= Len(Encoded(d))
    /\ \A j \in 1..Len(s) : s[j] = Encoded(d)[j]

LEMMA CutIs ==
    ASSUME NEW d \in Descriptions, NEW n \in 0..Len(Encoded(d))
    PROVE  /\ CutOf(SubSeq(Encoded(d), 1, n), d)
           /\ Len(SubSeq(Encoded(d), 1, n)) = Len(Encoded(d)) =>
                 SubSeq(Encoded(d), 1, n) = Encoded(d)
<1> DEFINE e == Encoded(d)
           s == SubSeq(e, 1, n)
<1>1. e \in Seq(Nat) /\ Len(e) \in Nat
  BY EncodedIs, LenProperties
<1> HIDE DEF e
<1>2. n \in 0..Len(e)
  BY DEF e
<1>3. \A i \in 1..n : e[i] \in Nat
  BY <1>1, <1>2, ElementOfSeq
<1>4. s \in Seq(Nat) /\ Len(s) = n /\ \A i \in 1..n : s[i] = e[i]
  BY <1>1, <1>2, <1>3
<1>5. n = Len(e) => s = e
  BY <1>1, SubSeqFull
<1> HIDE DEF s
<1> QED
  BY <1>1, <1>2, <1>4, <1>5 DEF e, s, CutOf

LEMMA BytesAreRead ==
    ASSUME NEW s \in Seq(Nat), NEW from \in Nat, NEW value \in Nat, NEW width \in Nat,
           from + width <= Len(s), Shifted(value, width) = 0,
           \A j \in 1..width : s[from + j] = Bytes(value, width)[j]
    PROVE  BigEndian(SubSeq(s, from + 1, from + width)) = value
<1> DEFINE b == Bytes(value, width)
           t == SubSeq(s, from + 1, from + width)
<1>1. b \in Seq(Nat) /\ Len(b) = width
  BY BytesAreBytes
<1> HIDE DEF b
<1>2. \A i \in (from + 1)..(from + width) : s[i] \in Nat
  BY ElementOfSeq, LenProperties
<1>3. t \in Seq(Nat) /\ Len(t) = width /\ \A j \in 1..width : t[j] = s[from + j]
  BY <1>2
<1>4. \A j \in 1..width : t[j] = b[j]
  BY <1>3 DEF b
<1> HIDE DEF t
<1>5. t = b
  BY <1>1, <1>3, <1>4, SeqEqual
<1> QED
  BY <1>5, BytesAreReadBack DEF t, b

\* Where the parts lie, by their kinds.
PlacesOf(d, l, w, m) ==
    /\ w \in Nat /\ m \in Nat /\ l.strings \in Nat
    /\ \A n \in 0..(1 + w + m + l.strings) : Place(d, n) \in Nat
    /\ Place(d, 0) = 0 /\ Place(d, 1) = 8
    /\ \A i \in 1..w : Place(d, 1 + i) = Place(d, i) + l.widths[i] + (IF l.gap = i THEN 1 ELSE 0)
    /\ \A i \in 1..m : Place(d, 1 + w + i) = Place(d, w + i) + l.item
    /\ \A k \in 1..l.strings : Place(d, 1 + w + m + k) = Place(d, w + m + k) + Len(d.texts[k])
    /\ Len(Encoded(d)) = Place(d, 1 + w + m + l.strings)

LEMMA PlacesAre ==
    ASSUME NEW d \in Descriptions, NEW l, l = Layout[d.kind]
    PROVE  PlacesOf(d, l, Len(l.widths), Len(d.list))
<1> DEFINE w == Len(l.widths)
           m == Len(d.list)
           sizes == Sizes(d)
<1>1. SizesOf(d, l, w, m, sizes)
  BY SizesAre
<1>2. w \in Nat /\ m \in Nat /\ l.strings \in Nat /\ Len(sizes) = 1 + w + m + l.strings
  BY <1>1 DEF SizesOf
<1> HIDE DEF w, m
<1>3. \A n \in 1..(1 + w + m + l.strings) : n # 0 /\ n \in 0..(1 + w + m + l.strings)
  <2> DEFINE t == l.strings
  <2>1. t \in Nat
    BY <1>2
  <2> HIDE DEF t
  <2>2. \A n \in 1..(1 + w + m + t) : n # 0 /\ n \in 0..(1 + w + m + t)
    BY <1>2, <2>1
  <2> QED BY <2>2 DEF t
<1>4. /\ \A n \in 0..(1 + w + m + l.strings) : Place(d, n) \in Nat
      /\ \A n \in 1..(1 + w + m + l.strings) : Place(d, n) = Place(d, n - 1) + sizes[n]
  BY <1>2, <1>3, PlaceStep
<1>5. Place(d, 0) = 0
  BY <1>2, PlaceStep
<1> HIDE DEF sizes
<1>6. Place(d, 1) = 8
  <2>1. sizes[1] = 8
    BY <1>1 DEF SizesOf
  <2>2. 1 \in 1..(1 + w + m + l.strings)
    BY <1>2
  <2>3. Place(d, 1) = Place(d, 1 - 1) + sizes[1]
    BY <1>4, <2>2
  <2> QED BY <1>5, <2>1, <2>3
<1>7. ASSUME NEW i \in 1..w
      PROVE  Place(d, 1 + i) = Place(d, i) + l.widths[i] + (IF l.gap = i THEN 1 ELSE 0)
  <2> DEFINE n == 1 + i
             gap == IF l.gap = i THEN 1 ELSE 0
  <2>1. n \in 1..(1 + w + m + l.strings) /\ n - 1 = i
    BY <1>2
  <2>2. sizes[n] = l.widths[i] + gap
    BY <1>1 DEF SizesOf
  <2>3. l.widths[i] \in Nat
    <3> DEFINE W == {1, 2, 4, 8}
    <3>1. l.widths \in Seq(W) /\ W \subseteq Nat
      BY DescriptionsAreProper DEF Described, Proper
    <3> HIDE DEF W
    <3> QED BY <3>1, ElementOfSeq DEF w
  <2>4. i \in 0..(1 + w + m + l.strings)
    BY <1>2
  <2> HIDE DEF n
  <2>5. Place(d, n) = Place(d, i) + sizes[n] /\ Place(d, i) \in Nat
    BY <1>4, <2>1, <2>4
  <2>6. Place(d, n) = Place(d, i) + l.widths[i] + gap
    BY <2>2, <2>3, <2>5
  <2> QED BY <2>6 DEF n
<1>8. ASSUME NEW i \in 1..m PROVE Place(d, 1 + w + i) = Place(d, w + i) + l.item
  <2> DEFINE n == 1 + w + i
  <2>1. n \in 1..(1 + w + m + l.strings) /\ n - 1 = w + i
    BY <1>2
  <2>2. sizes[n] = l.item
    BY <1>1 DEF SizesOf
  <2> HIDE DEF n
  <2>3. Place(d, n) = Place(d, n - 1) + sizes[n]
    BY <1>4, <2>1
  <2> QED BY <2>1, <2>2, <2>3 DEF n
<1>9. ASSUME NEW k \in 1..l.strings
      PROVE  Place(d, 1 + w + m + k) = Place(d, w + m + k) + Len(d.texts[k])
  <2> DEFINE n == 1 + w + m + k
  <2>1. n \in 1..(1 + w + m + l.strings) /\ n - 1 = w + m + k
    BY <1>2
  <2>2. sizes[n] = Len(d.texts[k])
    BY <1>1 DEF SizesOf
  <2> HIDE DEF n
  <2>3. Place(d, n) = Place(d, n - 1) + sizes[n]
    BY <1>4, <2>1
  <2> QED BY <2>1, <2>2, <2>3 DEF n
<1>10. Len(Encoded(d)) = Place(d, 1 + w + m + l.strings)
  <2>1. Len(Parts(d)) = 1 + w + m + l.strings
    BY <1>2, PartsFit DEF sizes
  <2> QED BY <2>1, EncodedIs
<1>11. PlacesOf(d, l, w, m)
  BY <1>2, <1>4, <1>5, <1>6, <1>7, <1>8, <1>9, <1>10 DEF PlacesOf
<1> QED
  BY <1>11 DEF w, m

\* A part that is there as a whole.
LEMMA PartIsThere ==
    ASSUME NEW d \in Descriptions, NEW s, CutOf(s, d), NEW n \in 1..Len(Parts(d)),
           Place(d, n) <= Len(s)
    PROVE  /\ Place(d, n - 1) \in Nat /\ Len(Parts(d)[n]) \in Nat
           /\ Place(d, n) = Place(d, n - 1) + Len(Parts(d)[n])
           /\ \A j \in 1..Len(Parts(d)[n]) : s[Place(d, n - 1) + j] = Parts(d)[n][j]
<1> DEFINE parts == Parts(d)
           p == Place(d, n - 1)
<1>1. n \in 0..Len(Sizes(d)) /\ n # 0 /\ n - 1 \in 0..Len(Sizes(d))
  BY PartsFit
<1>2. Place(d, n) = p + Len(parts[n]) /\ Len(parts[n]) \in Nat
  <2>1. Place(d, n) = p + Sizes(d)[n]
    BY <1>1, PlaceStep
  <2> QED BY <2>1, PartsFit, LenProperties
<1>3. p \in Nat
  BY <1>1, PlaceStep
<1>4. Len(s) \in Nat
  BY LenProperties DEF CutOf
<1> HIDE DEF p, parts
<1>5. ASSUME NEW j \in 1..Len(parts[n]) PROVE s[p + j] = parts[n][j]
  <2>1. p + j \in 1..Len(s)
    BY <1>2, <1>3, <1>4
  <2>2. s[p + j] = Encoded(d)[p + j]
    BY <2>1 DEF CutOf
  <2>3. Encoded(d)[p + j] = parts[n][j]
    BY EncodedIs DEF parts, p
  <2> QED BY <2>2, <2>3
<1> QED
  BY <1>2, <1>3, <1>5 DEF p, parts

LEMMA PartsAreCounted ==
    ASSUME NEW d \in Descriptions, NEW l, l = Layout[d.kind]
    PROVE  /\ Len(l.widths) \in Nat /\ Len(d.list) \in Nat /\ l.strings \in Nat
           /\ Len(Parts(d)) = 1 + Len(l.widths) + Len(d.list) + l.strings
           /\ 1 \in 1..Len(Parts(d))
<1> DEFINE w == Len(l.widths)
           m == Len(d.list)
           t == l.strings
           N == Len(Parts(d))
<1>1. PlacesOf(d, l, w, m) /\ PartsOf(d, l, w, m, Parts(d))
  BY PlacesAre, PartsAre
<1> HIDE DEF w, m
<1>2. w \in Nat /\ m \in Nat /\ t \in Nat
  BY <1>1 DEF PlacesOf
<1>3. N = 1 + w + m + t
  BY <1>1 DEF PartsOf
<1> HIDE DEF t, N
<1>4. 1 \in 1..N
  BY <1>2, <1>3
<1> QED
  BY <1>2, <1>3, <1>4 DEF w, m, t, N

LEMMA NumberIsAPart ==
    ASSUME NEW d \in Descriptions, NEW l, l = Layout[d.kind], NEW i \in 1..Len(l.widths)
    PROVE  LET n == 1 + i
           IN  /\ n \in 1..Len(Parts(d)) /\ n - 1 = i
               /\ i \in 0..(1 + Len(l.widths) + Len(d.list) + l.strings)
<1> DEFINE w == Len(l.widths)
           m == Len(d.list)
           t == l.strings
           N == Len(Parts(d))
<1>1. w \in Nat /\ m \in Nat /\ t \in Nat /\ N = 1 + w + m + t
  BY PartsAreCounted
<1>2. i \in 1..w
  OBVIOUS
<1> HIDE DEF w, m, t, N
<1>3. 1 + i \in 1..N /\ (1 + i) - 1 = i /\ i \in 0..(1 + w + m + t)
  BY <1>1, <1>2
<1> QED
  BY <1>3 DEF w, m, t, N

LEMMA EntryIsAPart ==
    ASSUME NEW d \in Descriptions, NEW l, l = Layout[d.kind], NEW i \in 1..Len(d.list)
    PROVE  LET v == Len(l.widths) + i
               n == 1 + Len(l.widths) + i
           IN  /\ n \in 1..Len(Parts(d)) /\ n - 1 = v
               /\ v \in 0..(1 + Len(l.widths) + Len(d.list) + l.strings)
<1> DEFINE w == Len(l.widths)
           m == Len(d.list)
           t == l.strings
           N == Len(Parts(d))
<1>1. w \in Nat /\ m \in Nat /\ t \in Nat /\ N = 1 + w + m + t
  BY PartsAreCounted
<1>2. i \in 1..m
  OBVIOUS
<1> HIDE DEF w, m, t, N
<1>3. /\ 1 + w + i \in 1..N /\ (1 + w + i) - 1 = w + i
      /\ w + i \in 0..(1 + w + m + t)
  BY <1>1, <1>2
<1> QED
  BY <1>3 DEF w, m, t, N

LEMMA TextIsAPart ==
    ASSUME NEW d \in Descriptions, NEW l, l = Layout[d.kind], NEW k \in 1..l.strings
    PROVE  LET v == Len(l.widths) + Len(d.list) + k
               n == 1 + Len(l.widths) + Len(d.list) + k
           IN  /\ n \in 1..Len(Parts(d)) /\ n - 1 = v
               /\ v \in 0..(1 + Len(l.widths) + Len(d.list) + l.strings)
<1> DEFINE w == Len(l.widths)
           m == Len(d.list)
           t == l.strings
           N == Len(Parts(d))
<1>1. w \in Nat /\ m \in Nat /\ t \in Nat /\ N = 1 + w + m + t
  BY PartsAreCounted
<1>2. k \in 1..t
  OBVIOUS
<1> HIDE DEF w, m, t, N
<1>3. /\ 1 + w + m + k \in 1..N /\ (1 + w + m + k) - 1 = w + m + k
      /\ w + m + k \in 0..(1 + w + m + t)
  BY <1>1, <1>2
<1> QED
  BY <1>3 DEF w, m, t, N

LEMMA CodeIsRead ==
    ASSUME NEW d \in Descriptions, NEW s, CutOf(s, d), Len(s) >= 8
    PROVE  BigEndian(SubSeq(s, 3, 4)) = d.code
<1> DEFINE l == Layout[d.kind]
           w == Len(l.widths)
           m == Len(d.list)
           part == Parts(d)[1]
           code == d.code
<1>1. PartsOf(d, l, w, m, Parts(d)) /\ PlacesOf(d, l, w, m)
  BY PartsAre, PlacesAre
<1>2. 1 \in 1..Len(Parts(d))
  BY PartsAreCounted
<1>3. part = Header(d)
  BY <1>1 DEF PartsOf
<1>4. Place(d, 1) = 8 /\ Place(d, 1 - 1) = 0
  BY <1>1 DEF PlacesOf
<1>5. \A j \in 1..Len(part) : s[Place(d, 1 - 1) + j] = part[j]
  BY <1>2, <1>4, PartIsThere
<1>6. Len(part) = 8 /\ \A j \in 1..2 : part[2 + j] = Bytes(code, 2)[j]
  BY <1>3, HeaderIs
<1>7. code \in Nat /\ Shifted(code, 2) = 0
  BY DescriptionsAreProper DEF Described
<1>8. s \in Seq(Nat) /\ Len(s) \in Nat
  BY LenProperties DEF CutOf
<1> HIDE DEF part, code
<1>9. \A j \in 1..8 : s[j] = part[j]
  <2>1. \A j \in 1..8 : 0 + j = j
    OBVIOUS
  <2> QED BY <1>4, <1>5, <1>6, <2>1
<1>10. \A j \in 1..2 : s[2 + j] = Bytes(code, 2)[j]
  BY <1>6, <1>9
<1>11. BigEndian(SubSeq(s, 2 + 1, 2 + 2)) = code
  <2>1. 2 \in Nat /\ 2 + 2 <= Len(s)
    BY <1>8
  <2> QED BY <1>7, <1>8, <1>10, <2>1, BytesAreRead
<1>12. 2 + 1 = 3 /\ 2 + 2 = 4
  OBVIOUS
<1> QED
  BY <1>11, <1>12 DEF code

LEMMA NumberIsRead ==
    ASSUME NEW d \in Descriptions, NEW l, l = Layout[d.kind], NEW s, CutOf(s, d),
           NEW i \in 1..Len(l.widths)
    PROVE  LET from == Place(d, i) + (IF l.gap = i THEN 1 ELSE 0)
           IN  /\ l.widths[i] \in Nat /\ from \in Nat
               /\ from + l.widths[i] = Place(d, 1 + i)
               /\ from + l.widths[i] <= Len(s) =>
                     BigEndian(SubSeq(s, from + 1, from + l.widths[i])) = Number(d, i)
<1> DEFINE w == Len(l.widths)
           m == Len(d.list)
           n == 1 + i
           p == Place(d, i)
           part == Parts(d)[n]
           gap == IF l.gap = i THEN 1 ELSE 0
           from == p + gap
           width == l.widths[i]
           value == Number(d, i)
<1>1. PartsOf(d, l, w, m, Parts(d)) /\ PlacesOf(d, l, w, m)
  BY PartsAre, PlacesAre
<1>2. NumberOf(part, gap, Bytes(value, width), width)
  <2>1. part = Gap(l, i) \o Bytes(value, width)
    BY <1>1 DEF PartsOf
  <2>2. NumberOf(Gap(l, i) \o Bytes(value, width), gap, Bytes(value, width), width)
    BY NumberIs
  <2> QED BY <2>1, <2>2
<1>3. width \in Nat /\ Len(part) = gap + width /\ \A j \in 1..width : part[gap + j] = Bytes(value, width)[j]
  BY <1>2 DEF NumberOf
<1>4. value \in Nat /\ Shifted(value, width) = 0
  BY NumbersAreGood
<1>5. n \in 1..Len(Parts(d)) /\ n - 1 = i /\ i \in 0..(1 + w + m + l.strings)
  BY NumberIsAPart, Zenon
<1>6. p \in Nat /\ Place(d, n) = p + width + gap
  BY <1>1, <1>5 DEF PlacesOf
<1>7. gap \in Nat /\ from = p + gap
  OBVIOUS
<1>8. s \in Seq(Nat) /\ Len(s) \in Nat
  BY LenProperties DEF CutOf
<1> HIDE DEF w, m, n, p, part, gap, width, value, from
<1>9. from \in Nat /\ from + width = Place(d, n)
  BY <1>3, <1>6, <1>7
<1>10. ASSUME from + width <= Len(s)
       PROVE  BigEndian(SubSeq(s, from + 1, from + width)) = value
  <2>1. \A j \in 1..Len(part) : s[p + j] = part[j]
    <3>1. Place(d, n) <= Len(s)
      BY <1>9, <1>10
    <3>2. \A j \in 1..Len(part) : s[Place(d, n - 1) + j] = part[j]
      BY <1>5, <3>1, PartIsThere DEF part
    <3> QED BY <1>5, <3>2 DEF p
  <2>2. ASSUME NEW j \in 1..width PROVE s[from + j] = Bytes(value, width)[j]
    <3>1. gap + j \in 1..Len(part) /\ from + j = p + (gap + j)
      BY <1>3, <1>6, <1>7
    <3> QED BY <1>3, <2>1, <3>1
  <2>3. \A j \in 1..width : s[from + j] = Bytes(value, width)[j]
    BY <2>2
  <2>4. from \in Nat /\ width \in Nat
    BY <1>3, <1>9
  <2> QED BY <1>4, <1>8, <1>10, <2>3, <2>4, BytesAreRead
<1> QED
  BY <1>3, <1>9, <1>10 DEF width, value, n, from, p, gap

LEMMA EntryIsRead ==
    ASSUME NEW d \in Descriptions, NEW l, l = Layout[d.kind], NEW s, CutOf(s, d),
           NEW i \in 1..Len(d.list)
    PROVE  LET from == Place(d, Len(l.widths) + i)
               n == 1 + Len(l.widths) + i
           IN  /\ l.item \in Nat /\ from \in Nat /\ from + l.item = Place(d, n)
               /\ from + l.item <= Len(s) =>
                     BigEndian(SubSeq(s, from + 1, from + l.item)) = d.list[i]
<1> DEFINE w == Len(l.widths)
           m == Len(d.list)
           v == w + i
           n == 1 + w + i
           from == Place(d, v)
           part == Parts(d)[n]
           width == l.item
           value == d.list[i]
<1>1. PartsOf(d, l, w, m, Parts(d)) /\ PlacesOf(d, l, w, m)
  BY PartsAre, PlacesAre
<1>2. part = Bytes(value, width)
  BY <1>1 DEF PartsOf
<1>3. value \in Nat /\ width \in Nat
  BY DescriptionsAreProper, ElementOfSeq DEF Described, Proper
<1>4. Shifted(value, width) = 0
  <2>1. i \in DOMAIN d.list
    BY DescriptionsAreProper, LenProperties DEF Described
  <2> QED BY <2>1, ParsersAssumption DEF Fits
<1>5. Len(part) = width
  <2> HIDE DEF part, width, value
  <2>1. Len(Bytes(value, width)) = width
    BY <1>3, BytesAreBytes
  <2> QED BY <1>2, <2>1
<1>6. n \in 1..Len(Parts(d)) /\ n - 1 = v /\ v \in 0..(1 + w + m + l.strings)
  BY EntryIsAPart, Zenon
<1>7. from \in Nat /\ from + width = Place(d, n)
  <2>1. i \in 1..m
    OBVIOUS
  <2> HIDE DEF w, m, width
  <2>2. Place(d, n) = Place(d, v) + l.item
    BY <1>1, <2>1 DEF PlacesOf
  <2> HIDE DEF n, v
  <2>3. Place(d, v) \in Nat
    BY <1>1, <1>6 DEF PlacesOf
  <2> QED BY <1>3, <2>2, <2>3 DEF width
<1>8. s \in Seq(Nat) /\ Len(s) \in Nat
  BY LenProperties DEF CutOf
<1>9. from = Place(d, n - 1)
  BY <1>6
<1> HIDE DEF m, n, v, w, from, part, width, value
<1>10. ASSUME from + width <= Len(s)
       PROVE  BigEndian(SubSeq(s, from + 1, from + width)) = value
  <2>1. \A j \in 1..width : s[from + j] = Bytes(value, width)[j]
    <3>1. Place(d, n) <= Len(s)
      BY <1>7, <1>10
    <3>2. \A j \in 1..Len(part) : s[Place(d, n - 1) + j] = part[j]
      BY <1>6, <3>1, PartIsThere DEF part
    <3> QED BY <1>2, <1>5, <1>9, <3>2
  <2> QED BY <1>3, <1>4, <1>7, <1>8, <1>10, <2>1, BytesAreRead
<1> QED
  BY <1>3, <1>7, <1>10 DEF width, value, n, v, w, from

LEMMA SliceIs ==
    ASSUME NEW s \in Seq(Nat), NEW from \in Nat, NEW t \in Seq(Nat), NEW size \in Nat,
           Len(t) = size, from + size <= Len(s), \A j \in 1..size : s[from + j] = t[j]
    PROVE  SubSeq(s, from + 1, from + size) = t
<1> DEFINE r == SubSeq(s, from + 1, from + size)
<1>1. \A i \in (from + 1)..(from + size) : s[i] \in Nat
  BY ElementOfSeq, LenProperties
<1>2. r \in Seq(Nat) /\ Len(r) = size /\ \A j \in 1..size : r[j] = s[from + j]
  BY <1>1
<1> HIDE DEF r
<1>3. r = t
  BY <1>2, SeqEqual
<1> QED
  BY <1>3 DEF r

LEMMA TextIsRead ==
    ASSUME NEW d \in Descriptions, NEW l, l = Layout[d.kind], NEW s, CutOf(s, d),
           NEW k \in 1..l.strings
    PROVE  LET from == Place(d, Len(l.widths) + Len(d.list) + k)
               size == Len(d.texts[k])
               n == 1 + Len(l.widths) + Len(d.list) + k
           IN  /\ from \in Nat /\ size \in Nat /\ from + size = Place(d, n)
               /\ d.texts[k] \in Seq(Nat)
               /\ from + size <= Len(s) => SubSeq(s, from + 1, from + size) = d.texts[k]
<1> DEFINE w == Len(l.widths)
           m == Len(d.list)
           v == w + m + k
           n == 1 + w + m + k
           from == Place(d, v)
           part == Parts(d)[n]
           text == d.texts[k]
           size == Len(text)
<1>1. PartsOf(d, l, w, m, Parts(d)) /\ PlacesOf(d, l, w, m)
  BY PartsAre, PlacesAre
<1>2. part = text
  BY <1>1 DEF PartsOf
<1>3. text \in Seq(Nat) /\ size \in Nat
  BY DescriptionsAreProper, ElementOfSeq, LenProperties DEF Described
<1>4. n \in 1..Len(Parts(d)) /\ n - 1 = v /\ v \in 0..(1 + w + m + l.strings)
  BY TextIsAPart, Zenon
<1>5. from \in Nat /\ from + size = Place(d, n)
  <2> HIDE DEF w, m
  <2>1. Place(d, n) = Place(d, v) + size
    BY <1>1 DEF PlacesOf
  <2> HIDE DEF n, v, size
  <2>2. Place(d, v) \in Nat
    BY <1>1, <1>4 DEF PlacesOf
  <2> QED BY <1>3, <2>1, <2>2
<1>6. s \in Seq(Nat) /\ Len(s) \in Nat
  BY LenProperties DEF CutOf
<1>7. from = Place(d, n - 1)
  BY <1>4
<1>8. Len(text) = size
  OBVIOUS
<1> HIDE DEF m, n, v, w, from, part, text, size
<1>9. ASSUME from + size <= Len(s) PROVE SubSeq(s, from + 1, from + size) = text
  <2>1. \A j \in 1..size : s[from + j] = text[j]
    <3>1. Place(d, n) <= Len(s)
      BY <1>5, <1>9
    <3>2. \A j \in 1..Len(part) : s[Place(d, n - 1) + j] = part[j]
      BY <1>4, <3>1, PartIsThere DEF part
    <3> QED BY <1>2, <1>7, <1>8, <3>2
  <2> QED BY <1>3, <1>5, <1>6, <1>8, <1>9, <2>1, SliceIs
<1> QED
  BY <1>3, <1>5, <1>9 DEF n, v, w, m, text, from, size

-----------------------------------------------------------------------------
(***************************************************************************)
(* The invariant of the walk.  What has been read is what the camera       *)
(* described; the cursor stands behind it; and an error has its reason.    *)
(***************************************************************************)
Widths == Len(layout.widths)
Entries == Len(info.list)
Cleaned == {UpToNul(info.texts[k]) : k \in 1..layout.strings}

Input ==
    /\ info \in Descriptions /\ CutOf(data, info)
    /\ Len(data) = Len(Encoded(info)) => Whole

Control ==
    /\ pc \in {"code", "length", "fields", "items", "strings", "done"}
    /\ result \in {"none", "ok", "ProtocolError", "DeviceError", "Io", "StringEncoding"}
    /\ result = "none" <=> pc # "done"

FieldsRead ==
    /\ fields \in Seq(Nat) /\ Len(fields) <= Widths
    /\ \A i \in 1..Len(fields) : fields[i] = Number(info, i)

ItemsRead ==
    /\ items \in Seq(Nat) /\ Len(items) <= Entries
    /\ \A i \in 1..Len(items) : items[i] = info.list[i]

TextsRead ==
    /\ texts \in Seq(Cleaned) /\ Len(texts) <= layout.strings
    /\ \A k \in 1..Len(texts) : texts[k] = UpToNul(info.texts[k])

Cursor ==
    /\ pos \in 0..Len(data)
    /\ pc = "fields" => pos = Place(info, 1 + Len(fields))
    /\ pc = "items" => pos = Place(info, 1 + Widths + Len(items))
    /\ pc = "strings" \/ result = "ok" =>
          Place(info, 1 + Widths + Entries + Len(texts)) <= Len(data)

Progress ==
    /\ pc \in {"code", "length"} => fields = <<>>
    /\ pc \in {"code", "length", "fields"} => items = <<>>
    /\ pc \in {"code", "length", "fields", "items"} => texts = <<>>
    /\ pc = "items" => layout.item # 0 /\ Len(fields) = Widths
    /\ pc = "strings" \/ result = "ok" => Len(fields) = Widths /\ Len(items) = Entries
    /\ result = "ok" => Len(texts) = layout.strings

Excused ==
    \/ Len(data) < Len(Encoded(info)) \/ info.code # Ok
    \/ ~Readable \/ Len(data) < layout.least

Outcome ==
    /\ pc \in {"length", "fields", "items", "strings"} \/ result = "ok" =>
          info.code = Ok /\ Len(data) >= 8
    /\ result \notin {"none", "ok"} => Excused

WalkInv ==
    Input /\ Control /\ FieldsRead /\ ItemsRead /\ TextsRead /\ Cursor /\ Progress /\ Outcome

\* What holds of every description.
LEMMA InputIsProper ==
    ASSUME Input
    PROVE  /\ info \in Descriptions /\ CutOf(data, info)
           /\ data \in Seq(Nat) /\ Len(data) \in Nat /\ Len(Encoded(info)) \in Nat
           /\ Widths \in Nat /\ Widths >= 1 /\ Entries \in Nat /\ layout.strings \in Nat
           /\ layout.item \in Nat /\ layout.least \in Nat
           /\ PlacesOf(info, layout, Widths, Entries)
<1>1. info \in Descriptions /\ CutOf(data, info)
  BY DEF Input
<1>2. data \in Seq(Nat) /\ Len(data) \in Nat
  BY <1>1, LenProperties DEF CutOf
<1>3. Len(Encoded(info)) \in Nat
  BY <1>1, EncodedIs, LenProperties
<1>4. PlacesOf(info, layout, Widths, Entries)
  BY <1>1, PlacesAre DEF Widths, Entries, layout
<1>5. Widths \in Nat /\ Entries \in Nat /\ layout.strings \in Nat
  BY <1>4 DEF PlacesOf
<1>6. Proper(layout)
  BY <1>1, DescriptionsAreProper DEF Described, layout
<1> QED
  BY <1>1, <1>2, <1>3, <1>4, <1>5, <1>6 DEF Proper, Widths

\* No part ends behind the payload.
LEMMA PartsAreWithin ==
    ASSUME NEW d \in Descriptions, NEW n \in 1..Len(Parts(d))
    PROVE  /\ Place(d, n) \in Nat /\ Place(d, n) <= Len(Encoded(d))
<1>1. Len(Encoded(d)) = Place(d, Len(Parts(d)))
  BY EncodedIs
<1>2. Len(Parts(d)) \in Nat /\ Len(Parts(d)) = Len(Sizes(d))
  BY PartsFit
<1>3. n \in 0..Len(Sizes(d)) /\ Len(Parts(d)) \in n..Len(Sizes(d))
  BY <1>2
<1>4. Place(d, n) <= Place(d, Len(Parts(d)))
  BY <1>3, PlacesGrow
<1> QED
  BY <1>1, <1>3, <1>4, PlaceStep

LEMMA WalkStarts == Init => WalkInv
<1> SUFFICES ASSUME Init PROVE WalkInv
  OBVIOUS
<1>1. PICK n \in 0..Len(Encoded(info)) : data = SubSeq(Encoded(info), 1, n)
  BY DEF Init
<1>2. info \in Descriptions
  BY DEF Init
<1>3. Input
  BY <1>1, <1>2, CutIs DEF Input, Whole
<1>4. /\ pc = "code" /\ pos = 0 /\ result = "none"
      /\ fields = <<>> /\ items = <<>> /\ texts = <<>>
  BY DEF Init
<1>5. /\ Len(data) \in Nat /\ Widths \in Nat /\ Entries \in Nat /\ layout.strings \in Nat
  BY <1>3, InputIsProper
<1>6. Control
  BY <1>4 DEF Control
<1>7. FieldsRead
  BY <1>4, <1>5 DEF FieldsRead
<1>8. ItemsRead
  BY <1>4, <1>5 DEF ItemsRead
<1>9. TextsRead
  BY <1>4, <1>5 DEF TextsRead
<1>10. Cursor
  BY <1>4, <1>5 DEF Cursor
<1>11. Progress
  BY <1>4 DEF Progress
<1>12. Outcome
  BY <1>4 DEF Outcome
<1> QED
  BY <1>3, <1>6, <1>7, <1>8, <1>9, <1>10, <1>11, <1>12 DEF WalkInv

\* What a step leaves alone stays true.
LEMMA InputKept ==
    ASSUME Input, UNCHANGED <<info, data>>
    PROVE  /\ Input' /\ layout' = layout /\ Widths' = Widths /\ Entries' = Entries
           /\ Cleaned' = Cleaned /\ (Excused => Excused')
<1>1. info' = info /\ data' = data
  OBVIOUS
<1>2. layout' = layout
  BY <1>1 DEF layout
<1>3. Input'
  BY <1>1 DEF Input, Whole
<1>4. Widths' = Widths /\ Entries' = Entries
  BY <1>1, <1>2 DEF Widths, Entries
<1>5. Cleaned' = Cleaned
  BY <1>1, <1>2 DEF Cleaned
<1>6. Excused => Excused'
  BY <1>1, <1>2 DEF Excused, Readable
<1> QED
  BY <1>2, <1>3, <1>4, <1>5, <1>6

LEMMA FieldsKept ==
    ASSUME Input, FieldsRead, UNCHANGED <<info, data, fields>> PROVE FieldsRead'
<1>1. Widths' = Widths /\ info' = info /\ fields' = fields
  BY InputKept
<1> QED
  BY <1>1 DEF FieldsRead

LEMMA ItemsKept ==
    ASSUME Input, ItemsRead, UNCHANGED <<info, data, items>> PROVE ItemsRead'
<1>1. Entries' = Entries /\ info' = info /\ items' = items
  BY InputKept
<1> QED
  BY <1>1 DEF ItemsRead

LEMMA TextsKept ==
    ASSUME Input, TextsRead, UNCHANGED <<info, data, texts>> PROVE TextsRead'
<1>1. layout' = layout /\ Cleaned' = Cleaned /\ info' = info /\ texts' = texts
  BY InputKept
<1> QED
  BY <1>1 DEF TextsRead

LEMMA FailKeeps ==
    ASSUME WalkInv, NEW error \in {"ProtocolError", "DeviceError", "Io", "StringEncoding"},
           Fail(error), Excused
    PROVE  WalkInv'
<1>1. /\ pc' = "done" /\ result' = error /\ info' = info /\ data' = data /\ pos' = pos
      /\ fields' = fields /\ items' = items /\ texts' = texts
  BY DEF Fail
<1>2. Input' /\ Excused'
  BY <1>1, InputKept DEF WalkInv
<1>3. Control'
  BY <1>1 DEF Control
<1>4. FieldsRead' /\ ItemsRead' /\ TextsRead'
  BY <1>1, FieldsKept, ItemsKept, TextsKept DEF WalkInv
<1>5. Cursor'
  BY <1>1 DEF WalkInv, Cursor
<1>6. Progress'
  BY <1>1 DEF Progress
<1>7. Outcome'
  BY <1>1, <1>2 DEF Outcome
<1> QED
  BY <1>2, <1>3, <1>4, <1>5, <1>6, <1>7 DEF WalkInv

LEMMA CheckCodeKeeps == WalkInv /\ CheckCode => WalkInv'
<1> SUFFICES ASSUME WalkInv, CheckCode PROVE WalkInv'
  OBVIOUS
<1>1. Input /\ CutOf(data, info) /\ info \in Descriptions /\ Len(data) \in Nat
  BY InputIsProper DEF WalkInv
<1>2. CASE Len(data) < 8
  <2>1. Len(Encoded(info)) >= 8
    <3>1. 1 \in 1..Len(Parts(info))
      BY <1>1, PartsAreCounted
    <3>2. Place(info, 1) = 8
      BY <1>1, InputIsProper DEF PlacesOf
    <3> QED BY <1>1, <3>1, <3>2, PartsAreWithin
  <2>2. Excused
    BY <1>1, <1>2, <2>1, InputIsProper DEF Excused
  <2>3. Fail("ProtocolError")
    BY <1>2 DEF CheckCode
  <2> QED BY <2>2, <2>3, FailKeeps
<1>3. CASE ~(Len(data) < 8) /\ BigEndian(SubSeq(data, 3, 4)) # Ok
  <2>1. info.code # Ok
    BY <1>1, <1>3, CodeIsRead
  <2>2. Excused
    BY <2>1 DEF Excused
  <2>3. Fail("DeviceError")
    BY <1>3 DEF CheckCode
  <2> QED BY <2>2, <2>3, FailKeeps
<1>4. CASE ~(Len(data) < 8) /\ BigEndian(SubSeq(data, 3, 4)) = Ok
  <2>1. Len(data) >= 8 /\ info.code = Ok
    BY <1>1, <1>4, CodeIsRead
  <2>2. /\ pc = "code" /\ pc' = "length" /\ pos' = 0 /\ result' = result
        /\ info' = info /\ data' = data
        /\ fields' = fields /\ items' = items /\ texts' = texts
    BY <1>4 DEF CheckCode, Go
  <2>3. Input' /\ FieldsRead' /\ ItemsRead' /\ TextsRead'
    BY <2>2, InputKept, FieldsKept, ItemsKept, TextsKept DEF WalkInv
  <2>4. result = "none"
    BY <2>2 DEF WalkInv, Control
  <2>5. Control'
    BY <2>2, <2>4 DEF Control
  <2>6. Cursor'
    BY <1>1, <2>2, <2>4 DEF Cursor
  <2>7. Progress'
    BY <2>2, <2>4 DEF WalkInv, Progress
  <2>8. Outcome'
    BY <2>1, <2>2, <2>4 DEF Outcome
  <2> QED BY <2>3, <2>5, <2>6, <2>7, <2>8 DEF WalkInv
<1> QED
  BY <1>2, <1>3, <1>4

LEMMA CheckLengthKeeps == WalkInv /\ CheckLength => WalkInv'
<1> SUFFICES ASSUME WalkInv, CheckLength PROVE WalkInv'
  OBVIOUS
<1>1. Input /\ Len(data) \in Nat /\ Widths \in Nat /\ PlacesOf(info, layout, Widths, Entries)
  BY InputIsProper DEF WalkInv
<1>2. pc = "length" /\ info.code = Ok /\ Len(data) >= 8 /\ result = "none" /\ fields = <<>>
  BY DEF CheckLength, WalkInv, Outcome, Control, Progress
<1>3. CASE Len(data) < layout.least
  <2>1. Fail("ProtocolError")
    BY <1>3 DEF CheckLength
  <2> QED BY <1>3, <2>1, FailKeeps DEF Excused
<1>4. CASE ~(Len(data) < layout.least)
  <2>1. /\ pc' = "fields" /\ pos' = 8 /\ result' = result /\ info' = info /\ data' = data
        /\ fields' = fields /\ items' = items /\ texts' = texts
    BY <1>4 DEF CheckLength, Go, HeaderLength
  <2>2. Input' /\ FieldsRead' /\ ItemsRead' /\ TextsRead'
    BY <2>1, InputKept, FieldsKept, ItemsKept, TextsKept DEF WalkInv
  <2>3. Control'
    BY <1>2, <2>1 DEF Control
  <2>4. Cursor'
    <3>1. Place(info, 1) = 8
      BY <1>1 DEF PlacesOf
    <3>2. 1 + Len(fields) = 1
      BY <1>2
    <3> QED BY <1>1, <1>2, <2>1, <3>1, <3>2 DEF Cursor
  <2>5. Progress'
    BY <1>2, <2>1 DEF WalkInv, Progress
  <2>6. Outcome'
    BY <1>2, <2>1 DEF Outcome
  <2> QED BY <2>2, <2>3, <2>4, <2>5, <2>6 DEF WalkInv
<1> QED
  BY <1>3, <1>4

\* What the next read returns, and where it ends.
LEMMA FieldIsRead ==
    ASSUME WalkInv, pc = "fields", Len(fields) < Widths
    PROVE  LET i == 1 + Len(fields)
           IN  /\ i \in 1..Widths /\ From \in Nat /\ Width \in Nat
               /\ From + Width = Place(info, 1 + i)
               /\ From + Width <= Len(Encoded(info))
               /\ From + Width <= Len(data) => Value = Number(info, i) /\ Value \in Nat
<1> DEFINE i == 1 + Len(fields)
<1>1. info \in Descriptions /\ CutOf(data, info) /\ Widths \in Nat
  BY InputIsProper DEF WalkInv
<1>2. i \in 1..Widths /\ i = Len(fields) + 1
  <2>1. Len(fields) \in Nat
    BY LenProperties DEF WalkInv, FieldsRead
  <2> QED BY <1>1, <2>1
<1>3. pos = Place(info, i)
  BY DEF WalkInv, Cursor
<1> DEFINE from == Place(info, i) + (IF layout.gap = i THEN 1 ELSE 0)
<1>4. Width = layout.widths[i] /\ From = from
  BY <1>2, <1>3 DEF Width, From
<1> HIDE DEF i
<1>5. /\ layout.widths[i] \in Nat /\ from \in Nat
      /\ from + layout.widths[i] = Place(info, 1 + i)
      /\ from + layout.widths[i] <= Len(data) =>
            BigEndian(SubSeq(data, from + 1, from + layout.widths[i])) = Number(info, i)
  <2>1. layout = Layout[info.kind]
    BY DEF layout
  <2>2. i \in 1..Len(layout.widths)
    BY <1>2 DEF Widths
  <2> QED BY <1>1, <2>1, <2>2, NumberIsRead
<1> HIDE DEF from
<1>6. Number(info, i) \in Nat
  BY <1>1, <1>2, NumbersAreGood DEF Widths, layout
<1>7. Place(info, 1 + i) <= Len(Encoded(info))
  <2>1. 1 + i \in 1..Len(Parts(info))
    BY <1>1, <1>2, NumberIsAPart DEF Widths, layout
  <2> QED BY <1>1, <2>1, PartsAreWithin
<1> QED
  BY <1>2, <1>4, <1>5, <1>6, <1>7 DEF i, Value

LEMMA ItemIsRead ==
    ASSUME WalkInv, pc = "items", Len(items) < Entries
    PROVE  LET i == 1 + Len(items)
           IN  /\ i \in 1..Entries /\ From \in Nat /\ Width \in Nat
               /\ From + Width = Place(info, 1 + Widths + i)
               /\ From + Width <= Len(Encoded(info))
               /\ From + Width <= Len(data) => Value = info.list[i] /\ Value \in Nat
<1> DEFINE i == 1 + Len(items)
<1>1. /\ info \in Descriptions /\ CutOf(data, info) /\ Widths \in Nat /\ Entries \in Nat
  BY InputIsProper DEF WalkInv
<1>2. i \in 1..Entries /\ 1 + Widths + Len(items) = Widths + i
  <2>1. Len(items) \in Nat
    BY LenProperties DEF WalkInv, ItemsRead
  <2> QED BY <1>1, <2>1
<1>3. pos = Place(info, Widths + i)
  BY <1>2 DEF WalkInv, Cursor
<1> HIDE DEF i
<1>4. /\ layout.item \in Nat /\ Place(info, Widths + i) \in Nat
      /\ Place(info, Widths + i) + layout.item = Place(info, 1 + Widths + i)
      /\ Place(info, Widths + i) + layout.item <= Len(data) =>
            BigEndian(SubSeq(data, Place(info, Widths + i) + 1, Place(info, Widths + i) + layout.item))
               = info.list[i]
  <2>1. layout = Layout[info.kind]
    BY DEF layout
  <2>2. i \in 1..Len(info.list)
    BY <1>2 DEF Entries
  <2> QED BY <1>1, <2>1, <2>2, EntryIsRead DEF Widths
<1>5. Width = layout.item /\ From = Place(info, Widths + i)
  <2>1. From = pos + 0
    BY DEF From
  <2>2. From = pos
    BY <1>3, <1>4, <2>1
  <2> QED BY <1>3, <2>2 DEF Width
<1>6. info.list[i] \in Nat
  <2>1. info.list \in Seq(Nat)
    BY <1>1, DescriptionsAreProper DEF Described
  <2> QED BY <1>2, <2>1, ElementOfSeq DEF Entries
<1>7. Place(info, 1 + Widths + i) <= Len(Encoded(info))
  <2>1. 1 + Widths + i \in 1..Len(Parts(info))
    BY <1>1, <1>2, EntryIsAPart DEF Widths, Entries, layout
  <2> QED BY <1>1, <2>1, PartsAreWithin
<1> QED
  BY <1>2, <1>4, <1>5, <1>6, <1>7 DEF i, Value

\* The last number counts the list.
LEMMA ListIsCounted ==
    ASSUME WalkInv, pc = "items"
    PROVE  fields[Len(fields)] = Entries
<1>1. info \in Descriptions /\ Widths \in Nat /\ Widths >= 1
  BY InputIsProper DEF WalkInv
<1>2. Len(fields) = Widths /\ layout.item # 0
  BY DEF WalkInv, Progress
<1>3. fields[Widths] = Number(info, Widths)
  BY <1>1, <1>2 DEF WalkInv, FieldsRead
<1>4. Number(info, Widths) = Entries
  BY <1>1, <1>2, CountIsANumber DEF Widths, Entries, layout
<1> QED
  BY <1>2, <1>3, <1>4

LEMMA ReadKeeps == WalkInv /\ Read => WalkInv'
<1> SUFFICES ASSUME WalkInv, Read PROVE WalkInv'
  OBVIOUS
<1>1. /\ Reading /\ From + Width <= Len(data) /\ pos' = From + Width
      /\ info' = info /\ data' = data /\ pc' = pc /\ texts' = texts /\ result' = result
  BY DEF Read
<1>2. /\ Input /\ Len(data) \in Nat /\ Widths \in Nat /\ Entries \in Nat
      /\ result # "ok" /\ result = "none"
  <2>1. pc # "done"
    BY <1>1 DEF Reading
  <2> QED BY <2>1, InputIsProper DEF WalkInv, Control
<1>3. /\ Input' /\ TextsRead' /\ Widths' = Widths /\ Entries' = Entries /\ layout' = layout
  BY <1>1, InputKept, TextsKept DEF WalkInv
<1>4. Control' /\ Outcome'
  BY <1>1, <1>2 DEF WalkInv, Control, Outcome
<1>5. CASE pc = "fields"
  <2> DEFINE i == 1 + Len(fields)
  <2>1. Len(fields) < Widths
    BY <1>1, <1>5 DEF Reading, Widths
  <2>2. /\ i \in 1..Widths /\ From \in Nat /\ Width \in Nat /\ From + Width = Place(info, 1 + i)
        /\ Value = Number(info, i) /\ Value \in Nat
    BY <1>1, <1>5, <2>1, FieldIsRead
  <2>3. fields' = Append(fields, Value) /\ items' = items
    BY <1>5 DEF Read
  <2>4. fields \in Seq(Nat) /\ \A j \in 1..Len(fields) : fields[j] = Number(info, j)
    BY DEF WalkInv, FieldsRead
  <2>5. /\ fields' \in Seq(Nat) /\ Len(fields') = i
        /\ \A j \in 1..i : fields'[j] = IF j = i THEN Value ELSE fields[j]
    <3>1. Len(fields) \in Nat
      BY <2>4, LenProperties
    <3> QED BY <2>2, <2>3, <2>4, <3>1, AppendProperties
  <2>6. \A j \in 1..i : j # i => j \in 1..Len(fields)
    BY <2>2, <2>4, LenProperties
  <2> HIDE DEF i
  <2>7. FieldsRead'
    <3>1. \A j \in 1..i : fields'[j] = Number(info, j)
      BY <2>2, <2>4, <2>5, <2>6
    <3>2. i <= Widths
      BY <1>2, <2>2
    <3> QED BY <1>1, <1>3, <2>5, <3>1, <3>2 DEF FieldsRead
  <2>8. ItemsRead'
    BY <1>1, <2>3, ItemsKept DEF WalkInv
  <2>9. Cursor'
    BY <1>1, <1>2, <1>5, <2>2, <2>5 DEF Cursor
  <2>10. Progress'
    BY <1>1, <1>2, <1>5, <2>3 DEF WalkInv, Progress
  <2> QED BY <1>3, <1>4, <2>7, <2>8, <2>9, <2>10 DEF WalkInv
<1>6. CASE pc = "items"
  <2> DEFINE i == 1 + Len(items)
  <2>1. Len(items) < Entries
    BY <1>1, <1>6, ListIsCounted DEF Reading
  <2>2. /\ i \in 1..Entries /\ From \in Nat /\ Width \in Nat
        /\ From + Width = Place(info, 1 + Widths + i)
        /\ Value = info.list[i] /\ Value \in Nat
    BY <1>1, <1>6, <2>1, ItemIsRead
  <2>3. items' = Append(items, Value) /\ fields' = fields
    BY <1>6 DEF Read
  <2>4. items \in Seq(Nat) /\ \A j \in 1..Len(items) : items[j] = info.list[j]
    BY DEF WalkInv, ItemsRead
  <2>5. /\ items' \in Seq(Nat) /\ Len(items') = i
        /\ \A j \in 1..i : items'[j] = IF j = i THEN Value ELSE items[j]
    <3>1. Len(items) \in Nat
      BY <2>4, LenProperties
    <3> QED BY <2>2, <2>3, <2>4, <3>1, AppendProperties
  <2>6. \A j \in 1..i : j # i => j \in 1..Len(items)
    BY <2>2, <2>4, LenProperties
  <2> HIDE DEF i
  <2>7. ItemsRead'
    <3>1. \A j \in 1..i : items'[j] = info.list[j]
      BY <2>2, <2>4, <2>5, <2>6
    <3>2. i <= Entries
      BY <1>2, <2>2
    <3> QED BY <1>1, <1>3, <2>5, <3>1, <3>2 DEF ItemsRead
  <2>8. FieldsRead'
    BY <1>1, <2>3, FieldsKept DEF WalkInv
  <2>9. Cursor'
    BY <1>1, <1>2, <1>3, <1>6, <2>2, <2>5 DEF Cursor
  <2>10. Progress'
    BY <1>1, <1>2, <1>3, <1>6, <2>3 DEF WalkInv, Progress
  <2> QED BY <1>3, <1>4, <2>7, <2>8, <2>9, <2>10 DEF WalkInv
<1> QED
  BY <1>1, <1>5, <1>6 DEF Reading

LEMMA ReadEndsKeeps == WalkInv /\ ReadEnds => WalkInv'
<1> SUFFICES ASSUME WalkInv, ReadEnds PROVE WalkInv'
  OBVIOUS
<1>1. Reading /\ From + Width > Len(data) /\ Fail("Io")
  BY DEF ReadEnds
<1>2. Len(data) \in Nat /\ Len(Encoded(info)) \in Nat
  BY InputIsProper DEF WalkInv
<1>3. From \in Nat /\ Width \in Nat /\ From + Width <= Len(Encoded(info))
  <2>1. CASE pc = "fields" /\ Len(fields) < Widths
    BY <2>1, FieldIsRead
  <2>2. CASE pc = "items" /\ Len(items) < Entries
    BY <2>2, ItemIsRead
  <2> QED BY <1>1, <2>1, <2>2, ListIsCounted DEF Reading, Widths
<1>4. Excused
  BY <1>1, <1>2, <1>3 DEF Excused
<1> QED
  BY <1>1, <1>4, FailKeeps

LEMMA AllReadKeeps == WalkInv /\ AllRead => WalkInv'
<1> SUFFICES ASSUME WalkInv, AllRead PROVE WalkInv'
  OBVIOUS
<1>1. /\ pc \in {"fields", "items"} /\ ~Reading /\ pos' = pos
      /\ pc' = IF pc = "fields" /\ layout.item # 0 THEN "items" ELSE "strings"
      /\ info' = info /\ data' = data /\ result' = result
      /\ fields' = fields /\ items' = items /\ texts' = texts
  BY DEF AllRead, Go
<1>2. /\ Input /\ info \in Descriptions /\ Len(data) \in Nat /\ Widths \in Nat /\ Entries \in Nat
      /\ result = "none"
  BY <1>1, InputIsProper DEF WalkInv, Control
<1>3. /\ Input' /\ FieldsRead' /\ ItemsRead' /\ TextsRead'
      /\ Widths' = Widths /\ Entries' = Entries /\ layout' = layout
  BY <1>1, InputKept, FieldsKept, ItemsKept, TextsKept DEF WalkInv
<1>4. Control' /\ Outcome'
  BY <1>1, <1>2 DEF WalkInv, Control, Outcome
<1>5. /\ Len(fields) \in Nat /\ Len(fields) <= Widths
      /\ Len(items) \in Nat /\ Len(items) <= Entries /\ texts = <<>>
  BY <1>1, LenProperties DEF WalkInv, FieldsRead, ItemsRead, Progress
<1>6. Len(fields) = Widths
  <2>1. CASE pc = "fields"
    <3>1. ~(Len(fields) < Widths)
      BY <1>1, <2>1 DEF Reading, Widths
    <3> QED BY <1>2, <1>5, <3>1
  <2>2. CASE pc = "items"
    BY <2>2 DEF WalkInv, Progress
  <2> QED BY <1>1, <2>1, <2>2
<1>7. CASE pc = "fields" /\ layout.item # 0
  <2>1. pc' = "items" /\ items = <<>>
    BY <1>1, <1>7 DEF WalkInv, Progress
  <2>2. Cursor'
    <3>1. pos = Place(info, 1 + Widths) /\ pos \in 0..Len(data)
      BY <1>6, <1>7 DEF WalkInv, Cursor
    <3>2. 1 + Widths + Len(items) = 1 + Widths
      BY <1>2, <2>1
    <3> QED BY <1>1, <1>2, <1>3, <2>1, <3>1, <3>2 DEF Cursor
  <2>3. Progress'
    BY <1>1, <1>2, <1>3, <1>5, <1>6, <1>7, <2>1 DEF Progress
  <2> QED BY <1>3, <1>4, <2>2, <2>3 DEF WalkInv
<1>8. CASE pc = "items" \/ layout.item = 0
  <2>1. pc' = "strings"
    BY <1>1, <1>8
  <2>2. Len(items) = Entries /\ pos = Place(info, 1 + Widths + Entries)
    <3>1. CASE pc = "items"
      <4>1. ~(Len(items) < Entries)
        BY <1>1, <3>1, ListIsCounted DEF Reading
      <4>2. Len(items) = Entries
        BY <1>2, <1>5, <4>1
      <4> QED BY <3>1, <4>2 DEF WalkInv, Cursor
    <3>2. CASE pc = "fields" /\ layout.item = 0
      <4>1. items = <<>> /\ pos = Place(info, 1 + Widths)
        BY <1>6, <3>2 DEF WalkInv, Progress, Cursor
      <4>2. Entries = 0
        BY <1>2, <3>2, DescriptionsAreProper DEF Described, layout, Entries
      <4>3. Len(items) = 0 /\ 1 + Widths + Entries = 1 + Widths
        BY <1>2, <4>1, <4>2
      <4> QED BY <4>1, <4>2, <4>3
    <3> QED BY <1>1, <1>8, <3>1, <3>2
  <2>3. Cursor'
    <3>1. pos \in 0..Len(data)
      BY DEF WalkInv, Cursor
    <3>2. pos <= Len(data)
      BY <1>2, <3>1
    <3>3. 1 + Widths + Entries + Len(texts) = 1 + Widths + Entries
      BY <1>2, <1>5
    <3> QED BY <1>1, <1>2, <1>3, <2>1, <2>2, <3>1, <3>2, <3>3 DEF Cursor
  <2>4. Progress'
    BY <1>1, <1>2, <1>3, <1>6, <2>1, <2>2 DEF Progress
  <2> QED BY <1>3, <1>4, <2>3, <2>4 DEF WalkInv
<1> QED
  BY <1>1, <1>7, <1>8

LEMMA StringIsRead ==
    ASSUME WalkInv, pc = "strings", Len(texts) < layout.strings
    PROVE  LET k == 1 + Len(texts)
           IN  /\ k \in 1..layout.strings /\ Field(0) \in Nat /\ Field(1) \in Nat
               /\ Field(0) + Field(1) = Place(info, 1 + Widths + Entries + k)
               /\ Field(0) + Field(1) <= Len(Encoded(info))
               /\ Field(0) + Field(1) <= Len(data) =>
                     SubSeq(data, Field(0) + 1, Field(0) + Field(1)) = info.texts[k]
<1> DEFINE k == 1 + Len(texts)
           n == Len(texts)
           i == layout.first + 2 * (k - 1)
           from == Place(info, Widths + Entries + k)
           size == Len(info.texts[k])
<1>1. /\ info \in Descriptions /\ CutOf(data, info) /\ Widths \in Nat /\ Entries \in Nat
      /\ layout.strings \in Nat /\ layout = Layout[info.kind]
  BY InputIsProper DEF WalkInv, layout
<1>2. n \in Nat /\ k \in 1..layout.strings /\ k - 1 = n
  <2>1. n \in Nat
    BY LenProperties DEF WalkInv, TextsRead
  <2> QED BY <1>1, <2>1
<1>3. layout.first \in Nat
  BY <1>1, DescriptionsAreProper DEF Described, Proper
<1> HIDE DEF k
<1>4. /\ i \in 1..Widths /\ i + 1 \in 1..Widths
      /\ Number(info, i) = from /\ Number(info, i + 1) = size
  BY <1>1, <1>2, StringsAreNamed DEF Widths, Entries
<1>5. Field(0) = fields[i] /\ Field(1) = fields[i + 1]
  <2>1. layout.first + 2 * n + 0 = i /\ layout.first + 2 * n + 1 = i + 1
    BY <1>2, <1>3
  <2> HIDE DEF i
  <2>2. Field(0) = fields[layout.first + 2 * n + 0] /\ Field(1) = fields[layout.first + 2 * n + 1]
    BY DEF Field
  <2> HIDE DEF n
  <2> QED BY <2>1, <2>2
<1> HIDE DEF i, n
<1>6. fields[i] = Number(info, i) /\ fields[i + 1] = Number(info, i + 1)
  <2>1. Len(fields) = Widths
    BY DEF WalkInv, Progress
  <2>2. \A j \in 1..Widths : fields[j] = Number(info, j)
    BY <2>1 DEF WalkInv, FieldsRead
  <2> QED BY <1>4, <2>2
<1>7. Field(0) = from /\ Field(1) = size
  BY <1>4, <1>5, <1>6
<1>8. /\ from \in Nat /\ size \in Nat /\ from + size = Place(info, 1 + Widths + Entries + k)
      /\ from + size <= Len(data) => SubSeq(data, from + 1, from + size) = info.texts[k]
  BY <1>1, <1>2, TextIsRead DEF Widths, Entries
<1>9. Place(info, 1 + Widths + Entries + k) <= Len(Encoded(info))
  <2>1. 1 + Widths + Entries + k \in 1..Len(Parts(info))
    BY <1>1, <1>2, TextIsAPart DEF Widths, Entries
  <2> QED BY <1>1, <2>1, PartsAreWithin
<1> HIDE DEF from, size
<1> QED
  BY <1>2, <1>7, <1>8, <1>9 DEF k

LEMMA ExtractKeeps == WalkInv /\ Extract => WalkInv'
<1> SUFFICES ASSUME WalkInv, Extract PROVE WalkInv'
  OBVIOUS
<1> DEFINE k == 1 + Len(texts)
           field == SubSeq(data, Field(0) + 1, Field(0) + Field(1))
           text == UpToNul(field)
<1>1. pc = "strings" /\ Len(texts) < layout.strings
  BY DEF Extract
<1>2. /\ k \in 1..layout.strings /\ Field(0) \in Nat /\ Field(1) \in Nat
      /\ Field(0) + Field(1) = Place(info, 1 + Widths + Entries + k)
      /\ Field(0) + Field(1) <= Len(Encoded(info))
      /\ Field(0) + Field(1) <= Len(data) => field = info.texts[k]
  BY <1>1, StringIsRead
<1>3. /\ Input /\ info \in Descriptions /\ Len(data) \in Nat /\ Len(Encoded(info)) \in Nat
      /\ layout.strings \in Nat /\ result = "none"
  BY <1>1, InputIsProper DEF WalkInv, Control
<1> HIDE DEF k, field
<1>4. CASE ~InBounds
  <2>1. Excused
    BY <1>2, <1>3, <1>4 DEF InBounds, Excused
  <2>2. Fail("ProtocolError")
    BY <1>4 DEF Extract
  <2> QED BY <2>1, <2>2, FailKeeps
<1>5. CASE InBounds /\ ~IsUtf8(text)
  <2>1. field = info.texts[k]
    BY <1>2, <1>5 DEF InBounds
  <2>2. k \in DOMAIN info.texts
    BY <1>2, <1>3, DescriptionsAreProper, LenProperties DEF Described, layout
  <2>3. ~Readable
    BY <1>5, <2>1, <2>2 DEF Readable
  <2>4. Fail("StringEncoding")
    BY <1>5 DEF Extract, field
  <2> QED BY <2>3, <2>4, FailKeeps DEF Excused
<1>6. CASE InBounds /\ IsUtf8(text)
  <2>1. /\ texts' = Append(texts, text)
        /\ info' = info /\ data' = data /\ pc' = pc /\ pos' = pos
        /\ fields' = fields /\ items' = items /\ result' = result
    BY <1>6 DEF Extract, field
  <2>2. text = UpToNul(info.texts[k]) /\ Place(info, 1 + Widths + Entries + k) <= Len(data)
    BY <1>2, <1>6 DEF InBounds
  <2>3. /\ Input' /\ FieldsRead' /\ ItemsRead' /\ Widths' = Widths /\ Entries' = Entries
        /\ layout' = layout /\ Cleaned' = Cleaned
    BY <2>1, InputKept, FieldsKept, ItemsKept DEF WalkInv
  <2>4. Control' /\ Outcome'
    BY <1>3, <2>1, <2>3 DEF WalkInv, Control, Outcome
  <2>5. text \in Cleaned
    BY <1>2, <2>2 DEF Cleaned
  <2>6. texts \in Seq(Cleaned) /\ \A j \in 1..Len(texts) : texts[j] = UpToNul(info.texts[j])
    BY DEF WalkInv, TextsRead
  <2>7. Len(texts) \in Nat
    BY <2>6, LenProperties
  <2> HIDE DEF text
  <2>8. /\ texts' \in Seq(Cleaned) /\ Len(texts') = k
        /\ \A j \in 1..k : texts'[j] = IF j = k THEN text ELSE texts[j]
    BY <2>1, <2>5, <2>6, <2>7, AppendProperties DEF k
  <2>9. \A j \in 1..k : j # k => j \in 1..Len(texts)
    BY <2>7 DEF k
  <2>10. TextsRead'
    <3>1. \A j \in 1..k : texts'[j] = UpToNul(info.texts[j])
      BY <2>2, <2>6, <2>8, <2>9
    <3>2. k <= layout.strings
      BY <1>2, <1>3
    <3> QED BY <2>1, <2>3, <2>8, <3>1, <3>2 DEF TextsRead
  <2>11. Cursor'
    BY <1>1, <2>1, <2>2, <2>3, <2>8 DEF WalkInv, Cursor
  <2>12. Progress'
    BY <1>1, <1>3, <2>1, <2>3 DEF WalkInv, Progress
  <2> QED BY <2>3, <2>4, <2>10, <2>11, <2>12 DEF WalkInv
<1> QED
  BY <1>4, <1>5, <1>6

LEMMA FinishKeeps == WalkInv /\ Finish => WalkInv'
<1> SUFFICES ASSUME WalkInv, Finish PROVE WalkInv'
  OBVIOUS
<1>1. /\ pc = "strings" /\ Len(texts) = layout.strings /\ pc' = "done" /\ result' = "ok"
      /\ info' = info /\ data' = data /\ pos' = pos
      /\ fields' = fields /\ items' = items /\ texts' = texts
  BY DEF Finish
<1>2. /\ Input' /\ FieldsRead' /\ ItemsRead' /\ TextsRead'
      /\ Widths' = Widths /\ Entries' = Entries /\ layout' = layout
  BY <1>1, InputKept, FieldsKept, ItemsKept, TextsKept DEF WalkInv
<1>3. Control'
  BY <1>1 DEF Control
<1>4. Cursor'
  BY <1>1, <1>2 DEF WalkInv, Cursor
<1>5. Progress'
  BY <1>1, <1>2 DEF WalkInv, Progress
<1>6. Outcome'
  BY <1>1 DEF WalkInv, Outcome
<1> QED
  BY <1>2, <1>3, <1>4, <1>5, <1>6 DEF WalkInv

(***************************************************************************)
(* Every step of a walk keeps the invariant, whatever the camera describes *)
(* and wherever its payload ends.                                          *)
(***************************************************************************)
THEOREM WalkIsFollowed == Spec => []WalkInv
<1>1. Init => WalkInv
  BY WalkStarts
<1>2. WalkInv /\ [Next]_vars => WalkInv'
  <2> SUFFICES ASSUME WalkInv, [Next]_vars PROVE WalkInv'
    OBVIOUS
  <2>1. CASE CheckCode
    BY <2>1, CheckCodeKeeps
  <2>2. CASE CheckLength
    BY <2>2, CheckLengthKeeps
  <2>3. CASE Read
    BY <2>3, ReadKeeps
  <2>4. CASE ReadEnds
    BY <2>4, ReadEndsKeeps
  <2>5. CASE AllRead
    BY <2>5, AllReadKeeps
  <2>6. CASE Extract
    BY <2>6, ExtractKeeps
  <2>7. CASE Finish
    BY <2>7, FinishKeeps
  <2>8. CASE UNCHANGED vars
    <3>1. /\ info' = info /\ data' = data /\ pc' = pc /\ pos' = pos /\ result' = result
          /\ fields' = fields /\ items' = items /\ texts' = texts
      BY <2>8 DEF vars
    <3>2. /\ Input' /\ FieldsRead' /\ ItemsRead' /\ TextsRead'
          /\ Widths' = Widths /\ Entries' = Entries /\ layout' = layout
          /\ (Excused => Excused')
      BY <3>1, InputKept, FieldsKept, ItemsKept, TextsKept DEF WalkInv
    <3>3. Control' /\ Outcome'
      BY <3>1, <3>2 DEF WalkInv, Control, Outcome
    <3>4. Cursor' /\ Progress'
      BY <3>1, <3>2 DEF WalkInv, Cursor, Progress
    <3> QED BY <3>2, <3>3, <3>4 DEF WalkInv
  <2> QED
    BY <2>1, <2>2, <2>3, <2>4, <2>5, <2>6, <2>7, <2>8 DEF Next
<1> QED
  BY <1>1, <1>2, PTL DEF Spec

(***************************************************************************)
(* The variables have their types, and the cursor stays within the data.   *)
(***************************************************************************)
THEOREM TypeCorrect == Spec => []TypeOK
<1>1. WalkInv => TypeOK
  <2> SUFFICES ASSUME WalkInv PROVE TypeOK
    OBVIOUS
  <2>1. \A i \in DOMAIN fields : fields[i] \in Nat
    BY ElementOfSeq, LenProperties DEF WalkInv, FieldsRead
  <2> QED
    BY <2>1 DEF WalkInv, Input, Control, FieldsRead, TextsRead, Cursor, Widths, TypeOK
<1> QED
  BY <1>1, WalkIsFollowed, PTL

(***************************************************************************)
(* A whole response that is Ok and readable is parsed into what the camera *)
(* described: every number from its bytes (utils.rs:6-31), every entry of  *)
(* the list (commands.rs:708-710), every string from its own offset, up to *)
(* its NUL (commands.rs:869-882).                                          *)
(***************************************************************************)
THEOREM WholeIsParsed == Spec => []WholeResponseParses
<1>1. WalkInv => WholeResponseParses
  <2> SUFFICES ASSUME WalkInv, pc = "done", Whole, info.code = Ok, Readable,
                      Len(data) >= layout.least
               PROVE  /\ result = "ok"
                      /\ fields = [i \in DOMAIN layout.widths |-> Number(info, i)]
                      /\ items = info.list
                      /\ texts = [k \in DOMAIN info.texts |-> UpToNul(info.texts[k])]
    BY DEF WholeResponseParses
  <2>1. /\ info \in Descriptions /\ Len(data) \in Nat /\ layout.least \in Nat
        /\ Widths \in Nat /\ Entries \in Nat /\ layout.strings \in Nat
    BY InputIsProper DEF WalkInv
  <2>2. Proper(layout) /\ info.list \in Seq(Nat) /\ DOMAIN info.texts = 1..layout.strings
    BY <2>1, DescriptionsAreProper, LenProperties DEF Described, layout
  <2>3. result = "ok"
    <3>1. Len(data) = Len(Encoded(info))
      BY DEF Whole
    <3>2. ~Excused
      BY <2>1, <3>1 DEF Excused
    <3> QED BY <3>2 DEF WalkInv, Control, Outcome
  <2>4. /\ Len(fields) = Widths /\ Len(items) = Entries /\ Len(texts) = layout.strings
    BY <2>3 DEF WalkInv, Progress
  <2>5. fields = [i \in DOMAIN layout.widths |-> Number(info, i)]
    <3>1. DOMAIN layout.widths = 1..Widths
      BY <2>2, LenProperties DEF Proper, Widths
    <3>2. fields \in [1..Widths -> Nat] /\ \A i \in 1..Widths : fields[i] = Number(info, i)
      BY <2>4, LenProperties DEF WalkInv, FieldsRead
    <3> QED BY <3>1, <3>2
  <2>6. items = info.list
    BY <2>2, <2>4, SeqEqual DEF WalkInv, ItemsRead, Entries
  <2>7. texts = [k \in DOMAIN info.texts |-> UpToNul(info.texts[k])]
    <3>1. texts \in Seq(Cleaned) /\ \A k \in 1..Len(texts) : texts[k] = UpToNul(info.texts[k])
      BY DEF WalkInv, TextsRead
    <3>2. texts \in [1..layout.strings -> Cleaned]
      BY <2>4, <3>1, LenProperties
    <3> QED BY <2>2, <2>4, <3>1, <3>2
  <2> QED BY <2>3, <2>5, <2>6, <2>7
<1> QED
  BY <1>1, WalkIsFollowed, PTL

(***************************************************************************)
(* A response that ends anywhere before its last byte, or that has another *)
(* code, is an error and never a value (commands.rs:656-688, 869-889).     *)
(***************************************************************************)
THEOREM CutFails == Spec => []CutResponseFails
<1>1. WalkInv => CutResponseFails
  <2> SUFFICES ASSUME WalkInv, result = "ok" PROVE Whole /\ info.code = Ok
    BY DEF CutResponseFails
  <2>1. /\ info \in Descriptions /\ CutOf(data, info) /\ Len(data) \in Nat
        /\ Len(Encoded(info)) \in Nat /\ PlacesOf(info, layout, Widths, Entries)
    BY InputIsProper DEF WalkInv
  <2>2. Place(info, 1 + Widths + Entries + layout.strings) <= Len(data)
    BY DEF WalkInv, Progress, Cursor
  <2>3. Len(Encoded(info)) = Place(info, 1 + Widths + Entries + layout.strings)
    BY <2>1 DEF PlacesOf
  <2>4. Len(data) = Len(Encoded(info))
    BY <2>1, <2>2, <2>3 DEF CutOf
  <2> QED BY <2>4 DEF WalkInv, Input, Outcome
<1> QED
  BY <1>1, WalkIsFollowed, PTL

=============================================================================
