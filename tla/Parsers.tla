------------------------------ MODULE Parsers ------------------------------
(***************************************************************************)
(* From the payload of a response to a value: check_response_error, then   *)
(* parse_storage_ids, parse_object_handles, parse_object_info, the end of  *)
(* initiate_capture (commands.rs), parse_device_info or parse_storage_info *)
(* (transport.rs).                                                         *)
(* All are the same walk over the bytes with a cursor: a minimum length,   *)
(* numbers of fixed width, a list, and strings named by offset and length. *)
(* What differs is in Layout.  One read_*_be or extract_string is one      *)
(* step; the first error ends the walk.                                    *)
(***************************************************************************)
EXTENDS Integers, Sequences

CONSTANTS
    Kinds,      \* what the responses hold
    Numbers,    \* Numbers[width]: a number that takes all of a narrow field
    Lists,      \* contents of the lists
    Texts,      \* texts of the strings, as they are in the bytes
    Codes       \* response codes

VARIABLES
    info,       \* what the camera describes
    data,       \* the payload, perhaps cut short
    pc,         \* "code", "length", "fields", "items", "strings" or "done"
    pos,        \* position of the cursor
    fields,     \* numbers read
    items,      \* list entries read
    texts,      \* strings extracted
    result      \* "none", "ok" or the error

vars == <<info, data, pc, pos, fields, items, texts, result>>

Ok == 8193
HeaderLength == 8

(***************************************************************************)
(* least: the length that is checked.  widths: the numbers in order; the   *)
(* last one counts the list if there is one.  item: the width of a list    *)
(* entry, 0 without list.  first, strings: the number that is the offset   *)
(* of the first string, and how many strings there are.  gap: a reserved   *)
(* byte comes before that number.                                          *)
(***************************************************************************)
Layout == [
    storage_ids    |-> [least |-> 10, widths |-> <<4>>, item |-> 4,
                        first |-> 2, strings |-> 0, gap |-> 0],
    object_handles |-> [least |-> 10, widths |-> <<4>>, item |-> 4,
                        first |-> 2, strings |-> 0, gap |-> 0],
    capture        |-> [least |-> 12, widths |-> <<4>>, item |-> 0,
                        first |-> 2, strings |-> 0, gap |-> 0],
    object_info    |-> [least |-> 64,
                        widths |-> <<4, 2, 1, 8, 4, 4, 4, 4, 4, 4, 4, 4, 4>>,
                        item |-> 0, first |-> 6, strings |-> 4, gap |-> 4],
    device_info    |-> [least |-> 24, widths |-> <<4, 4, 4, 4, 4, 4, 4, 4, 2>>,
                        item |-> 2, first |-> 1, strings |-> 4, gap |-> 0],
    storage_info   |-> [least |-> 40, widths |-> <<4, 2, 2, 2, 8, 8, 4, 4, 4, 4, 4>>,
                        item |-> 0, first |-> 8, strings |-> 2, gap |-> 0]]

layout == Layout[info.kind]

\* Faulty variant: the bytes are taken in the order of the host.
BigEndianReversed(bytes) ==
    LET value[i \in 0..Len(bytes)] ==
            IF i = 0 THEN 0 ELSE value[i - 1] * 256 + bytes[Len(bytes) + 1 - i]
    IN  value[Len(bytes)]

BigEndian(bytes) ==
    LET value[i \in 0..Len(bytes)] == IF i = 0 THEN 0 ELSE value[i - 1] * 256 + bytes[i]
    IN  value[Len(bytes)]

(***************************************************************************)
(* The camera.  It puts the header, the numbers, the list and the strings  *)
(* one after the other; its payload may end anywhere.                      *)
(***************************************************************************)
Shifted(value, n) ==
    LET rest[i \in 0..n] == IF i = 0 THEN value ELSE rest[i - 1] \div 256 IN rest[n]

Bytes(value, width) == [i \in 1..width |-> Shifted(value, width - i) % 256]
Fits(value, width) == Shifted(value, width) = 0

Sizes(described) ==
    LET l == Layout[described.kind]
    IN  <<HeaderLength>>
        \o [i \in DOMAIN l.widths |-> l.widths[i] + (IF l.gap = i THEN 1 ELSE 0)]
        \o [i \in DOMAIN described.list |-> l.item]
        \o [k \in DOMAIN described.texts |-> Len(described.texts[k])]

\* How many bytes the first n parts of the payload take.
Place(described, n) ==
    LET sizes == Sizes(described)
        place[i \in 0..n] == IF i = 0 THEN 0 ELSE place[i - 1] + sizes[i]
    IN  place[n]

Offset(described, k) ==
    Place(described, Len(Layout[described.kind].widths) + Len(described.list) + k)

Number(described, i) ==
    LET l == Layout[described.kind]
        k == (i - l.first) \div 2 + 1
    IN  CASE l.item # 0 /\ i = Len(l.widths) -> Len(described.list)
          [] i \in l.first..(l.first + 2 * l.strings - 1) ->
                IF (i - l.first) % 2 = 0 THEN Offset(described, k)
                ELSE Len(described.texts[k])
          [] OTHER -> Numbers[l.widths[i]]

Parts(described) ==
    LET l == Layout[described.kind]
    IN  << <<0, 0>> \o Bytes(described.code, 2) \o <<0, 0, 0, 0>> >>
        \o [i \in DOMAIN l.widths |->
                (IF l.gap = i THEN <<0>> ELSE <<>>) \o Bytes(Number(described, i), l.widths[i])]
        \o [i \in DOMAIN described.list |-> Bytes(described.list[i], l.item)]
        \o described.texts

Encoded(described) ==
    LET parts == Parts(described)
        joined[i \in 0..Len(parts)] == IF i = 0 THEN <<>> ELSE joined[i - 1] \o parts[i]
    IN  joined[Len(parts)]

Descriptions ==
    UNION {[kind : {kind}, code : Codes,
            list : IF Layout[kind].item = 0 THEN {<<>>} ELSE Lists,
            texts : [1..Layout[kind].strings -> Texts]] : kind \in Kinds}

(***************************************************************************)
(* A description can be sent: each number fits into its field.             *)
(***************************************************************************)
ASSUME ParsersAssumption ==
    /\ Kinds \subseteq DOMAIN Layout
    /\ \A width \in {1, 2, 4, 8} : Numbers[width] \in Nat
    /\ Lists \subseteq Seq(Nat) /\ Texts \subseteq Seq(0..255) /\ Codes \subseteq Nat
    /\ \A described \in Descriptions :
          LET l == Layout[described.kind]
          IN  /\ Fits(described.code, 2)
              /\ \A i \in DOMAIN l.widths : Fits(Number(described, i), l.widths[i])
              /\ \A i \in DOMAIN described.list : Fits(described.list[i], l.item)

Init ==
    /\ info \in Descriptions
    /\ \E n \in 0..Len(Encoded(info)) : data = SubSeq(Encoded(info), 1, n)
    /\ pc = "code" /\ pos = 0
    /\ fields = <<>> /\ items = <<>> /\ texts = <<>>
    /\ result = "none"

-----------------------------------------------------------------------------
Fail(error) ==
    /\ pc' = "done" /\ result' = error
    /\ UNCHANGED <<info, data, pos, fields, items, texts>>

Go(to) ==
    /\ pc' = to
    /\ UNCHANGED <<info, data, fields, items, texts, result>>

(***************************************************************************)
(* check_response_error.                                                   *)
(***************************************************************************)
CheckCode ==
    /\ pc = "code"
    /\ IF Len(data) < 8 THEN Fail("ProtocolError")
       ELSE IF BigEndian(SubSeq(data, 3, 4)) # Ok THEN Fail("DeviceError")
       ELSE Go("length") /\ pos' = 0

CheckLength ==
    /\ pc = "length"
    /\ IF Len(data) < layout.least THEN Fail("ProtocolError")
       ELSE Go("fields") /\ pos' = HeaderLength

(***************************************************************************)
(* read_u8_be ... read_u64_be: read_exact of the cursor.                   *)
(***************************************************************************)
Width == IF pc = "fields" THEN layout.widths[Len(fields) + 1] ELSE layout.item
From == pos + (IF pc = "fields" /\ layout.gap = Len(fields) + 1 THEN 1 ELSE 0)
Reading ==
    \/ pc = "fields" /\ Len(fields) < Len(layout.widths)
    \/ pc = "items" /\ Len(items) < fields[Len(fields)]
Value == BigEndian(SubSeq(data, From + 1, From + Width))

Read ==
    /\ Reading /\ From + Width <= Len(data)
    /\ pos' = From + Width
    /\ IF pc = "fields" THEN fields' = Append(fields, Value) /\ UNCHANGED items
       ELSE items' = Append(items, Value) /\ UNCHANGED fields
    /\ UNCHANGED <<info, data, pc, texts, result>>

\* Faulty variant: what is missing at the end is read as zero.
ReadEndsZero ==
    /\ Reading /\ From + Width > Len(data)
    /\ pos' = From + Width
    /\ IF pc = "fields" THEN fields' = Append(fields, 0) /\ UNCHANGED items
       ELSE items' = Append(items, 0) /\ UNCHANGED fields
    /\ UNCHANGED <<info, data, pc, texts, result>>

\* Faulty variant: a list that ends early is taken as it is.
ReadEndsList ==
    /\ Reading /\ From + Width > Len(data)
    /\ IF pc = "items" THEN Go("strings") /\ UNCHANGED pos ELSE Fail("Io")

\* Faulty variant: the loop over the list tries again.
ReadAgain ==
    /\ Reading /\ From + Width > Len(data)
    /\ UNCHANGED vars

ReadEnds ==
    /\ Reading /\ From + Width > Len(data)
    /\ Fail("Io")

AllRead ==
    /\ pc \in {"fields", "items"} /\ ~Reading
    /\ Go(IF pc = "fields" /\ layout.item # 0 THEN "items" ELSE "strings")
    /\ UNCHANGED pos

(***************************************************************************)
(* extract_string: the bytes up to the first NUL, if they are UTF-8, that  *)
(* is, leading bytes with the continuation bytes they call for.            *)
(***************************************************************************)
Field(i) == fields[layout.first + 2 * Len(texts) + i]
UpToNul(bytes) ==
    SubSeq(bytes, 1, CHOOSE n \in 0..Len(bytes) :
                        /\ n < Len(bytes) => bytes[n + 1] = 0
                        /\ \A i \in 1..n : bytes[i] # 0)

Leading == 0..127 \cup 194..244
Continuing == 128..191
TailLength(b) == IF b < 194 THEN 0 ELSE IF b < 224 THEN 1 ELSE IF b < 240 THEN 2 ELSE 3
AfterFirst(b) ==
    CASE b = 224 -> 160..191
      [] b = 237 -> 128..159
      [] b = 240 -> 144..191
      [] b = 244 -> 128..143
      [] OTHER -> Continuing

IsUtf8(text) ==
    \A i \in DOMAIN text :
        \/ /\ text[i] \in Leading
           /\ \A k \in 1..TailLength(text[i]) :
                  /\ i + k \in DOMAIN text
                  /\ text[i + k] \in IF k = 1 THEN AfterFirst(text[i]) ELSE Continuing
        \/ /\ text[i] \in Continuing
           /\ \E k \in 1..3 : i - k \in DOMAIN text /\ text[i - k] \in Leading
                               /\ k <= TailLength(text[i - k])

InBounds == Field(0) + Field(1) <= Len(data)

Extract ==
    /\ pc = "strings" /\ Len(texts) < layout.strings
    /\ IF ~InBounds THEN Fail("ProtocolError")
       ELSE LET text == UpToNul(SubSeq(data, Field(0) + 1, Field(0) + Field(1)))
            IN  IF ~IsUtf8(text) THEN Fail("StringEncoding")
                ELSE /\ texts' = Append(texts, text)
                     /\ UNCHANGED <<info, data, pc, pos, fields, items, result>>

Finish ==
    /\ pc = "strings" /\ Len(texts) = layout.strings
    /\ pc' = "done" /\ result' = "ok"
    /\ UNCHANGED <<info, data, pos, fields, items, texts>>

-----------------------------------------------------------------------------
Next == CheckCode \/ CheckLength \/ Read \/ ReadEnds \/ AllRead \/ Extract \/ Finish

Spec == Init /\ [][Next]_vars /\ WF_vars(Next)

-----------------------------------------------------------------------------
(***************************************************************************)
(* Every variable has its type, and the cursor stays within the data.      *)
(***************************************************************************)
TypeOK ==
    /\ info \in Descriptions
    /\ pc \in {"code", "length", "fields", "items", "strings", "done"}
    /\ pos \in 0..Len(data)
    /\ Len(fields) <= Len(layout.widths)
    /\ \A i \in DOMAIN fields : fields[i] \in Nat
    /\ Len(texts) <= layout.strings
    /\ result \in {"none", "ok", "ProtocolError", "DeviceError", "Io", "StringEncoding"}

Whole == data = Encoded(info)
Readable == \A k \in DOMAIN info.texts : IsUtf8(UpToNul(info.texts[k]))

(***************************************************************************)
(* A whole response with code Ok and valid texts is parsed, into what the  *)
(* camera described: each number from its place, each string from its own  *)
(* offset, without what follows its NUL.  Only an object whose four        *)
(* strings take fewer than four bytes is refused: the length that is       *)
(* checked (commands.rs:738) is four more than the numbers take.           *)
(***************************************************************************)
WholeResponseParses ==
    pc = "done" /\ Whole /\ info.code = Ok /\ Readable /\ Len(data) >= layout.least =>
        /\ result = "ok"
        /\ fields = [i \in DOMAIN layout.widths |-> Number(info, i)]
        /\ items = info.list
        /\ texts = [k \in DOMAIN info.texts |-> UpToNul(info.texts[k])]

(***************************************************************************)
(* A response that is not whole, or has another code, is never taken for a *)
(* value, wherever it ends: in a number, in the list, in a string, or in   *)
(* front of a string that is empty.                                        *)
(***************************************************************************)
CutResponseFails == result = "ok" => Whole /\ info.code = Ok

(***************************************************************************)
(* The walk ends, however long the list claims to be.                      *)
(***************************************************************************)
ParseReturns == <>(pc = "done")
=============================================================================
