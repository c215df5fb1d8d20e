----------------------------- MODULE MCParsers -----------------------------
(***************************************************************************)
(* Small instances of Parsers for TLC.                                     *)
(***************************************************************************)
EXTENDS Parsers

AllKinds ==
    {"storage_ids", "object_handles", "capture", "object_info", "device_info", "storage_info"}

\* Two different bytes where there is room for them.
SomeNumbers == [width \in {1, 2, 4, 8} |-> IF width = 1 THEN 7 ELSE 258]

ShortLists == {<<>>, <<4097>>, <<4097, 5>>}

\* Empty, a character of two bytes, half of it, and one byte with its NUL and
\* one that is in no UTF-8 behind it.
SomeTexts == {<<>>, <<195, 169>>, <<195>>, <<66, 0, 255>>}

SomeCodes == {8193, 8194}
=============================================================================
