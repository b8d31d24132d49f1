------------------------------ MODULE JsonText ------------------------------
(***************************************************************************)
(* The characters of JSON texts: a text is a sequence of bytes in UTF-8    *)
(* (rapidjson/encodings.h), read from position p on; the byte behind the   *)
(* last is the NUL that ends a C string.                                   *)
(***************************************************************************)
EXTENDS Integers, Sequences, TLC

FromSpace == " !\"#$%&'()*+,-./0123456789:;<=>?@ABCDEFGHIJKLMNOPQRSTUVWXYZ[\\]^_"
FromSmallA == "abcdefghijklmnopqrstuvwxyz{|}~"
Numbered(letters, first) ==
  [c \in {SubSeq(letters, n, n) : n \in 1..Len(letters)} |->
     first - 1 + CHOOSE n \in 1..Len(letters) : SubSeq(letters, n, n) = c]
Code == Numbered(FromSpace, 32) @@ Numbered(FromSmallA, 97)

(* A string literal as bytes. *)
Ascii(string) == [i \in 1..Len(string) |-> Code[SubSeq(string, i, i)]]

NUL == 0
Quote == 34
Star == 42
Comma == 44
Minus == 45
Dot == 46
Slash == 47
Colon == 58
LeftBracket == 91
Backslash == 92
RightBracket == 93
LeftBrace == 123
RightBrace == 125
Tilde == 126
White == {32, 10, 13, 9}
Digits == 48..57
HexDigits == Digits \cup (65..70) \cup (97..102)
HexValue(c) == IF c \in Digits THEN c - 48 ELSE IF c \in 65..70 THEN c - 55 ELSE c - 87

ByteAt(text, p) == IF p \in DOMAIN text THEN text[p] ELSE NUL

(* The first position from p on whose byte is not in class. *)
Beyond(text, p, class) ==
  CHOOSE q \in p..(Len(text) + 1) : /\ ByteAt(text, q) \notin class
                                    /\ \A r \in p..(q - 1) : ByteAt(text, r) \in class

(* UTF8::Encode: 6 bits to a continuation byte. *)
EncodeCodepoint(codepoint) ==
  LET six(i) == 128 + ((codepoint \div 64^i) % 64)
  IN CASE codepoint < 2^7 -> <<codepoint>>
       [] codepoint \in 2^7..(2^11 - 1) -> <<192 + (codepoint \div 64), six(0)>>
       [] codepoint \in 2^11..(2^16 - 1) -> <<224 + (codepoint \div 64^2), six(1), six(0)>>
       [] OTHER -> <<240 + (codepoint \div 64^3), six(2), six(1), six(0)>>

(* UTF8::GetRange: the class of a first byte is how the bytes behind it must
   be, each an interval. *)
Continuation == 128..191
GetRange(c) ==
  CASE c \in 194..223 -> <<Continuation>>
    [] c = 224 -> <<160..191, Continuation>>
    [] c = 237 -> <<128..159, Continuation>>
    [] c \in 225..239 \ {237} -> <<Continuation, Continuation>>
    [] c = 240 -> <<144..191, Continuation, Continuation>>
    [] c \in 241..243 -> <<Continuation, Continuation, Continuation>>
    [] c = 244 -> <<128..143, Continuation, Continuation>>
    [] OTHER -> <<{}>>

(* UTF8::Validate at p: whether it is a character, and its bytes. *)
Character(text, p) == SubSeq(text, p, p + Len(GetRange(ByteAt(text, p))))
Validate(text, p) ==
  LET range == GetRange(ByteAt(text, p))
  IN ByteAt(text, p) < 128 \/ \A i \in DOMAIN range : ByteAt(text, p + i) \in range[i]
Validated(text, p) == IF ByteAt(text, p) < 128 THEN <<ByteAt(text, p)>> ELSE Character(text, p)

(* Numbers too wide for TLC's integers are the sequences of their decimal
   digits, without leading zeros. *)
MAX_INT32 == <<2, 1, 4, 7, 4, 8, 3, 6, 4, 7>>
MIN_INT32 == <<2, 1, 4, 7, 4, 8, 3, 6, 4, 8>>
MAX_UINT32 == <<4, 2, 9, 4, 9, 6, 7, 2, 9, 5>>
MAX_INT64 == <<9, 2, 2, 3, 3, 7, 2, 0, 3, 6, 8, 5, 4, 7, 7, 5, 8, 0, 7>>
MIN_INT64 == <<9, 2, 2, 3, 3, 7, 2, 0, 3, 6, 8, 5, 4, 7, 7, 5, 8, 0, 8>>
MAX_UINT64 == <<1, 8, 4, 4, 6, 7, 4, 4, 0, 7, 3, 7, 0, 9, 5, 5, 1, 6, 1, 5>>
MAX_EXACT == <<9, 0, 0, 7, 1, 9, 9, 2, 5, 4, 7, 4, 0, 9, 9, 1>>

(* The order of two digit sequences that begin at the same decimal place, and
   of two numbers. *)
Before(m, n) ==
  \/ \E i \in DOMAIN m \cap DOMAIN n : m[i] < n[i] /\ \A j \in 1..(i - 1) : m[j] = n[j]
  \/ Len(m) < Len(n) /\ m = SubSeq(n, 1, Len(m))
AtMost(m, n) == Len(m) < Len(n) \/ (Len(m) = Len(n) /\ ~Before(n, m))
=============================================================================
