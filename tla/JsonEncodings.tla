--------------------------- MODULE JsonEncodings ---------------------------
(***************************************************************************)
(* rapidjson/encodings.h, encodedstream.h and memorystream.h: code points  *)
(* as units of an encoding, units as bytes, and how an input stream finds  *)
(* out the encoding of the bytes it is given.  UTF-8 itself is in JsonText. *)
(***************************************************************************)
EXTENDS JsonText, SequencesExt

Surrogates == 55296..57343   \* D800 to DFFF, a high half and a low half
Highs == 55296..56319
Lows == 56320..57343
MAX_CODEPOINT == 1114111     \* 10FFFF

(* Units as bytes. *)
UnitSize(encoding) ==
  CASE encoding \in {"UTF8", "ASCII"} -> 1
    [] encoding \in {"UTF16LE", "UTF16BE"} -> 2
    [] OTHER -> 4
PutUTF16LE(unit) == <<unit % 256, (unit \div 256) % 256>>
PutUTF16BE(unit) == <<(unit \div 256) % 256, unit % 256>>
PutUTF32LE(unit) == PutUTF16LE(unit % 2^16) \o PutUTF16LE(unit \div 2^16)
PutUTF32BE(unit) == PutUTF16BE(unit \div 2^16) \o PutUTF16BE(unit % 2^16)
PutUnit(encoding, unit) ==
  CASE encoding = "UTF16LE" -> PutUTF16LE(unit)
    [] encoding = "UTF16BE" -> PutUTF16BE(unit)
    [] encoding = "UTF32LE" -> PutUTF32LE(unit)
    [] encoding = "UTF32BE" -> PutUTF32BE(unit)
    [] OTHER -> <<unit>>
TakeUTF16LE(bytes, p) == ByteAt(bytes, p) + 256 * ByteAt(bytes, p + 1)
TakeUTF16BE(bytes, p) == 256 * ByteAt(bytes, p) + ByteAt(bytes, p + 1)
TakeUTF32LE(bytes, p) == TakeUTF16LE(bytes, p) + 2^16 * TakeUTF16LE(bytes, p + 2)
TakeUTF32BE(bytes, p) == 2^16 * TakeUTF16BE(bytes, p) + TakeUTF16BE(bytes, p + 2)
TakeUnit(encoding, bytes, p) ==
  CASE encoding = "UTF16LE" -> TakeUTF16LE(bytes, p)
    [] encoding = "UTF16BE" -> TakeUTF16BE(bytes, p)
    [] encoding = "UTF32LE" -> TakeUTF32LE(bytes, p)
    [] encoding = "UTF32BE" -> TakeUTF32BE(bytes, p)
    [] OTHER -> ByteAt(bytes, p)

(* The byte order mark, and where the first unit that is not one begins.  In
   UTF-8 the mark is left behind byte by byte, as far as the bytes are its. *)
FEFF == 65279
BOM == <<239, 187, 191>>
PutBOM(encoding) ==
  CASE encoding = "UTF8" -> BOM
    [] encoding = "ASCII" -> <<>>
    [] OTHER -> PutUnit(encoding, FEFF)
BehindBOM(encoding, bytes) ==
  CASE encoding = "UTF8" ->
         CHOOSE p \in 1..4 : /\ p < 4 => ByteAt(bytes, p) # BOM[p]
                             /\ \A q \in 1..(p - 1) : ByteAt(bytes, q) = BOM[q]
    [] encoding = "ASCII" -> 1
    [] OTHER -> 1 + (IF TakeUnit(encoding, bytes, 1) = FEFF THEN UnitSize(encoding) ELSE 0)

-----------------------------------------------------------------------------
(* Code points as units.  Decode answers whether there is one, how many units
   it took, and what it is. *)
EncodeUTF16(codepoint) ==
  IF codepoint < 2^16 THEN <<codepoint>>
  ELSE LET v == codepoint - 2^16 IN <<55296 + (v \div 1024), 56320 + (v % 1024)>>
EncodeTo(encoding, codepoint) ==
  CASE encoding = "UTF8" -> EncodeCodepoint(codepoint)
    [] encoding \in {"UTF16LE", "UTF16BE"} -> EncodeUTF16(codepoint)
    [] OTHER -> <<codepoint>>

Decoded(ok, n, codepoint) == [ok |-> ok, n |-> n, codepoint |-> codepoint]
FirstBits(c) == CASE c \in 194..223 -> c - 192 [] c \in 224..239 -> c - 224 [] OTHER -> c - 240
DecodeUTF8(units, i) ==
  LET c == ByteAt(units, i)
      range == GetRange(c)
      bits[k \in 0..Len(range)] ==
        IF k = 0 THEN FirstBits(c) ELSE 64 * bits[k - 1] + (ByteAt(units, i + k) % 64)
  IN CASE c < 128 -> Decoded(TRUE, 1, c)
       [] c >= 128 /\ range = <<{}>> -> Decoded(FALSE, 1, 0)
       [] OTHER -> Decoded(\A k \in DOMAIN range : ByteAt(units, i + k) \in range[k],
                           1 + Len(range), bits[Len(range)])
DecodeUTF16_AnyLow(units, i) ==
  LET c == ByteAt(units, i)
      d == ByteAt(units, i + 1)
  IN CASE c \notin Surrogates -> Decoded(TRUE, 1, c)
       [] c \in Highs -> Decoded(d \in Surrogates, 2, 2^16 + 1024 * (c % 1024) + (d % 1024))
       [] OTHER -> Decoded(FALSE, 1, 0)
DecodeUTF16(units, i) ==
  LET c == ByteAt(units, i)
      d == ByteAt(units, i + 1)
  IN CASE c \notin Surrogates -> Decoded(TRUE, 1, c)
       [] c \in Highs -> Decoded(d \in Lows, 2, 2^16 + 1024 * (c % 1024) + (d % 1024))
       [] OTHER -> Decoded(FALSE, 1, 0)
DecodeUTF32(units, i) == Decoded(ByteAt(units, i) <= MAX_CODEPOINT, 1, ByteAt(units, i))
DecodeASCII(units, i) == Decoded(ByteAt(units, i) < 128, 1, ByteAt(units, i))
DecodeFrom(encoding, units, i) ==
  CASE encoding = "UTF8" -> DecodeUTF8(units, i)
    [] encoding \in {"UTF16LE", "UTF16BE"} -> DecodeUTF16(units, i)
    [] encoding = "ASCII" -> DecodeASCII(units, i)
    [] OTHER -> DecodeUTF32(units, i)

(* Validate copies the units of one code point, and tells whether it is one. *)
Copied(ok, units) == [ok |-> ok, units |-> units]
ValidateUTF16(units, i) ==
  LET c == ByteAt(units, i)
      d == ByteAt(units, i + 1)
  IN IF c \in Highs THEN Copied(d \in Lows, <<c, d>>) ELSE Copied(c \notin Surrogates, <<c>>)
ValidateUTF32(units, i) == Copied(ByteAt(units, i) <= MAX_CODEPOINT, <<ByteAt(units, i)>>)
ValidateASCII(units, i) == Copied(ByteAt(units, i) < 128, <<ByteAt(units, i)>>)
ValidateIn(encoding, units, i) ==
  CASE encoding = "UTF8" -> Copied(Validate(units, i), Validated(units, i))
    [] encoding \in {"UTF16LE", "UTF16BE"} -> ValidateUTF16(units, i)
    [] encoding = "ASCII" -> ValidateASCII(units, i)
    [] OTHER -> ValidateUTF32(units, i)

(* Transcoder::Transcode, until the units end: from an encoding to itself it
   copies units, whatever they are. *)
RECURSIVE TranscodeFrom(_, _, _, _)
TranscodeFrom(source, target, units, i) ==
  LET decoded == DecodeFrom(source, units, i)
      rest == TranscodeFrom(source, target, units, i + decoded.n)
  IN CASE i > Len(units) -> Copied(TRUE, <<>>)
       [] i <= Len(units) /\ source = target -> Copied(TRUE, SubSeq(units, i, Len(units)))
       [] i <= Len(units) /\ source # target /\ ~decoded.ok -> Copied(FALSE, <<>>)
       [] OTHER -> Copied(rest.ok, EncodeTo(target, decoded.codepoint) \o rest.units)

-----------------------------------------------------------------------------
(* An output stream writes a mark, if it is asked to, and units; an input
   stream is bound to an encoding or finds it out: by the mark, or else by
   where among the first four bytes there are NULs.  A stream of less than
   four bytes is what its user says.  Behind its end a stream has NULs. *)
EncodedOutput(encoding, units, putBOM) ==
  (IF putBOM THEN PutBOM(encoding) ELSE <<>>)
    \o FlattenSeq([i \in DOMAIN units |-> PutUnit(encoding, units[i])])

UnitsFrom(encoding, bytes, p) ==
  LET size == UnitSize(encoding)
  IN [i \in 1..((Len(bytes) - p + size) \div size) |-> TakeUnit(encoding, bytes, p + (i - 1) * size)]
EncodedInput(encoding, bytes) == UnitsFrom(encoding, bytes, BehindBOM(encoding, bytes))

(* Over a MemoryStream each byte of UTF-8's mark is left behind on its own,
   whether or not those before it were there. *)
UTF8MemoryInput(bytes) ==
  LET p == FoldLeft(LAMBDA q, b : IF ByteAt(bytes, q) = b THEN q + 1 ELSE q, 1, BOM)
  IN SubSeq(bytes, p, Len(bytes))

Marked == <<"UTF32BE", "UTF32LE", "UTF16BE", "UTF16LE", "UTF8">>   \* in the order they are tried
Patterns == (<<TRUE, TRUE, TRUE, FALSE>> :> "UTF32BE") @@ (<<TRUE, FALSE, TRUE, FALSE>> :> "UTF16BE")
              @@ (<<FALSE, TRUE, TRUE, TRUE>> :> "UTF32LE") @@ (<<FALSE, TRUE, FALSE, TRUE>> :> "UTF16LE")
              @@ (<<FALSE, FALSE, FALSE, FALSE>> :> "UTF8")
Detected(type, hasBOM, p) == [type |-> type, hasBOM |-> hasBOM, p |-> p]
DetectAmong(marked, bytes, type) ==
  LET marks == SelectSeq(marked, LAMBDA e : IsPrefix(PutBOM(e), bytes))
      pattern == [k \in 1..4 |-> bytes[k] = NUL]
  IN CASE Len(bytes) < 4 -> Detected(type, FALSE, 1)
       [] Len(bytes) >= 4 /\ marks # <<>> -> Detected(marks[1], TRUE, 1 + Len(PutBOM(marks[1])))
       [] Len(bytes) >= 4 /\ marks = <<>> /\ pattern \in DOMAIN Patterns ->
            Detected(Patterns[pattern], FALSE, 1)
       [] OTHER -> Detected(type, FALSE, 1)
DetectType_ShortMarksFirst(bytes, type) == DetectAmong(Reverse(Marked), bytes, type)
DetectType(bytes, type) == DetectAmong(Marked, bytes, type)
AutoUTFInput(bytes, type) ==
  LET detected == DetectType(bytes, type) IN UnitsFrom(detected.type, bytes, detected.p)
=============================================================================
