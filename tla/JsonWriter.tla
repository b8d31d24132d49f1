----------------------------- MODULE JsonWriter -----------------------------
(***************************************************************************)
(* rapidjson/writer.h and prettywriter.h: a handler that writes the events *)
(* it is told as text.  The state w of a writer: the text, whether a root  *)
(* was begun, the levels it is in, and what an assertion or a value it     *)
(* cannot write stopped it for.  A double's digits are the shortest that   *)
(* mean it: Grisu2 is taken for correct, the layout of digits is not.      *)
(***************************************************************************)
EXTENDS JsonText, SequencesExt

(* The styles: "plain" is Writer, the others PrettyWriter, with and without
   kFormatSingleLineArray. *)
NewWriter(style) ==
  [style |-> style, text |-> <<>>, hasRoot |-> FALSE, levels |-> <<>>, stopped |-> "no"]
Write(w, bytes) == [w EXCEPT !.text = w.text \o bytes]
Stop(w, why) == [w EXCEPT !.stopped = why]

-----------------------------------------------------------------------------
(* WriteString: what must be escaped is, by a letter if there is one. *)
EscapeLetter == (8 :> 98) @@ (9 :> 116) @@ (10 :> 110) @@ (12 :> 102) @@ (13 :> 114)
                  @@ (Quote :> Quote) @@ (Backslash :> Backslash)
HexDigit(n) == IF n < 10 THEN 48 + n ELSE 55 + n
Escaped_NoControls(c) ==
  IF c \in DOMAIN EscapeLetter THEN <<Backslash, EscapeLetter[c]>> ELSE <<c>>
Escaped(c) ==
  CASE c \in DOMAIN EscapeLetter -> <<Backslash, EscapeLetter[c]>>
    [] c \in (0..31) \ DOMAIN EscapeLetter ->
         <<Backslash, 117, 48, 48, HexDigit(c \div 16), HexDigit(c % 16)>>
    [] OTHER -> <<c>>
StringText(bytes) ==
  <<Quote>> \o FlattenSeq([i \in DOMAIN bytes |-> Escaped(bytes[i])]) \o <<Quote>>

(* WriteInt ... WriteUint64. *)
Sign(data) == IF data[1] = 1 THEN <<Minus>> ELSE <<>>
Numerals(digits) == [i \in DOMAIN digits |-> 48 + digits[i]]
IntegerText(data) ==
  Sign(data) \o (IF Tail(data) = <<>> THEN <<48>> ELSE Numerals(Tail(data)))

(* WriteDouble, with dtoa's Prettify and WriteExponent: kk is the place of the
   point. *)
Zeros(n) == [i \in 1..n |-> 48]
Decimal(n) ==
  LET digits[i \in 0..3] == IF i = 0 THEN <<>>
                            ELSE IF n < 10^(i - 1) /\ i > 1 THEN digits[i - 1]
                            ELSE <<48 + ((n \div 10^(i - 1)) % 10)>> \o digits[i - 1]
  IN digits[3]
WriteExponent(k) == <<101>> \o (IF k < 0 THEN <<Minus>> \o Decimal(0 - k) ELSE Decimal(k))
Prettify(numerals, kk) ==
  LET length == Len(numerals)
  IN CASE length <= kk /\ kk <= 21 -> numerals \o Zeros(kk - length) \o <<Dot, 48>>
       [] 0 < kk /\ kk < length /\ kk <= 21 ->
            SubSeq(numerals, 1, kk) \o <<Dot>> \o SubSeq(numerals, kk + 1, length)
       [] -6 < kk /\ kk <= 0 -> <<48, Dot>> \o Zeros(0 - kk) \o numerals
       [] (kk <= -6 \/ kk > 21) /\ length = 1 -> numerals \o WriteExponent(kk - 1)
       [] OTHER -> <<Head(numerals), Dot>> \o Tail(numerals) \o WriteExponent(kk - 1)
DoubleText(data) ==
  Sign(data) \o (IF Len(data) = 2 THEN <<48, Dot, 48>>
                 ELSE Prettify(Numerals(SubSeq(data, 3, Len(data))), data[2]))
Finite(data) == data[2] < 1000

-----------------------------------------------------------------------------
(* Prefix and PrettyPrefix: the separator before a value, by how many values
   its level holds and whether that is an array; names and values of a member
   count as one each. *)
Indent(levels) == <<10>> \o [i \in 1..(4 * Len(levels)) |-> 32]
Separator(w, level) ==
  LET odd == level.valueCount % 2 = 1
      comma == IF level.valueCount > 0 THEN <<Comma>> ELSE <<>>
  IN CASE ~level.inArray /\ odd -> IF w.style = "plain" THEN <<Colon>> ELSE <<Colon, 32>>
       [] w.style = "plain" /\ (level.inArray \/ ~odd) -> comma
       [] w.style = "single line" /\ level.inArray ->
            IF level.valueCount > 0 THEN <<Comma, 32>> ELSE <<>>
       [] OTHER -> comma \o Indent(w.levels)
Prefix(w, isString) ==
  IF w.levels = <<>>
  THEN IF w.hasRoot THEN Stop(w, "second root") ELSE [w EXCEPT !.hasRoot = TRUE]
  ELSE LET level == Head(w.levels)
       IN IF ~level.inArray /\ level.valueCount % 2 = 0 /\ ~isString
          THEN Stop(w, "no name")
          ELSE [w EXCEPT !.text = w.text \o Separator(w, level),
                         !.levels[1].valueCount = level.valueCount + 1]
After(w, Next(_)) == IF w.stopped = "no" THEN Next(w) ELSE w

Scalar(w, isString, text) == After(Prefix(w, isString), LAMBDA v : Write(v, text))
Begin(w, inArray, bracket) ==
  After(Prefix(w, FALSE),
        LAMBDA v : [Write(v, bracket) EXCEPT
                      !.levels = <<[valueCount |-> 0, inArray |-> inArray]>> \o v.levels])

(* EndObject and EndArray: the assertions, then the line break of a level that
   is not empty. *)
Broken(w, level) ==
  IF level.valueCount = 0 \/ w.style = "plain" \/ (w.style = "single line" /\ level.inArray)
  THEN <<>> ELSE Indent(Tail(w.levels))
End(w, inArray, bracket) ==
  IF w.levels = <<>> THEN Stop(w, "no level")
  ELSE LET level == Head(w.levels)
       IN IF level.inArray # inArray THEN Stop(w, "other level")
          ELSE IF ~inArray /\ level.valueCount % 2 = 1 THEN Stop(w, "no value")
          ELSE [Write(w, Broken(w, level) \o bracket) EXCEPT !.levels = Tail(w.levels)]

Told(w, e) ==
  CASE w.stopped # "no" -> w
    [] e.event = "Null" -> Scalar(w, FALSE, Ascii("null"))
    [] e.event = "Bool" -> Scalar(w, FALSE, IF e.value[1] = 1 THEN Ascii("true") ELSE Ascii("false"))
    [] e.event \in {"Int", "Uint", "Int64", "Uint64"} -> Scalar(w, FALSE, IntegerText(e.value))
    [] e.event = "Double" -> IF Finite(e.value) THEN Scalar(w, FALSE, DoubleText(e.value))
                             ELSE After(Prefix(w, FALSE), LAMBDA v : Stop(v, "not a number"))
    [] e.event = "RawNumber" -> Scalar(w, FALSE, StringText(e.value))
    [] e.event \in {"String", "Key"} -> Scalar(w, TRUE, StringText(e.value))
    [] e.event = "StartObject" -> Begin(w, FALSE, <<LeftBrace>>)
    [] e.event = "StartArray" -> Begin(w, TRUE, <<LeftBracket>>)
    [] e.event = "EndObject" -> End(w, FALSE, <<RightBrace>>)
    [] OTHER -> End(w, TRUE, <<RightBracket>>)
WriteEvents(events, style) == FoldLeft(Told, NewWriter(style), events)
=============================================================================
