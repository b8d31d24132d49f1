----------------------------- MODULE JsonReader -----------------------------
(***************************************************************************)
(* rapidjson/reader.h, which begin_publish reads the streamer's answer     *)
(* with: a recursive parser, an iterative one over a table of states, and  *)
(* one that stops behind every token.  All read a text and tell a handler  *)
(* (which refuses nothing) the events they find.                           *)
(*                                                                         *)
(* The state s of a parse: the text, the flags, the position p, the events *)
(* so far, the error with its offset, the string being read and, of the    *)
(* iterative parsers, the state and the stack of enclosing states with     *)
(* their counts.  A double is its sign, the place of its point and its     *)
(* digits: what rounding to a binary fraction does is left out.            *)
(***************************************************************************)
EXTENDS JsonText

(* The number n of a parse: the digits of its significand without leading
   zeros, whether it is to be a double, the significant digits counted for
   one, the exponents, and whether it is NaN or Inf instead. *)
Positive == [minus |-> 0, digits |-> <<>>, useDouble |-> FALSE, significandDigit |-> 0,
             expFrac |-> 0, exp |-> 0, nanOrInf |-> "no"]
Start(text, flags) ==
  [text |-> text, flags |-> flags, p |-> 1, events |-> <<>>, error |-> "None", at |-> 0,
   str |-> <<>>, hex |-> 0, n |-> Positive, state |-> "Start", stack |-> <<>>]

Peek(s) == ByteAt(s.text, s.p)
Take(s) == [s EXCEPT !.p = s.p + 1]
Tell(s) == s.p - 1
Emit(s, event, value) == [s EXCEPT !.events = Append(s.events, [event |-> event, value |-> value])]

(* RAPIDJSON_PARSE_ERROR and RAPIDJSON_PARSE_ERROR_EARLY_RETURN. *)
FailAt(s, code, offset) == [s EXCEPT !.error = code, !.at = offset]
Fail(s, code) == FailAt(s, code, Tell(s))
Then(s, Parse(_)) == IF s.error = "None" THEN Parse(s) ELSE s

-----------------------------------------------------------------------------
SkipWhitespace(s) == [s EXCEPT !.p = Beyond(s.text, s.p, White)]

RECURSIVE SkipBlock(_)
SkipBlock(s) ==
  IF Peek(s) = NUL THEN Fail(s, "UnspecificSyntaxError")
  ELSE IF Peek(s) = Star /\ Peek(Take(s)) = Slash THEN Take(Take(s)) ELSE SkipBlock(Take(s))
SkipLine(s) ==
  LET end == [s EXCEPT !.p = Beyond(s.text, s.p, (0..255) \ {NUL, 10})]
  IN IF Peek(end) = NUL THEN end ELSE Take(end)
SkipComment(s) ==
  CASE Peek(s) = Star -> SkipBlock(Take(s))
    [] Peek(s) = Slash -> SkipLine(Take(s))
    [] OTHER -> Fail(s, "UnspecificSyntaxError")

RECURSIVE SkipWhitespaceAndComments(_)
CommentsFrom(s) ==
  IF "comments" \in s.flags /\ Peek(s) = Slash
  THEN Then(SkipComment(Take(s)), SkipWhitespaceAndComments) ELSE s
SkipWhitespaceAndComments(s) == CommentsFrom(SkipWhitespace(s))

-----------------------------------------------------------------------------
(* The letters of a word are consumed one by one, up to the first that is
   wrong. *)
RECURSIVE ConsumeWord(_, _)
ConsumeWord(s, word) ==
  IF word = <<>> THEN s
  ELSE IF Peek(s) = Head(word) THEN ConsumeWord(Take(s), Tail(word)) ELSE Fail(s, "ValueInvalid")
NullText == Ascii("null")
TrueText == Ascii("true")
FalseText == Ascii("false")
ParseNull(s) == Then(ConsumeWord(s, NullText), LAMBDA t : Emit(t, "Null", <<>>))
ParseTrue(s) == Then(ConsumeWord(s, TrueText), LAMBDA t : Emit(t, "Bool", <<1>>))
ParseFalse(s) == Then(ConsumeWord(s, FalseText), LAMBDA t : Emit(t, "Bool", <<0>>))

-----------------------------------------------------------------------------
(* Strings: escapes, the \u escape and its surrogate pairs. *)
EscapeOf == (Quote :> Quote) @@ (Slash :> Slash) @@ (Backslash :> Backslash) @@ (98 :> 8)
              @@ (102 :> 12) @@ (110 :> 10) @@ (114 :> 13) @@ (116 :> 9)
Put(s, bytes) == [s EXCEPT !.str = s.str \o bytes]

ParseHex4(s, escapeOffset) ==
  LET digit(i) == ByteAt(s.text, s.p + i)
  IN IF \A i \in 0..3 : digit(i) \in HexDigits
     THEN [s EXCEPT !.p = s.p + 4,
                    !.hex = 16^3 * HexValue(digit(0)) + 16^2 * HexValue(digit(1))
                              + 16 * HexValue(digit(2)) + HexValue(digit(3))]
     ELSE FailAt(s, "StringUnicodeEscapeInvalidHex", escapeOffset)

LowSurrogate_Unchecked(s, high, escapeOffset) ==
  Put(s, EncodeCodepoint(1024 * (high - 55296) + ((s.hex + 8192) % 1024) + 65536))
LowSurrogate(s, high, escapeOffset) ==
  IF s.hex \in 56320..57343
  THEN Put(s, EncodeCodepoint(1024 * (high - 55296) + (s.hex - 56320) + 65536))
  ELSE FailAt(s, "StringUnicodeSurrogateInvalid", escapeOffset)
Codepoint(s, escapeOffset) ==
  IF s.hex \notin 55296..56319 THEN Put(s, EncodeCodepoint(s.hex))
  ELSE IF Peek(s) = Backslash /\ Peek(Take(s)) = 117
  THEN Then(ParseHex4(Take(Take(s)), escapeOffset),
            LAMBDA t : LowSurrogate(t, s.hex, escapeOffset))
  ELSE FailAt(s, "StringUnicodeSurrogateInvalid", escapeOffset)

(* s is behind the backslash at escapeOffset. *)
Escape(s, escapeOffset) ==
  CASE Peek(s) \in DOMAIN EscapeOf -> Put(Take(s), <<EscapeOf[Peek(s)]>>)
    [] Peek(s) = 117 -> Then(ParseHex4(Take(s), escapeOffset),
                             LAMBDA t : Codepoint(t, escapeOffset))
    [] OTHER -> FailAt(s, "StringEscapeInvalid", escapeOffset)

(* One character that is no escape, validated if asked for. *)
Transcode(s) ==
  IF "validate" \notin s.flags THEN Put(Take(s), <<Peek(s)>>)
  ELSE IF Validate(s.text, s.p)
  THEN Put([s EXCEPT !.p = s.p + Len(Validated(s.text, s.p))], Validated(s.text, s.p))
  ELSE Fail(s, "StringInvalidEncoding")

RECURSIVE ParseStringToStream(_)
ParseStringToStream(s) ==
  CASE Peek(s) = Backslash -> Then(Escape(Take(s), Tell(s)), ParseStringToStream)
    [] Peek(s) = Quote -> Take(s)
    [] Peek(s) = NUL -> Fail(s, "StringMissQuotationMark")
    [] Peek(s) \in 1..31 -> Fail(s, "StringInvalidEncoding")
    [] OTHER -> Then(Transcode(s), ParseStringToStream)

ParseString(s, event) ==
  Then(ParseStringToStream([Take(s) EXCEPT !.str = <<>>]), LAMBDA t : Emit(t, event, t.str))

-----------------------------------------------------------------------------
(* Numbers, read part by part. *)
ValuesOf(bytes) == [i \in DOMAIN bytes |-> bytes[i] - 48]
RunOf(s) == SubSeq(s.text, s.p, Beyond(s.text, s.p, Digits) - 1)
PastRun(s) == [s EXCEPT !.p = Beyond(s.text, s.p, Digits)]
Is(s, letters) == Peek(s) \in letters

Fits32_Unsigned(n) == AtMost(n.digits, MAX_UINT32)
Fits32(n) == AtMost(n.digits, IF n.minus = 1 THEN MIN_INT32 ELSE MAX_UINT32)
Fits64(n) == AtMost(n.digits, IF n.minus = 1 THEN MIN_INT64 ELSE MAX_UINT64)

ParseMinus(s) ==
  IF Peek(s) = Minus THEN [Take(s) EXCEPT !.n = [Positive EXCEPT !.minus = 1]]
  ELSE [s EXCEPT !.n = Positive]

(* Digits beyond 64 bits make a double, and no longer count as significant. *)
WithDigits(n, digits) ==
  LET m == [n EXCEPT !.digits = digits]
  IN [m EXCEPT !.useDouble = ~Fits64(m), !.significandDigit = Len(digits) - 1]
ParseNaN(s) == Then(ConsumeWord(s, Ascii("NaN")), LAMBDA t : [t EXCEPT !.n.nanOrInf = "NaN"])
ParseInf(s) ==
  Then(ConsumeWord(s, Ascii("Inf")),
       LAMBDA t : Then(IF Peek(t) = 105 THEN ConsumeWord(t, Ascii("inity")) ELSE t,
                       LAMBDA u : [u EXCEPT !.n.nanOrInf = "Inf"]))
ParseInt(s) ==
  CASE Peek(s) = 48 -> Take(s)
    [] Peek(s) \in Digits \ {48} ->
         [PastRun(s) EXCEPT !.n = WithDigits(s.n, ValuesOf(RunOf(s)))]
    [] Peek(s) = 78 /\ "nan" \in s.flags -> ParseNaN(s)
    [] Peek(s) = 73 /\ "nan" \in s.flags -> ParseInf(s)
    [] OTHER -> Fail(s, "ValueInvalid")

(* A digit of the fraction is kept while the significand is exact, and then up
   to 17 significant ones. *)
Keep(n, wide, d) ==
  LET digits == IF n.digits = <<>> /\ d = 0 THEN <<>> ELSE Append(n.digits, d)
  IN IF (~wide /\ AtMost(n.digits, MAX_EXACT)) \/ n.significandDigit < 17
     THEN [n EXCEPT !.digits = digits, !.expFrac = n.expFrac - 1,
                    !.significandDigit = n.significandDigit + (IF digits = <<>> THEN 0 ELSE 1)]
     ELSE n
Fraction(n, digits) ==
  LET kept[i \in 0..Len(digits)] ==
        IF i = 0 THEN n ELSE Keep(kept[i - 1], n.useDouble, digits[i])
  IN [kept[Len(digits)] EXCEPT !.useDouble = TRUE]
ParseFraction(s) ==
  IF Peek(s) # Dot THEN s
  ELSE IF Peek(Take(s)) \notin Digits THEN Fail(Take(s), "NumberMissFraction")
  ELSE [PastRun(Take(s)) EXCEPT !.n = Fraction(s.n, ValuesOf(RunOf(Take(s))))]

(* An exponent is read until it passes the largest that matters. *)
Exponent(digits, maxExp) ==
  LET exp[i \in 1..Len(digits)] ==
        IF i = 1 THEN digits[1]
        ELSE IF exp[i - 1] > maxExp THEN exp[i - 1] ELSE 10 * exp[i - 1] + digits[i]
  IN exp[Len(digits)]
ReadExponent(s, expMinus, start) ==
  LET maxExp == IF expMinus THEN (s.n.expFrac + 2147483639) \div 10 ELSE 308 - s.n.expFrac
      exp == Exponent(ValuesOf(RunOf(s)), maxExp)
  IN IF Peek(s) \notin Digits THEN Fail(s, "NumberMissExponent")
     ELSE IF ~expMinus /\ exp > maxExp THEN FailAt(s, "NumberTooBig", start)
     ELSE [PastRun(s) EXCEPT !.n = [s.n EXCEPT !.exp = IF expMinus THEN 0 - exp ELSE exp,
                                               !.useDouble = TRUE]]
ParseExponent(s, start) ==
  CASE ~Is(s, {69, 101}) -> s
    [] Is(Take(s), {43, Minus}) -> ReadExponent(Take(Take(s)), Peek(Take(s)) = Minus, start)
    [] OTHER -> ReadExponent(Take(s), FALSE, start)

(* StrtodNormalPrecision: the double 0.digits * 10^point, nothing below half
   the least double. *)
LeastDouble == <<2, 4, 7, 0, 3, 2, 8, 2, 2, 9, 2, 0, 6, 2, 3, 2, 7>>
MostDouble == <<1, 7, 9, 7, 6, 9, 3, 1, 3, 4, 8, 6, 2, 3, 1, 5, 8, 0, 7>>
Trimmed(digits) ==
  SubSeq(digits, 1, CHOOSE n \in 0..Len(digits) : /\ \A i \in (n + 1)..Len(digits) : digits[i] = 0
                                                  /\ n > 0 => digits[n] # 0)
Strtod(n) ==
  LET p == n.exp + n.expFrac
      point == Len(n.digits) + p
  IN IF n.digits = <<>> \/ p < -616 \/ point < -323
        \/ (point = -323 /\ Before(n.digits, LeastDouble))
     THEN [point |-> 0, digits |-> <<>>]
     ELSE [point |-> point, digits |-> Trimmed(n.digits)]
TooBig(d) == d.point > 309 \/ (d.point = 309 /\ Before(MostDouble, d.digits))

FinishDouble(s, d, start) ==
  IF TooBig(d) THEN FailAt(s, "NumberTooBig", start)
  ELSE Emit(s, "Double", <<s.n.minus, d.point>> \o d.digits)
Infinite == 1000
FinishNumber(s, start) ==
  CASE "strings" \in s.flags -> Emit(s, "RawNumber", SubSeq(s.text, start + 1, s.p - 1))
    [] "strings" \notin s.flags /\ s.n.useDouble -> FinishDouble(s, Strtod(s.n), start)
    [] "strings" \notin s.flags /\ ~s.n.useDouble /\ s.n.nanOrInf # "no" ->
         Emit(s, "Double", IF s.n.nanOrInf = "NaN" THEN <<2, Infinite>> ELSE <<s.n.minus, Infinite>>)
    [] OTHER ->
         Emit(s, IF s.n.minus = 1 THEN IF Fits32(s.n) THEN "Int" ELSE "Int64"
                 ELSE IF Fits32(s.n) THEN "Uint" ELSE "Uint64",
              <<IF s.n.digits = <<>> THEN 0 ELSE s.n.minus>> \o s.n.digits)
ParseNumber(s) ==
  Then(Then(Then(Then(ParseMinus(s), ParseInt), ParseFraction),
            LAMBDA t : ParseExponent(t, Tell(s))),
       LAMBDA t : FinishNumber(t, Tell(s)))

-----------------------------------------------------------------------------
(* Values, and the recursive parser. *)
RECURSIVE ParseValue(_)

Member(s) ==
  Then(Then(ParseString(s, "Key"), SkipWhitespaceAndComments),
       LAMBDA t : IF Peek(t) # Colon THEN Fail(t, "ObjectMissColon")
                  ELSE Then(Then(SkipWhitespaceAndComments(Take(t)), ParseValue),
                            SkipWhitespaceAndComments))
EndsWith(s, close) == "trailing" \in s.flags /\ Peek(s) = close
RECURSIVE Members(_, _)
MemberEnds(s, memberCount) ==
  CASE Peek(s) = RightBrace -> Emit(Take(s), "EndObject", <<memberCount>>)
    [] Peek(s) = Comma ->
         Then(SkipWhitespaceAndComments(Take(s)),
              LAMBDA t : IF EndsWith(t, RightBrace)
                         THEN Take(Emit(t, "EndObject", <<memberCount>>))
                         ELSE Members(t, memberCount))
    [] OTHER -> Fail(s, "ObjectMissCommaOrCurlyBracket")
Members(s, memberCount) ==
  IF Peek(s) # Quote THEN Fail(s, "ObjectMissName")
  ELSE Then(Member(s), LAMBDA t : MemberEnds(t, memberCount + 1))
ParseObject(s) ==
  Then(SkipWhitespaceAndComments(Emit(Take(s), "StartObject", <<>>)),
       LAMBDA t : IF Peek(t) = RightBrace THEN Emit(Take(t), "EndObject", <<0>>)
                  ELSE Members(t, 0))

RECURSIVE Elements(_, _)
ElementEnds(s, elementCount) ==
  CASE Peek(s) = RightBracket -> Emit(Take(s), "EndArray", <<elementCount>>)
    [] Peek(s) = Comma ->
         Then(SkipWhitespaceAndComments(Take(s)),
              LAMBDA t : IF EndsWith(t, RightBracket)
                         THEN Take(Emit(t, "EndArray", <<elementCount>>))
                         ELSE Elements(t, elementCount))
    [] OTHER -> Fail(s, "ArrayMissCommaOrSquareBracket")
Elements(s, elementCount) ==
  Then(Then(ParseValue(s), SkipWhitespaceAndComments),
       LAMBDA t : ElementEnds(t, elementCount + 1))
ParseArray(s) ==
  Then(SkipWhitespaceAndComments(Emit(Take(s), "StartArray", <<>>)),
       LAMBDA t : IF Peek(t) = RightBracket THEN Emit(Take(t), "EndArray", <<0>>)
                  ELSE Elements(t, 0))

ParseValue(s) ==
  CASE Peek(s) = 110 -> ParseNull(s)
    [] Peek(s) = 116 -> ParseTrue(s)
    [] Peek(s) = 102 -> ParseFalse(s)
    [] Peek(s) = Quote -> ParseString(s, "String")
    [] Peek(s) = LeftBrace -> ParseObject(s)
    [] Peek(s) = LeftBracket -> ParseArray(s)
    [] OTHER -> ParseNumber(s)

(* GenericReader::Parse. *)
RootEnds(s) ==
  IF "stop" \in s.flags THEN s
  ELSE Then(SkipWhitespaceAndComments(s),
            LAMBDA t : IF Peek(t) # NUL THEN Fail(t, "DocumentRootNotSingular") ELSE t)
Parse(text, flags) ==
  Then(SkipWhitespaceAndComments(Start(text, flags)),
       LAMBDA s : IF Peek(s) = NUL THEN Fail(s, "DocumentEmpty") ELSE Then(ParseValue(s), RootEnds))
=============================================================================
