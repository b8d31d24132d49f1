----------------------------- MODULE JsonCodecs -----------------------------
(***************************************************************************)
(* The JSON library, and the JSON that goes to the streamer and comes back *)
(* from it, against what RFC 8259 says of JSON: the part of Codecs that is *)
(* about JSON.                                                             *)
(***************************************************************************)
EXTENDS JsonTokens, PublishRequests

Writers == INSTANCE JsonWriter

VARIABLES codec, input

Accepted(s) == s.error = "None"
Verdict(s) == <<s.error, s.at, s.events>>

(* What the iterative parser answers is what the recursive one does, but for a
   text that begins with a token no value begins with: the former calls that
   text empty.  The event-wise parser, which does not take comments, calls a
   text of blanks an invalid value and not empty. *)
FirstByte(text) == ByteAt(text, Beyond(text, 1, White))
Iterated(text, flags) ==
  <<Verdict(IterativeParse(text, flags)),
    IF "comments" \in flags THEN <<>> ELSE Verdict(ParseByEvents(text, flags))>>
Agree(text, flags, recursive) ==
  LET empty == <<"DocumentEmpty", recursive.at, <<>>>>
      iterative == IF FirstByte(text) \in {Comma, Colon, RightBracket, RightBrace}
                   THEN empty ELSE Verdict(recursive)
      stepwise == IF FirstByte(text) = NUL /\ text # <<>>
                  THEN <<"ValueInvalid", recursive.at, <<>>>> ELSE iterative
  IN Iterated(text, flags) = <<iterative, IF "comments" \in flags THEN <<>> ELSE stepwise>>

-----------------------------------------------------------------------------
(* Token texts: RFC 8259's productions by length, and every text that is one
   token away from one of them.  `trailing` is the comma of kParseTrailingCommas. *)
Lexemes == <<"[", "]", "{", "}", ",", ":", "\"a\"", "1 ">>
MaxTokens == 7
TextOf(tokens) == FlattenSeq([i \in DOMAIN tokens |-> Ascii(Lexemes[tokens[i]])])

Lists(items, lists, trailing, n) ==
  items[n] \cup {i \o <<5>> \o l : <<i, l>> \in UNION {items[k] \X lists[n - 1 - k] : k \in 1..(n - 2)}}
           \cup IF trailing /\ n > 1 THEN {i \o <<5>> : i \in items[n - 1]} ELSE {}
Grammar(trailing) ==
  LET upTo[n \in 0..MaxTokens] ==
        IF n = 0 THEN [values |-> <<>>, members |-> <<>>, elements |-> <<>>, pairs |-> <<>>]
        ELSE LET g == upTo[n - 1]
                 inside(lists) == IF n = 1 THEN {} ELSE IF n = 2 THEN {<<>>} ELSE lists[n - 2]
                 values == Append(g.values,
                   (IF n = 1 THEN {<<7>>, <<8>>} ELSE {})
                     \cup {<<1>> \o l \o <<2>> : l \in inside(g.elements)}
                     \cup {<<3>> \o l \o <<4>> : l \in inside(g.pairs)})
                 members == Append(g.members,
                   IF n < 3 THEN {} ELSE {<<7, 6>> \o v : v \in g.values[n - 2]})
             IN [values |-> values, members |-> members,
                 elements |-> Append(g.elements, Lists(values, g.elements, trailing, n)),
                 pairs |-> Append(g.pairs, Lists(members, g.pairs, trailing, n))]
  IN UNION {upTo[MaxTokens].values[n] : n \in 1..MaxTokens}
Strict == Grammar(FALSE)
Lenient == Grammar(TRUE)

Near(text) ==
  {RemoveAt(text, i) : i \in DOMAIN text} \cup {[text EXCEPT ![i] = t] : i \in DOMAIN text, t \in 1..8}
    \cup {InsertAt(text, i, t) : i \in 1..(Len(text) + 1), t \in 1..8}
TokenTexts == {text \in UNION {Near(text) : text \in Lenient} : Len(text) <= MaxTokens}

(* A text of tokens is accepted exactly if the grammar makes it, and the three
   parsers give the same account of it. *)
TokensAreRead ==
  codec = "json tokens" =>
    \A flags \in {{}, {"trailing"}} :
      LET text == TextOf(input)
          read == Parse(text, flags)
      IN /\ Accepted(read) <=> input \in (IF flags = {} THEN Strict ELSE Lenient)
         /\ Agree(text, flags, read)

-----------------------------------------------------------------------------
(* Numbers: an optional sign, an integer around every bound, a fraction, an
   exponent. *)
IntegerParts ==
  {"0", "2", "3", "17", "2147483647", "2147483648", "2147483649", "4294967295", "4294967296",
   "9223372036854775808", "9223372036854775809", "18446744073709551615",
   "18446744073709551616", "123456789012345678901234567890"}
FractionParts == {"", "0", "5", "05", "250", "000000000000000000001", "12345678901234567890"}
Exponents == {-400, -325, -324, -2, 0, 3, 291, 308, 309, 330}
NumberInputs ==
  [minus : {0, 1}, integer : IntegerParts, fraction : FractionParts, exponent : Exponents]
DecimalText(n) == Ascii(ToString(n))
NumberText(x) ==
  (IF x.minus = 1 THEN <<Minus>> ELSE <<>>) \o Ascii(x.integer)
    \o (IF x.fraction = "" THEN <<>> ELSE <<Dot>> \o Ascii(x.fraction))
    \o (IF x.exponent = 0 THEN <<>> ELSE <<69>> \o DecimalText(x.exponent))

(* Its meaning is 0.digits * 10^point, by the rules of decimal notation. *)
Significant(digits) ==
  LET first == CHOOSE i \in 1..(Len(digits) + 1) :
                 /\ i \in DOMAIN digits => digits[i] # 0
                 /\ \A j \in 1..(i - 1) : digits[j] = 0
  IN SubSeq(digits, first, Len(digits))
AllDigits(x) == ValuesOf(Ascii(x.integer) \o Ascii(x.fraction))
PointOf(x) == Len(Significant(AllDigits(x))) - Len(x.fraction) + x.exponent
Precise(digits) == Trimmed([i \in DOMAIN digits \cap 1..17 |-> digits[i]])
TooLarge(x) ==
  LET digits == Significant(AllDigits(x))
  IN IF digits = <<>> THEN x.exponent > 308 + Len(x.fraction)
     ELSE PointOf(x) > 309 \/ (PointOf(x) = 309 /\ Before(MostDouble, digits))
Vanishes(x) ==
  LET digits == Significant(AllDigits(x))
  IN digits = <<>> \/ PointOf(x) < -323 \/ (PointOf(x) = -323 /\ Before(digits, LeastDouble))

(* The words: what each is told as, the last ones only if NaN and Inf may be. *)
JsonWords ==
  (NullText :> Event("Null", <<>>)) @@ (TrueText :> Event("Bool", <<1>>)) @@ (FalseText :> Event("Bool", <<0>>))
NotNumbers ==
  (Ascii("NaN") :> Event("Double", NaN)) @@ (Ascii("-NaN") :> Event("Double", NaN))
    @@ (Ascii("Inf") :> Event("Double", <<0, Infinite>>))
    @@ (Ascii("Infinity") :> Event("Double", <<0, Infinite>>))
    @@ (Ascii("-Infinity") :> Event("Double", <<1, Infinite>>))
    @@ (Ascii("-Inf") :> Event("Double", <<1, Infinite>>))
Changed(words) ==
  words \cup UNION {{SubSeq(word, 1, n) : n \in 1..Len(word)} : word \in words}
    \cup UNION {{[word EXCEPT ![n] = 120] : n \in 1..Len(word)} : word \in words}
WordInputs == Changed(DOMAIN JsonWords \cup DOMAIN NotNumbers)

(* A word is read only when it is spelled out. *)
WordsAreRead ==
  codec = "json words" =>
    \A flags \in {{}, {"nan"}} :
      LET known == IF flags = {} THEN JsonWords ELSE JsonWords @@ NotNumbers
          read == Parse(input, flags)
      IN IF input \in DOMAIN known THEN Verdict(read) = <<"None", 0, known[input]>>
         ELSE ~Accepted(read)

(* A number keeps its sign and value: an integer of at most 64 bits to the last
   digit and as the narrowest type, any other number to 17 digits.  Only one
   beyond the doubles is refused, or a zero whose exponent alone is.  As a
   string it keeps its spelling. *)
NumbersAreRead ==
  codec = "json numbers" =>
    LET text == NumberText(input)
        reads == [flags \in {{}, {"strings"}} |-> Parse(text, flags)]
        read == reads[{}]
        told == read.events[1]
        digits == Significant(AllDigits(input))
        whole == input.fraction = "" /\ input.exponent = 0
        width(most, least) == AtMost(digits, IF input.minus = 1 THEN least ELSE most)
    IN /\ Accepted(read) => reads[{"strings"}].events = Event("RawNumber", text)
       /\ IF whole /\ width(MAX_UINT64, MIN_INT64)
          THEN read.events =
                 Event((IF input.minus = 1 THEN "Int" ELSE "Uint")
                         \o (IF width(MAX_UINT32, MIN_INT32) THEN "" ELSE "64"),
                       <<IF digits = <<>> THEN 0 ELSE input.minus>> \o digits)
          ELSE IF TooLarge(input)
          THEN Verdict(read) = <<"NumberTooBig", 0, <<>>>>
          ELSE /\ Accepted(read) /\ told.event = "Double" /\ told.value[1] = input.minus
               /\ IF Vanishes(input) THEN Tail(told.value) = <<0>>
                  ELSE /\ told.value[2] = PointOf(input)
                       /\ Precise(SubSeq(told.value, 3, Len(told.value))) = Precise(digits)

-----------------------------------------------------------------------------
(* Strings, piece by piece: a text, and the bytes it stands for or the error
   it is.  The last pieces are accepted only when encodings are not validated;
   a lone low surrogate escape is accepted always, as three bytes. *)
Escaping(text) == <<Backslash>> \o Ascii(text)
Good ==
  {<<Ascii("a"), Ascii("a")>>, <<Ascii("/"), Ascii("/")>>, <<Escaping("/"), Ascii("/")>>,
   <<<<Backslash, Quote>>, <<34>>>>, <<<<Backslash, Backslash>>, <<92>>>>, <<Escaping("b"), <<8>>>>,
   <<Escaping("f"), <<12>>>>, <<Escaping("n"), <<10>>>>, <<Escaping("r"), <<13>>>>,
   <<Escaping("t"), <<9>>>>, <<Escaping("u0000"), <<0>>>>, <<Escaping("u007f"), <<127>>>>,
   <<Escaping("u00E9"), <<195, 169>>>>, <<Escaping("u07ff"), <<223, 191>>>>,
   <<Escaping("u20aC"), <<226, 130, 172>>>>, <<Escaping("uDC00"), <<237, 176, 128>>>>,
   <<Escaping("uD834") \o Escaping("udd1e"), <<240, 157, 132, 158>>>>,
   <<Escaping("uDBFF") \o Escaping("uDFFF"), <<244, 143, 191, 191>>>>}
    \cup {<<bytes, bytes>> : bytes \in {<<195, 169>>, <<226, 130, 172>>, <<224, 160, 128>>,
            <<237, 159, 191>>, <<240, 144, 128, 128>>, <<241, 128, 128, 128>>, <<244, 143, 191, 191>>}}
Bad ==
  {<<Escaping("x"), "StringEscapeInvalid">>, <<Escaping("u12"), "StringUnicodeEscapeInvalidHex">>,
   <<Escaping("u12g4"), "StringUnicodeEscapeInvalidHex">>,
   <<Escaping("uD834"), "StringUnicodeSurrogateInvalid">>,
   <<Escaping("uD834") \o Escaping("u0041"), "StringUnicodeSurrogateInvalid">>,
   <<Escaping("uD834") \o Escaping("ud834"), "StringUnicodeSurrogateInvalid">>,
   <<<<31>>, "StringInvalidEncoding">>, <<<<10>>, "StringInvalidEncoding">>,
   <<<<NUL>>, "StringMissQuotationMark">>}
Ill == {<<bytes, "StringInvalidEncoding">> :
          bytes \in {<<195>>, <<128>>, <<192, 128>>, <<224, 159, 191>>, <<237, 160, 128>>,
                    <<240, 143, 191, 191>>, <<244, 144, 128, 128>>, <<245, 128, 128, 128>>}}
Strings == [before : Good, piece : Good \cup Bad \cup Ill, flags : {{}, {"validate"}}]
PiecesOf(x) == x.before[1] \o x.piece[1]

(* A string stands for the bytes of its pieces, which must be UTF-8 if that is
   validated; a piece that stands for none is refused. *)
StringsAreRead ==
  codec = "json strings" =>
    LET read == Parse(Quoted(PiecesOf(input)), input.flags)
        taken == \/ input.piece \in Good
                 \/ input.piece \in Ill /\ input.flags = {}
        meant == IF input.piece \in Good THEN input.piece[2] ELSE input.piece[1]
    IN IF taken
       THEN Verdict(read) = <<"None", 0, Event("String", input.before[2] \o meant)>>
       ELSE read.error = input.piece[2] /\ read.events = <<>>

-----------------------------------------------------------------------------
(* Documents: a text with a gap wherever one may be, and the events that a
   reader of RFC 8259 takes it for. *)
Leaf(text, events) == [text |-> text, events |-> events]
Leaves ==
  {Leaf(NullText, Event("Null", <<>>)), Leaf(TrueText, Event("Bool", <<1>>)),
   Leaf(FalseText, Event("Bool", <<0>>)), Leaf(Quoted(<<97>>), Event("String", <<97>>)),
   Leaf(Ascii("-17"), Event("Int", <<1, 1, 7>>)), Leaf(Ascii("2.5"), Event("Double", <<0, 1, 2, 5>>))}
Spread(list, gap) ==
  FlattenSeq([i \in DOMAIN list |-> (IF i = 1 THEN gap ELSE <<Comma>> \o gap) \o list[i] \o gap])
EventsIn(list) == FlattenSeq([i \in DOMAIN list |-> list[i].events])
ArrayOf(list, gap) ==
  Leaf(<<LeftBracket>> \o (IF list = <<>> THEN gap ELSE Spread([i \in DOMAIN list |-> list[i].text], gap))
         \o <<RightBracket>>,
       Event("StartArray", <<>>) \o EventsIn(list) \o Event("EndArray", <<Len(list)>>))
Named(name, value, gap) ==
  Leaf(Quoted(name) \o gap \o <<Colon>> \o gap \o value.text, Event("Key", name) \o value.events)
RecordOf(list, gap) ==
  Leaf(<<LeftBrace>> \o (IF list = <<>> THEN gap ELSE Spread([i \in DOMAIN list |-> list[i].text], gap))
         \o <<RightBrace>>,
       Event("StartObject", <<>>) \o EventsIn(list) \o Event("EndObject", <<Len(list)>>))
Flat(gap) ==
  {ArrayOf(<<>>, gap), RecordOf(<<>>, gap)} \cup {ArrayOf(<<v, w>>, gap) : v, w \in Leaves}
    \cup {RecordOf(<<Named(<<97>>, v, gap), Named(<<98>>, w, gap)>>, gap) : v, w \in Leaves}
Nested(gap) ==
  {ArrayOf(<<v, ArrayOf(<<w>>, gap)>>, gap) : v, w \in Flat(gap)}
    \cup {RecordOf(<<Named(<<>>, v, gap), Named(<<97>>, v, gap)>>, gap) : v \in Flat(gap)}
Deep(n) == FoldLeft(LAMBDA v, i : IF i % 2 = 0 THEN ArrayOf(<<v>>, <<>>)
                                  ELSE RecordOf(<<Named(<<97>>, v, <<>>)>>, <<>>),
                    Leaf(NullText, Event("Null", <<>>)), [i \in 1..n |-> i])
Blanks == <<32, 9, 13, 10>>
Remark == Ascii("/* // *") \o Ascii("*/ // /*") \o <<10>>
DocumentInputs ==
  [document : Leaves \cup Flat(<<>>) \cup {Deep(9)}, gap : {<<>>}]
    \cup [document : {ArrayOf(<<v, w>>, <<>>) : v, w \in {RecordOf(<<>>, <<>>), Deep(3)}}, gap : {<<>>}]
    \cup UNION {[document : Flat(gap) \cup {ArrayOf(<<Deep(2)>>, gap)}, gap : {gap}] : gap \in {Blanks, Remark}}

(* A document is read whole and as meant, with blanks or, if allowed, comments
   wherever there may be some; a part of it, or more than it, is refused, unless
   the reader is to stop behind it.  The three parsers agree on all of these. *)
Deserved(case, text, read) ==
  CASE case = "whole" -> Verdict(read) = <<"None", 0, input.document.events>>
    [] case = "cut" -> input.document.text[1] \in {LeftBracket, LeftBrace, Quote} => ~Accepted(read)
    [] case = "forbidden" -> ~Accepted(read)
    [] case = "more" -> read.error = "DocumentRootNotSingular"
    [] OTHER -> /\ Verdict(read) = <<"None", 0, input.document.events>>
                /\ read.p = Len(input.gap) + Len(input.document.text) + 1
DocumentsAreRead ==
  codec = "json documents" =>
    LET text == input.gap \o input.document.text \o input.gap
        more == text \o <<LeftBracket>>
        flags == IF input.gap = Remark THEN {"comments"} ELSE {}
        cuts == 0..(Len(input.gap) + Len(input.document.text) - 1)
        cases == {<<"whole", text, flags>>, <<"more", more, flags>>, <<"stop", more, flags \cup {"stop"}>>}
                   \cup {<<"cut", SubSeq(text, 1, n), flags>> : n \in cuts}
                   \cup (IF input.gap = Remark THEN {<<"forbidden", text, {}>>} ELSE {})
    IN \A c \in cases :
         LET read == Parse(c[2], c[3])
         IN Deserved(c[1], c[2], read) /\ Agree(c[2], c[3], read)

-----------------------------------------------------------------------------
(* From a text to a document and back: what the styles of writers make of the
   document's events reads as the same events, doubles to 17 digits. *)
Styles == {"plain", "pretty", "single line"}
Rounded(events) ==
  [i \in DOMAIN events |->
     IF events[i].event # "Double" THEN events[i]
     ELSE [events[i] EXCEPT !.value = SubSeq(@, 1, 2) \o Precise(SubSeq(@, 3, Len(@)))]]
Accounts(text, flags) == Accept(ParseDocument(text, flags).value)
DocumentOf(text) == ParseDocument(text, {}).value
Unspaced(text) == SelectSeq(text, LAMBDA c : c \notin White)
Kept ==
  CASE codec = "json numbers" -> IF TooLarge(input) THEN <<>> ELSE NumberText(input)
    [] codec = "json strings" -> IF input.piece \in Good THEN Quoted(PiecesOf(input)) ELSE <<>>
    [] codec = "json words" -> IF input \in DOMAIN JsonWords \cup DOMAIN NotNumbers THEN input ELSE <<>>
    [] codec = "json documents" -> IF input.gap = Remark THEN <<>> ELSE input.document.text
    [] OTHER -> <<>>

(* Words, numbers and strings come back from every writer, but for NaN and Inf,
   which none writes; a document comes back from the plain writer as the text
   it was, and from the others as that text with blanks. *)
TextsAreKept ==
  Kept # <<>> =>
    LET events == Accounts(Kept, {"nan"})
    IN \A style \in Styles :
         LET written == Writers!WriteEvents(events, style)
         IN IF Kept \in DOMAIN NotNumbers THEN written.stopped = "not a number"
            ELSE /\ written.stopped = "no"
                 /\ Rounded(Accounts(written.text, {})) = Rounded(events)
                 /\ codec = "json documents" => Unspaced(written.text) = Unspaced(Kept)
                 /\ codec = "json documents" /\ style = "plain" => Unspaced(Kept) = written.text

(* Whatever a writer is told, what it has written when no level is left open is
   a text of those events, and a document's own events never stop it. *)
ToldEvents == {"Null", "Key", "StartObject", "EndObject", "StartArray", "EndArray"}
EventInputs == UNION {[1..n -> ToldEvents] : n \in 1..5}
Names(events) == [i \in DOMAIN events |-> IF events[i].event = "Key" THEN "String" ELSE events[i].event]
WritersKeepToTheGrammar ==
  codec = "json events" =>
    \A style \in Styles :
      LET events == [i \in DOMAIN input |-> [event |-> input[i], value |-> <<>>]]
          w == Writers!WriteEvents(events, style)
          read == Parse(w.text, {})
      IN /\ w.stopped = "no" /\ w.levels = <<>> => Accepted(read) /\ Names(read.events) = Names(events)
         /\ w.stopped = "no" /\ w.levels # <<>> => ~Accepted(read)

-----------------------------------------------------------------------------
(* Equality: documents and what they mean, objects as sets of members. *)
Compared ==
  {"1", "1.0", "10e-1", "-1", "18446744073709551615", "2.5", "-0", "0", "-0.0", "1e20",
   "100000000000000000000", "null", "true", "false", "\"1\"", "[]", "{}", "[1,null]", "[1.0,null]",
   "[null,1]", "[1]", "{\"a\":1}", "{\"a\":1,\"b\":[2]}", "{\"b\":[2.0],\"a\":1}", "{\"a\":1,\"b\":2}",
   "{\"a\":1,\"c\":[2]}", "{\"a\":[]}", "{\"a\":{}}"}
Twins == {"-1", "18446744073709551615"}
RECURSIVE Meaning(_)
Meaning(v) ==
  CASE v.type = "Object" -> <<"object", {<<MemberName(v, m).data, Meaning(MemberValue(v, m))>> :
                                           m \in 1..MemberCount(v)}>>
    [] v.type = "Array" -> <<"array", [i \in DOMAIN v.items |-> Meaning(v.items[i])]>>
    [] v.type = "Number" -> LET d == GetDouble(v)
                            IN <<"number", IF IsZero(d) THEN <<>> ELSE d>>
    [] OTHER -> <<v.type, v.data>>

(* Two documents without repeated names are equal exactly if they mean the
   same; but integers compare as 64 bits, so -1 is what 2^64 - 1 is. *)
EqualMeansTheSame ==
  codec = "json pairs" =>
    LET value == [i \in 1..2 |-> DocumentOf(Ascii(input[i]))]
        meaning == [i \in 1..2 |-> Meaning(value[i])]
    IN Equal(value[1], value[2]) <=> (meaning[1] = meaning[2] \/ {input[1], input[2]} = Twins)

(* Edits of an object against a dictionary, and of an array. *)
NameOf(n) == StringValue(<<96 + n>>)
Edits == [op : {"add", "set", "remove", "erase"}, name : 1..4]
EditInputs == UNION {[1..n -> Edits] : n \in 1..3}
Applies(object, edit) == (edit.op = "add") # HasMember(object, NameOf(edit.name))
Edited(object, edit, i) ==
  LET name == NameOf(edit.name)
  IN CASE edit.op = "add" -> AddMember(object, name, BoolValue(i))
       [] edit.op = "set" -> SetMember(object, FindMember(object, name), BoolValue(i))
       [] edit.op = "remove" -> RemoveMember(object, name)
       [] OTHER -> EraseMember(object, name)
Dictionary(dictionary, edit, i) ==
  CASE edit.op \in {"add", "set"} -> (edit.name :> BoolValue(i)) @@ dictionary
    [] OTHER -> [n \in DOMAIN dictionary \ {edit.name} |-> dictionary[n]]
Given == [Value("Object", <<>>) EXCEPT !.items = <<NameOf(1), NullValue, NameOf(2), NullValue, NameOf(3), NullValue>>]
Afterwards(edits) ==
  LET after[i \in 0..Len(edits)] ==
        IF i = 0 THEN [object |-> Given, dictionary |-> [n \in 1..3 |-> NullValue]]
        ELSE LET before == after[i - 1]
             IN IF edits[i].op \in {"add", "set"} /\ ~Applies(before.object, edits[i]) THEN before
                ELSE [object |-> Edited(before.object, edits[i], i % 2),
                      dictionary |-> Dictionary(before.dictionary, edits[i], i % 2)]
  IN after[Len(edits)]

(* Members are found under their names, with their last values, through any
   adding, removing and erasing; erasing keeps the others in order. *)
EditsAreKept ==
  codec = "json edits" =>
    LET after == Afterwards(input)
        names == [m \in 1..MemberCount(after.object) |-> MemberName(after.object, m)]
    IN /\ MemberCount(after.object) = Cardinality(DOMAIN after.dictionary)
       /\ \A n \in 1..4 : LET m == FindMember(after.object, NameOf(n))
                          IN IF n \in DOMAIN after.dictionary
                             THEN MemberValue(after.object, m) = after.dictionary[n]
                             ELSE m = MemberEnd(after.object)
       /\ (\A i \in DOMAIN input : input[i].op = "erase") =>
            names = SelectSeq(<<NameOf(1), NameOf(2), NameOf(3)>>,
                              LAMBDA name : name \in {NameOf(n) : n \in DOMAIN after.dictionary})

-----------------------------------------------------------------------------
(* The streamer's answers: members in any order, repeated, missing or of other
   types, in an object, cut, or in an array, and garbage behind a NUL. *)
GivenTexts ==
  {<<Ascii("u7"), Ascii("u7")>>, <<Ascii("h") \o Escaping("/") \o Ascii("p"), Ascii("h/p")>>,
   <<Ascii("a") \o Escaping("u0000") \o Ascii("b"), Ascii("a")>>, <<Escaping("u00e9"), <<195, 169>>>>}
AnswerMembers ==
  [name : {"id", "publishAddr", "status"}, text : {Quoted(g[1]) : g \in GivenTexts}]
    \cup [name : {"id", "publishAddr"}, text : {Ascii("7"), NullText, Ascii("[\"u7\"]")}]
AnswerInputs ==
  [members : SeqOf(AnswerMembers, 2) \cup {<<m, n, o>> : m, n, o \in {x \in AnswerMembers :
                x.text \in {Quoted(Ascii("u7")), Quoted(Escaping("u00e9")), NullText}}},
   form : {"object", "cut", "array", "garbage"}]
AnswerText(x) ==
  LET body == ObjectOf([i \in DOMAIN x.members |-> Pair(x.members[i].name, x.members[i].text)])
  IN CASE x.form = "object" -> body \o <<10>>
       [] x.form = "garbage" -> body \o <<NUL, Comma>>
       [] x.form = "array" -> <<LeftBracket>> \o body \o <<RightBracket>>
       [] OTHER -> SubSeq(body, 1, Len(body) - 1)
FirstNamed(members, name) ==
  LET named == SelectSeq(members, LAMBDA m : m.name = name)
      given == IF named = <<>> THEN {} ELSE {g \in GivenTexts : named[1].text = Quoted(g[1])}
  IN IF given = {} THEN <<>> ELSE (CHOOSE g \in given : TRUE)[2]

(* begin_publish takes the strings the first members of those names hold, up to
   a NUL, and tells apart an answer that is no JSON and one without the one or
   the other; an answer that is JSON but no object ends in an assertion. *)
AnswerIsRead ==
  codec = "json answer" =>
    LET id == FirstNamed(input.members, "id")
        addr == FirstNamed(input.members, "publishAddr")
    IN ReadAnswer(AnswerText(input)) =
         CASE input.form = "cut" -> Answered(1, <<>>, <<>>)
           [] input.form = "array" -> Answered(ASSERTION, <<>>, <<>>)
           [] input.form \in {"object", "garbage"} /\ id = <<>> -> Answered(2, <<>>, <<>>)
           [] input.form \in {"object", "garbage"} /\ id # <<>> /\ addr = <<>> ->
                Answered(3, <<>>, <<>>)
           [] OTHER -> Answered(0, id, addr)

(* What the streamer finds in the requests: the stream's name and provider if
   they need no escaping, and only then, and every track's codecInfo. *)
TextAt(object, name) == MemberValue(object, FindMember(object, StringValue(Ascii(name)))).data
Plain(bytes) == \A i \in DOMAIN bytes : bytes[i] > 31 /\ bytes[i] \notin {Quote, Backslash}
StreamNames ==
  {<<>>, Ascii("live/a-1"), Ascii("a%s{}:,"), <<237, 149, 156>>, <<97, Quote>>, <<97, Backslash, 110>>,
   <<Backslash>>, <<97, 10>>, Ascii("a\",\"title\":\"b"), Ascii("\\u0061")}
RequestInputs == [name : StreamNames, provider : StreamNames, recording : {0, 1}]
NamesAreSent ==
  codec = "json request" =>
    LET text == BeginBody(input.name, input.provider, input.recording)
        doc == DocumentOf(text)
        sent == /\ Accepted(Parse(text, {}))
                /\ \A field \in {"filename", "assetId", "title"} : TextAt(doc, field) = input.name
                /\ TextAt(doc, "provider") = input.provider
                /\ TextAt(doc, "recording") = Ascii(IF input.recording = 1 THEN "Y" ELSE "N")
    IN sent <=> Plain(input.name) /\ Plain(input.provider)
CodecInfos == {<<0, 0, 0, 1, 103, 77, 0, 0, 0, 1, 104, 251>>, <<18, 16>>, <<255>>, <<251, 239, 190>>}
CodecInfoIsSent ==
  codec = "json init" =>
    LET doc == DocumentOf(InitBody(input[1], input[2]))
        tracks == MemberValue(doc, 1).items
    IN /\ Len(tracks) = 2
       /\ \A t \in 1..2 : Decode(TextAt(tracks[t], "codecInfo")) = [ok |-> TRUE, bytes |-> input[t]]

=============================================================================
