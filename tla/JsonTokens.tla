----------------------------- MODULE JsonTokens -----------------------------
(***************************************************************************)
(* The iterative parsers of rapidjson/reader.h: IterativeParse, which      *)
(* needs no call stack, and IterativeParseNext, which tells one event a    *)
(* call (of texts without comments).  A stack frame is the state to return *)
(* to and the count so far.                                                *)
(***************************************************************************)
EXTENDS JsonReader

Tokenize(c) ==
  CASE c = LeftBracket -> "[" [] c = RightBracket -> "]" [] c = LeftBrace -> "{"
    [] c = RightBrace -> "}" [] c = Comma -> "," [] c = Colon -> ":"
    [] c = Quote -> "String" [] OTHER -> "Scalar"

(* The table of states, by the states that look for a value, for a name, for
   what follows either, or for nothing more. *)
ValueOr(token, scalar) ==
  CASE token = "[" -> "ArrayInitial" [] token = "{" -> "ObjectInitial"
    [] token \in {"String", "Scalar"} -> scalar [] OTHER -> "Error"
Choose(token, first, second) ==
  CASE token = first[1] -> first[2] [] token = second[1] -> second[2] [] OTHER -> "Error"
Nothing == <<"nothing", "Error">>
Predict(state, token) ==
  CASE state = "Start" -> ValueOr(token, "Value")
    [] state = "KeyValueDelimiter" -> ValueOr(token, "MemberValue")
    [] state \in {"ArrayInitial", "ElementDelimiter"} ->
         IF token = "]" THEN "ArrayFinish" ELSE ValueOr(token, "Element")
    [] state \in {"ObjectInitial", "MemberDelimiter"} ->
         Choose(token, <<"}", "ObjectFinish">>, <<"String", "MemberKey">>)
    [] state = "MemberKey" -> Choose(token, <<":", "KeyValueDelimiter">>, Nothing)
    [] state = "MemberValue" -> Choose(token, <<"}", "ObjectFinish">>, <<",", "MemberDelimiter">>)
    [] state = "Element" -> Choose(token, <<"]", "ArrayFinish">>, <<",", "ElementDelimiter">>)
    [] OTHER -> "Error"

(* HandleError, unless the error is known. *)
ErrorOf(state) ==
  CASE state = "Start" -> "DocumentEmpty"
    [] state = "Finish" -> "DocumentRootNotSingular"
    [] state \in {"ObjectInitial", "MemberDelimiter"} -> "ObjectMissName"
    [] state = "MemberKey" -> "ObjectMissColon"
    [] state = "MemberValue" -> "ObjectMissCommaOrCurlyBracket"
    [] state \in {"KeyValueDelimiter", "ArrayInitial", "ElementDelimiter"} -> "ValueInvalid"
    [] OTHER -> "ArrayMissCommaOrSquareBracket"
HandleError(s) == Then(s, LAMBDA t : Fail(t, ErrorOf(t.state)))

(* Transit: each answers with the state it moves to, or with an error. *)
To(s, state) == Then(s, LAMBDA t : [t EXCEPT !.state = state])
Opened(s, dst) ==
  LET after == CASE s.state \in {"ArrayInitial", "ElementDelimiter"} -> "Element"
                 [] s.state = "KeyValueDelimiter" -> "MemberValue"
                 [] OTHER -> s.state
      begin == IF dst = "ObjectInitial" THEN "StartObject" ELSE "StartArray"
      pushed == [s EXCEPT !.stack = <<[state |-> after, count |-> 0]>> \o s.stack]
  IN To(Take(Emit(pushed, begin, <<>>)), dst)
Delimited(s, dst) == To([Take(s) EXCEPT !.stack[1].count = s.stack[1].count + 1], dst)
Closed_FrameCount(s, counted, event) ==
  LET frame == Head(s.stack)
  IN To(Take(Emit([s EXCEPT !.stack = Tail(s.stack)], event, <<frame.count>>)),
        IF frame.state = "Start" THEN "Finish" ELSE frame.state)
Closed(s, counted, event) ==
  LET frame == Head(s.stack)
      count == frame.count + (IF s.state = counted THEN 1 ELSE 0)
  IN To(Take(Emit([s EXCEPT !.stack = Tail(s.stack)], event, <<count>>)),
        IF frame.state = "Start" THEN "Finish" ELSE frame.state)
Transit(s, dst) ==
  CASE dst = "Error" -> HandleError(s)
    [] dst \in {"ObjectInitial", "ArrayInitial"} -> Opened(s, dst)
    [] dst = "MemberKey" -> To(ParseString(s, "Key"), dst)
    [] dst = "KeyValueDelimiter" -> To(Take(s), dst)
    [] dst \in {"MemberValue", "Element"} -> To(ParseValue(s), dst)
    [] dst \in {"MemberDelimiter", "ElementDelimiter"} -> Delimited(s, dst)
    [] dst = "ObjectFinish" ->
         IF "trailing" \notin s.flags /\ s.state = "MemberDelimiter"
         THEN Fail(s, "ObjectMissName") ELSE Closed(s, "MemberValue", "EndObject")
    [] dst = "ArrayFinish" ->
         IF "trailing" \notin s.flags /\ s.state = "ElementDelimiter"
         THEN Fail(s, "ValueInvalid") ELSE Closed(s, "Element", "EndArray")
    [] OTHER -> To(ParseValue(s), "Finish")
OneToken(s) == Transit(s, Predict(s.state, Tokenize(Peek(s))))

(* IterativeParse: token by token to the end of the text. *)
RECURSIVE Tokens(_)
Tokens(s) ==
  IF Peek(s) = NUL THEN s
  ELSE Then(OneToken(s),
            LAMBDA t : IF "stop" \in t.flags /\ t.state = "Finish" THEN t
                       ELSE Then(SkipWhitespaceAndComments(t), Tokens))
IterativeParse(text, flags) ==
  Then(Then(SkipWhitespaceAndComments(Start(text, flags)), Tokens),
       LAMBDA s : IF s.state # "Finish" THEN HandleError(s) ELSE s)

(* IterativeParseNext: up to the next event; `more` tells whether there may be
   another. *)
Delimiters == {"ElementDelimiter", "MemberDelimiter", "KeyValueDelimiter"}
RECURSIVE NextEvent(_)
NextEvent(s) ==
  IF Peek(s) = NUL THEN IF s.state # "Finish" THEN HandleError(s) ELSE s
  ELSE Then(OneToken(SkipWhitespaceAndComments(s)),
            LAMBDA t :
              IF t.state # "Finish" THEN IF t.state \in Delimiters THEN NextEvent(t) ELSE t
              ELSE RootEnds(t))
RECURSIVE EveryEvent(_)
EveryEvent(s) == IF s.error # "None" \/ s.state = "Finish" THEN s ELSE EveryEvent(NextEvent(s))
ParseByEvents(text, flags) == EveryEvent(Start(text, flags))
=============================================================================
