---------------------------- MODULE JsonDocument ----------------------------
(***************************************************************************)
(* rapidjson/document.h: the values a document is made of, how they are    *)
(* built from the events of a parse, searched, changed, compared, and told *)
(* as events again.  How they are stored is JsonStorage; doubles compare   *)
(* as the decimals they are.                                               *)
(***************************************************************************)
EXTENDS JsonReader, SequencesExt

(* A value: its type, of a number the types it is convertible to, the bytes or
   digits it holds, its elements, or its members' names and values in turn. *)
Value(type, data) == [type |-> type, numbers |-> {}, data |-> data, items |-> <<>>]
NullValue == Value("Null", <<>>)
BoolValue(b) == Value(IF b = 1 THEN "True" ELSE "False", <<>>)
StringValue(bytes) == Value("String", bytes)
NumberValue(numbers, data) == [Value("Number", data) EXCEPT !.numbers = numbers]

(* The constructors for numbers. *)
If(condition, S) == IF condition THEN S ELSE {}
DigitsOf(data) == Tail(data)
IsNegative(data) == data[1] = 1
IntValue(data) ==
  NumberValue({"Int", "Int64"} \cup If(~IsNegative(data), {"Uint", "Uint64"}), data)
UintValue(data) ==
  NumberValue({"Uint", "Uint64", "Int64"} \cup If(AtMost(DigitsOf(data), MAX_INT32), {"Int"}), data)
Int64Value(data) ==
  NumberValue({"Int64"}
    \cup (IF IsNegative(data) THEN If(AtMost(DigitsOf(data), MIN_INT32), {"Int"})
          ELSE {"Uint64"} \cup If(AtMost(DigitsOf(data), MAX_UINT32), {"Uint"})
                 \cup If(AtMost(DigitsOf(data), MAX_INT32), {"Int"})),
    data)
Uint64Value(data) ==
  NumberValue({"Uint64"} \cup If(AtMost(DigitsOf(data), MAX_INT64), {"Int64"})
                \cup If(AtMost(DigitsOf(data), MAX_UINT32), {"Uint"})
                \cup If(AtMost(DigitsOf(data), MAX_INT32), {"Int"}), data)
DoubleValue(data) == NumberValue({"Double"}, data)

-----------------------------------------------------------------------------
(* The document as a handler: values wait on a stack until the end of their
   object or array takes them. *)
SetObjectRaw(object, members) == [object EXCEPT !.items = members]
SetArrayRaw(array, elements) == [array EXCEPT !.items = elements]
Popped(stack, n) == SubSeq(stack, Len(stack) - n + 1, Len(stack))
Under(stack, n) == SubSeq(stack, 1, Len(stack) - n)
OnTop(stack, Set(_, _), n) ==
  Append(Under(stack, n + 1), Set(stack[Len(stack) - n], Popped(stack, n)))
Handle(stack, e) ==
  CASE e.event = "Null" -> Append(stack, NullValue)
    [] e.event = "Bool" -> Append(stack, BoolValue(e.value[1]))
    [] e.event = "Int" -> Append(stack, IntValue(e.value))
    [] e.event = "Uint" -> Append(stack, UintValue(e.value))
    [] e.event = "Int64" -> Append(stack, Int64Value(e.value))
    [] e.event = "Uint64" -> Append(stack, Uint64Value(e.value))
    [] e.event = "Double" -> Append(stack, DoubleValue(e.value))
    [] e.event \in {"String", "Key", "RawNumber"} -> Append(stack, StringValue(e.value))
    [] e.event = "StartObject" -> Append(stack, Value("Object", <<>>))
    [] e.event = "StartArray" -> Append(stack, Value("Array", <<>>))
    [] e.event = "EndObject" -> OnTop(stack, SetObjectRaw, 2 * e.value[1])
    [] OTHER -> OnTop(stack, SetArrayRaw, e.value[1])

(* Parse: the value of the document is what the stack is left with; after an
   error it stays what it was. *)
ParseStream(document, read) ==
  [value |-> IF read.error = "None" THEN Head(FoldLeft(Handle, <<>>, read.events))
             ELSE document.value,
   error |-> read.error, at |-> read.at]
NewDocument == [value |-> NullValue, error |-> "None", at |-> 0]
ParseDocument(text, flags) == ParseStream(NewDocument, Parse(text, flags))
HasParseError(document) == document.error # "None"

-----------------------------------------------------------------------------
(* Members of an object, by their place from 1; the end is one behind. *)
MemberCount(object) == Len(object.items) \div 2
MemberName(object, m) == object.items[2 * m - 1]
MemberValue(object, m) == object.items[2 * m]
MemberEnd(object) == MemberCount(object) + 1
StringEqual(a, b) == a.data = b.data
FindMember_Last(object, name) ==
  CHOOSE m \in 1..MemberEnd(object) :
    /\ m # MemberEnd(object) => StringEqual(name, MemberName(object, m))
    /\ \A n \in 1..MemberCount(object) : StringEqual(name, MemberName(object, n)) => n <= m
                                           /\ m # MemberEnd(object)
FindMember(object, name) ==
  CHOOSE m \in 1..MemberEnd(object) :
    /\ m # MemberEnd(object) => StringEqual(name, MemberName(object, m))
    /\ \A before \in 1..(m - 1) : ~StringEqual(name, MemberName(object, before))
HasMember(object, name) == FindMember(object, name) # MemberEnd(object)
AddMember(object, name, value) == [object EXCEPT !.items = object.items \o <<name, value>>]
SetMember(object, m, value) == [object EXCEPT !.items[2 * m] = value]

(* RemoveMember moves the last member to the place of the removed one,
   EraseMember moves the ones behind it up.  Both answer false, and change
   nothing, when there is no such member. *)
RemoveMemberAt_NameOnly(object, m) ==
  LET last == MemberCount(object)
      moved == [object EXCEPT !.items[2 * m - 1] = MemberName(object, last)]
  IN [moved EXCEPT !.items = SubSeq(moved.items, 1, 2 * (last - 1))]
RemoveMemberAt(object, m) ==
  LET last == MemberCount(object)
      moved == [object EXCEPT !.items[2 * m - 1] = MemberName(object, last),
                              !.items[2 * m] = MemberValue(object, last)]
  IN [moved EXCEPT !.items = SubSeq(moved.items, 1, 2 * (last - 1))]
EraseMembers(object, first, last) ==
  [object EXCEPT !.items = SubSeq(object.items, 1, 2 * (first - 1))
                             \o SubSeq(object.items, 2 * last - 1, Len(object.items))]
RemoveMember(object, name) ==
  IF HasMember(object, name) THEN RemoveMemberAt(object, FindMember(object, name)) ELSE object
EraseMember(object, name) ==
  LET m == FindMember(object, name)
  IN IF HasMember(object, name) THEN EraseMembers(object, m, m + 1) ELSE object

-----------------------------------------------------------------------------
(* Elements of an array, by their place from 1. *)
SetArray == Value("Array", <<>>)
SetObject == Value("Object", <<>>)
Size(array) == Len(array.items)
PushBack(array, value) == [array EXCEPT !.items = Append(array.items, value)]
EraseElements(array, first, last) ==
  [array EXCEPT !.items = SubSeq(array.items, 1, first - 1) \o SubSeq(array.items, last, Size(array))]

-----------------------------------------------------------------------------
(* operator==.  An integer becomes a double to be compared with one; two
   integers compare as 64 bits, so that -n is what 2^64 - n is. *)
GetDouble(value) ==
  IF "Double" \in value.numbers THEN value.data
  ELSE <<value.data[1], Len(DigitsOf(value.data))>> \o Trimmed(DigitsOf(value.data))
NaN == <<2, Infinite>>
IsZero(d) == Len(d) = 2 /\ d[2] = 0
SameDouble(d, e) == d # NaN /\ e # NaN /\ (d = e \/ (IsZero(d) /\ IsZero(e)))

TWO_64 == <<1, 8, 4, 4, 6, 7, 4, 4, 0, 7, 3, 7, 0, 9, 5, 5, 1, 6, 1, 6>>
AddUpTo(m, n, total) ==
  LET digit(number, i) == IF i <= Len(number) THEN number[Len(number) + 1 - i] ELSE 0
      carry[i \in 0..Len(total)] ==
        IF i = 0 THEN 0 ELSE (digit(m, i) + digit(n, i) + carry[i - 1]) \div 10
  IN /\ carry[Len(total)] = 0
     /\ \A i \in DOMAIN total : (digit(m, i) + digit(n, i) + carry[i - 1]) % 10 = digit(total, i)
SameBits(i, j) ==
  i = j \/ (i[1] # j[1] /\ AddUpTo(DigitsOf(i), DigitsOf(j), TWO_64))

RECURSIVE Equal(_, _)
Equal(v, w) ==
  /\ v.type = w.type
  /\ CASE v.type = "Object" ->
            /\ MemberCount(v) = MemberCount(w)
            /\ \A m \in 1..MemberCount(v) :
                 /\ HasMember(w, MemberName(v, m))
                 /\ Equal(MemberValue(v, m), MemberValue(w, FindMember(w, MemberName(v, m))))
       [] v.type = "Array" -> /\ Len(v.items) = Len(w.items)
                              /\ \A i \in DOMAIN v.items : Equal(v.items[i], w.items[i])
       [] v.type = "String" -> StringEqual(v, w)
       [] v.type = "Number" ->
            IF "Double" \in v.numbers \cup w.numbers THEN SameDouble(GetDouble(v), GetDouble(w))
            ELSE SameBits(v.data, w.data)
       [] OTHER -> TRUE

(* Accept: the events a value is told as. *)
Event(event, value) == <<[event |-> event, value |-> value]>>
NumberEvent(numbers) ==
  CASE "Double" \in numbers -> "Double"
    [] "Double" \notin numbers /\ "Int" \in numbers -> "Int"
    [] numbers \cap {"Double", "Int"} = {} /\ "Uint" \in numbers -> "Uint"
    [] numbers \cap {"Double", "Int", "Uint"} = {} /\ "Int64" \in numbers -> "Int64"
    [] OTHER -> "Uint64"
RECURSIVE Accept(_)
Accept(v) ==
  CASE v.type = "Object" ->
         Event("StartObject", <<>>)
           \o FlattenSeq([i \in DOMAIN v.items |->
                            IF i % 2 = 1 THEN Event("Key", v.items[i].data) ELSE Accept(v.items[i])])
           \o Event("EndObject", <<MemberCount(v)>>)
    [] v.type = "Array" ->
         Event("StartArray", <<>>) \o FlattenSeq([i \in DOMAIN v.items |-> Accept(v.items[i])])
           \o Event("EndArray", <<Len(v.items)>>)
    [] v.type = "String" -> Event("String", v.data)
    [] v.type = "Number" -> Event(NumberEvent(v.numbers), v.data)
    [] v.type = "Null" -> Event("Null", <<>>)
    [] OTHER -> Event("Bool", <<IF v.type = "True" THEN 1 ELSE 0>>)
=============================================================================
