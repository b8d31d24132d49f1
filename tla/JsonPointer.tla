---------------------------- MODULE JsonPointer ----------------------------
(***************************************************************************)
(* rapidjson/pointer.h: a path into a document, its two spellings (a       *)
(* string, RFC 6901, and the fragment of a URI), and what is read, made,   *)
(* set and erased through it.                                              *)
(***************************************************************************)
EXTENDS JsonDocument

Hash == 35
Percent == 37
Zero == 48
One == 49
Unreserved == Digits \cup (65..90) \cup (97..122) \cup {Minus, Dot, 95, Tilde}

(* A token's index is 32 bits wide, in two halves of 16: TLC's integers end
   before it does.  kPointerInvalidIndex is its largest value. *)
INVALID_INDEX == <<65535, 65535>>
TimesTenAnd(digit, n) ==
  LET low == 10 * n[2] + digit
  IN <<(10 * n[1] + (low \div 2^16)) % 2^16, low % 2^16>>
Less(m, n) == m[1] < n[1] \/ (m[1] = n[1] /\ m[2] < n[2])

(* A name is an index too if it is a number without leading zeros; a sum that
   is less than what it was made from has overflowed. *)
IsNumber_LeadingZero(name) == name # <<>> /\ \A j \in DOMAIN name : name[j] \in Digits
IsNumber(name) ==
  /\ name # <<>> /\ \A j \in DOMAIN name : name[j] \in Digits
  /\ name[1] = Zero => Len(name) = 1
IndexOf(name) ==
  LET n[j \in 0..Len(name)] ==
        IF j = 0 THEN <<0, 0>>
        ELSE LET m == TimesTenAnd(name[j] - Zero, n[j - 1])
             IN IF n[j - 1] = INVALID_INDEX \/ Less(m, n[j - 1]) THEN INVALID_INDEX ELSE m
  IN IF IsNumber(name) THEN n[Len(name)] ELSE INVALID_INDEX
Token(name, index) == [name |-> name, index |-> index]
NamedToken(name) == Token(name, IndexOf(name))

-----------------------------------------------------------------------------
(* Parse.  In a fragment a character is percent-encoded, one triplet to a byte
   of UTF-8, unless it is unreserved. *)
NeedPercentEncode(c) == c \notin Unreserved
IsTriplet(text, p) ==
  /\ ByteAt(text, p) = Percent /\ p + 2 <= Len(text)
  /\ text[p + 1] \in HexDigits /\ text[p + 2] \in HexDigits
TakeTriplet(text, p) ==
  IF IsTriplet(text, p) THEN 16 * HexValue(text[p + 1]) + HexValue(text[p + 2]) ELSE 0
DecodePercent(text, p) ==
  LET first == TakeTriplet(text, p)
      n == IF first < 128 THEN 1 ELSE 1 + Len(GetRange(first))
  IN [k \in 1..n |-> TakeTriplet(text, p + 3 * (k - 1))]
IsDecoded(text, p, bytes) ==
  Validate(bytes, 1) /\ \A k \in DOMAIN bytes : IsTriplet(text, p + 3 * (k - 1))

(* One name, from p to the next slash.  What is read at p is one byte or a
   longer character; a tilde takes the byte behind it along. *)
Scanned(error, p, name) == [error |-> error, p |-> p, name |-> name]
RECURSIVE ScanName(_, _, _, _)
PutByte(text, p, fragment, name, c) ==
  LET behind == IF p <= Len(text) THEN ByteAt(text, p) ELSE NUL
  IN IF c = Tilde /\ behind \notin {Zero, One} THEN Scanned("InvalidEscape", p, <<>>)
     ELSE ScanName(text, IF c = Tilde THEN p + 1 ELSE p, fragment,
                   Append(name, IF c # Tilde THEN c ELSE IF behind = Zero THEN Tilde ELSE Slash))
PutDecoded(text, p, fragment, name, bytes) ==
  CASE ~IsDecoded(text, p, bytes) -> Scanned("InvalidPercentEncoding", p, <<>>)
    [] IsDecoded(text, p, bytes) /\ Len(bytes) = 1 -> PutByte(text, p + 3, fragment, name, bytes[1])
    [] OTHER -> ScanName(text, p + 3 * Len(bytes), fragment, name \o bytes)
ScanName(text, p, fragment, name) ==
  LET c == ByteAt(text, p)
  IN CASE p > Len(text) \/ c = Slash -> Scanned("None", p, name)
       [] p <= Len(text) /\ fragment /\ c = Percent ->
            PutDecoded(text, p, fragment, name, DecodePercent(text, p))
       [] p <= Len(text) /\ fragment /\ c \notin {Percent, Slash} /\ NeedPercentEncode(c) ->
            Scanned("CharacterMustPercentEncode", p, <<>>)
       [] OTHER -> PutByte(text, p + 1, fragment, name, c)

Pointer(error, at, tokens) == [error |-> error, at |-> at, tokens |-> tokens]
RECURSIVE ScanTokens(_, _, _, _)
ScanTokens(text, p, fragment, tokens) ==
  LET scanned == ScanName(text, p + 1, fragment, <<>>)
  IN IF p > Len(text) THEN Pointer("None", 0, tokens)
     ELSE IF scanned.error # "None" THEN Pointer(scanned.error, scanned.p - 1, <<>>)
          ELSE ScanTokens(text, scanned.p, fragment,
                          Append(tokens, Token(scanned.name, IndexOf(scanned.name))))
ParsePointer(text) ==
  LET fragment == ByteAt(text, 1) = Hash
      start == IF fragment THEN 2 ELSE 1
  IN IF start <= Len(text) /\ ByteAt(text, start) # Slash
     THEN Pointer("TokenMustBeginWithSolidus", start - 1, <<>>)
     ELSE ScanTokens(text, start, fragment, <<>>)
IsValid(pointer) == pointer.error = "None"

(* Append, by a name that is no index whatever it says, and by an index. *)
AppendToken(pointer, token) == [pointer EXCEPT !.tokens = Append(pointer.tokens, token)]
AppendName(pointer, name) == AppendToken(pointer, Token(name, INVALID_INDEX))
AppendIndex(pointer, index) ==
  AppendToken(pointer, Token(Ascii(ToString(index)), <<index \div 2^16, index % 2^16>>))
SamePointer(p, q) == IsValid(p) /\ IsValid(q) /\ p.tokens = q.tokens

(* Stringify: a name that is no UTF-8 has no fragment. *)
SpelledAs(ok, text) == [ok |-> ok, text |-> text]
HexLetter(n) == IF n < 10 THEN Zero + n ELSE 55 + n
PercentEncode(bytes) ==
  FlattenSeq([k \in DOMAIN bytes |-> <<Percent, HexLetter(bytes[k] \div 16), HexLetter(bytes[k] % 16)>>])
RECURSIVE SpellName(_, _, _, _)
SpellName(name, j, fragment, text) ==
  LET c == ByteAt(name, j)
  IN CASE j > Len(name) -> SpelledAs(TRUE, text)
       [] j <= Len(name) /\ c = Tilde -> SpellName(name, j + 1, fragment, text \o <<Tilde, Zero>>)
       [] j <= Len(name) /\ c = Slash -> SpellName(name, j + 1, fragment, text \o <<Tilde, One>>)
       [] j <= Len(name) /\ c \notin {Tilde, Slash} /\ fragment /\ NeedPercentEncode(c) ->
            IF Validate(name, j)
            THEN SpellName(name, j + Len(Validated(name, j)), fragment,
                           text \o PercentEncode(Validated(name, j)))
            ELSE SpelledAs(FALSE, text)
       [] OTHER -> SpellName(name, j + 1, fragment, Append(text, c))
Stringify(tokens, fragment) ==
  FoldLeft(LAMBDA spelled, token : IF ~spelled.ok THEN spelled
                                   ELSE SpellName(token.name, 1, fragment, Append(spelled.text, Slash)),
           SpelledAs(TRUE, IF fragment THEN <<Hash>> ELSE <<>>), tokens)

-----------------------------------------------------------------------------
(* The place among a value's items that a token names, 0 if there is none. *)
PlaceOf(value, token) ==
  CASE value.type = "Object" ->
         IF HasMember(value, StringValue(token.name))
         THEN 2 * FindMember(value, StringValue(token.name)) ELSE 0
    [] value.type = "Array" ->
         IF Less(token.index, <<0, Size(value)>>) THEN token.index[2] + 1 ELSE 0
    [] OTHER -> 0

(* Get: the value, in a sequence that is empty if there is none, and the index
   of the token that leads nowhere. *)
Reached(root, tokens) ==
  LET walk[k \in 0..Len(tokens)] ==
        IF k = 0 THEN <<root>>
        ELSE IF walk[k - 1] = <<>> \/ PlaceOf(walk[k - 1][1], tokens[k]) = 0 THEN <<>>
             ELSE <<walk[k - 1][1].items[PlaceOf(walk[k - 1][1], tokens[k])]>>
  IN walk
Get(root, tokens) == Reached(root, tokens)[Len(tokens)]
UnresolvedTokenIndex(root, tokens) ==
  CHOOSE t \in 0..(Len(tokens) - 1) : /\ Reached(root, tokens)[t] # <<>>
                                      /\ Reached(root, tokens)[t + 1] = <<>>

(* Create: what stands in the way becomes an object or an array, an array
   grows to the index, and "-" is the element behind the last. *)
IsBehindLast(value, token) == value.type = "Array" /\ token.name = <<Minus>>
Shaped_Anew(value, token) ==
  CASE IsBehindLast(value, token) -> value
    [] ~IsBehindLast(value, token) /\ token.index = INVALID_INDEX ->
         IF value.type = "Object" THEN value ELSE SetObject
    [] OTHER -> IF value.type = "Object" THEN value ELSE SetArray
Shaped(value, token) ==
  CASE IsBehindLast(value, token) -> value
    [] ~IsBehindLast(value, token) /\ token.index = INVALID_INDEX ->
         IF value.type = "Object" THEN value ELSE SetObject
    [] OTHER -> IF value.type \in {"Array", "Object"} THEN value ELSE SetArray
Padded(array, index) ==
  [array EXCEPT !.items = array.items \o [i \in 1..(index[2] + 1 - Size(array)) |-> NullValue]]
Grown(value, token) ==
  LET shaped == Shaped(value, token)
  IN CASE IsBehindLast(value, token) -> PushBack(shaped, NullValue)
       [] ~IsBehindLast(value, token) /\ shaped.type = "Array" ->
            IF Less(token.index, <<0, Size(shaped)>>) THEN shaped ELSE Padded(shaped, token.index)
       [] OTHER -> IF HasMember(shaped, StringValue(token.name)) THEN shaped
                   ELSE AddMember(shaped, StringValue(token.name), NullValue)
PlaceGrown(value, token) ==
  IF IsBehindLast(value, token) THEN Size(value) + 1 ELSE PlaceOf(Grown(value, token), token)

(* new is the value assigned to what is created, if any. *)
RECURSIVE Create(_, _, _), AlreadyExist(_, _)
Create(value, tokens, new) ==
  IF tokens = <<>> THEN Last(<<value>> \o new)
  ELSE LET grown == Grown(value, Head(tokens))
           p == PlaceGrown(value, Head(tokens))
       IN [grown EXCEPT !.items[p] = Create(grown.items[p], Tail(tokens), new)]
AlreadyExist(value, tokens) ==
  \/ tokens = <<>>
  \/ /\ Grown(value, Head(tokens)) = value
     /\ AlreadyExist(value.items[PlaceOf(value, Head(tokens))], Tail(tokens))
SetAt(root, tokens, new) == Create(root, tokens, <<new>>)
GetWithDefault(root, tokens, default) ==
  Create(root, tokens, IF AlreadyExist(root, tokens) THEN <<>> ELSE <<default>>)

(* Erase: the members or elements behind the erased one move up. *)
Erased(ok, value) == [ok |-> ok, value |-> value]
RECURSIVE Erase(_, _)
Erase(value, tokens) ==
  LET p == PlaceOf(value, Head(tokens))
      inside == Erase(value.items[p], Tail(tokens))
  IN CASE tokens = <<>> -> Erased(FALSE, value)
       [] tokens # <<>> /\ p = 0 -> Erased(FALSE, value)
       [] Len(tokens) = 1 /\ p # 0 ->
            Erased(TRUE, IF value.type = "Object"
                         THEN EraseMember(value, StringValue(tokens[1].name))
                         ELSE EraseElements(value, p, p + 1))
       [] OTHER -> Erased(inside.ok, [value EXCEPT !.items[p] = inside.value])
=============================================================================
