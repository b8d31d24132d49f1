--------------------------- MODULE PointerCodecs ---------------------------
(***************************************************************************)
(* JSON pointers against RFC 6901: the part of Codecs that is about paths  *)
(* into a document.                                                        *)
(***************************************************************************)
EXTENDS JsonCodecs, JsonPointer

(* A list of names as RFC 6901 spells it; no other list has this spelling. *)
Rfc6901(names) ==
  FlattenSeq([n \in DOMAIN names |-> <<Slash>> \o FlattenSeq(
    [j \in DOMAIN names[n] |-> CASE names[n][j] = Tilde -> <<Tilde, Zero>>
                                 [] names[n][j] = Slash -> <<Tilde, One>>
                                 [] OTHER -> <<names[n][j]>>])])
NamesOf(tokens) == [t \in DOMAIN tokens |-> tokens[t].name]

(* Names with each kind of character, and around what makes an index. *)
Indexes == {0, 1, 9, 10, 65535, 65536, 70000}
PathNames ==
  {<<>>, Ascii("a"), Ascii("a/b"), Ascii("~1"), <<Tilde>>, Ascii("%41"), <<NUL>>, <<195, 169>>,
   Ascii("/") \o <<226, 130, 172>> \o Ascii(" "), <<240, 159, 152, 128>>, <<Minus>>, Ascii("01"),
   Ascii("00"), Ascii("4294967294"), Ascii("4294967295"), Ascii("4294967296")}
    \cup {Ascii(ToString(k)) : k \in Indexes}
IndexMeant(name) ==
  IF \E k \in Indexes : name = Ascii(ToString(k))
  THEN LET k == CHOOSE k \in Indexes : name = Ascii(ToString(k)) IN <<k \div 2^16, k % 2^16>>
  ELSE IF name = Ascii("4294967294") THEN <<65535, 65534>> ELSE INVALID_INDEX
IllNames == {<<195>>, <<65, 169>>, <<237, 160, 128>>}
NameLists ==
  LET names == PathNames \cup IllNames
  IN SeqOf(names, 1) \cup {<<m, n>> : m \in {<<>>, Ascii("a/b"), <<195>>}, n \in names}

(* Both spellings of any list of names are read as that list, and give the
   names their indexes; the fragment has characters a URI may hold only, and
   none is written for a name that is no UTF-8. *)
PointersAreSpelled ==
  codec = "pointer names" =>
    LET tokens == [n \in DOMAIN input |-> Token(input[n], IndexMeant(input[n]))]
        ill == \E n \in DOMAIN input : input[n] \in IllNames
    IN \A fragment \in BOOLEAN :
         LET spelled == Stringify(tokens, fragment)
         IN /\ spelled.ok <=> ~(ill /\ fragment)
            /\ spelled.ok => ParsePointer(spelled.text) = Pointer("None", 0, tokens)
            /\ ~fragment => spelled.text = Rfc6901(input)
            /\ fragment => \A i \in DOMAIN spelled.text :
                             spelled.text[i] \in Unreserved \cup {Percent, Slash} \cup If(i = 1, {Hash})

(* Appending an index is what parsing it gives; appending a name that spells
   one is not the same pointer. *)
PointersAreAppended ==
  codec = "pointer index" =>
    LET given == ParsePointer(Ascii("/a"))
        parsed == ParsePointer(Ascii("/a/") \o Ascii(ToString(input)))
    IN /\ SamePointer(AppendIndex(given, input), parsed)
       /\ ~SamePointer(AppendName(given, Ascii(ToString(input))), parsed)

(* Texts made of pieces, each with what it adds to RFC 6901's string when it
   stands in a string and in a fragment, where some may not.  A percent-encoded
   slash is a slash in a name, and the digit behind a tilde must not be
   percent-encoded.  A cut text ends inside a triplet. *)
Piece(text, string, fragment) == [text |-> text, string |-> string, fragment |-> fragment]
Barred == <<NUL>>
Pieces ==
  {Piece(Ascii("/"), Ascii("/"), Ascii("/")), Piece(Ascii("0"), Ascii("0"), Ascii("0")),
   Piece(Ascii("~"), Ascii("~"), Ascii("~")), Piece(Ascii("%7E"), Ascii("%7E"), Ascii("~")),
   Piece(Ascii("%2f"), Ascii("%2f"), Ascii("~1")), Piece(Ascii("!"), Ascii("!"), Barred),
   Piece(Ascii("%C3%A9"), Ascii("%C3%A9"), <<195, 169>>), Piece(Ascii("%C3"), Ascii("%C3"), Barred),
   Piece(Ascii("%G1"), Ascii("%G1"), Barred), Piece(<<195, 169>>, <<195, 169>>, Barred),
   Piece(Ascii("%30"), Ascii("%30"), Ascii("0"))}
MaxPieces == 3
PieceInputs ==
  {x \in [fragment : BOOLEAN, cut : BOOLEAN, pieces : SeqOf(Pieces, MaxPieces)] :
     x.cut => /\ x.fragment /\ x.pieces # <<>> /\ Head(Last(x.pieces).text) = Percent}
PieceText(x) ==
  LET text == (IF x.fragment THEN <<Hash>> ELSE <<>>)
                \o FlattenSeq([i \in DOMAIN x.pieces |-> x.pieces[i].text])
  IN IF x.cut THEN Front(text) ELSE text
Allowed(x) ==
  LET meant == [i \in DOMAIN x.pieces |-> IF x.fragment THEN x.pieces[i].fragment ELSE x.pieces[i].string]
  IN \/ x.pieces = <<>>
     \/ /\ x.pieces[1].text = <<Slash>>
        /\ \A i \in DOMAIN meant :
             /\ meant[i] # Barred
             /\ meant[i] = <<Tilde>> => i < Len(meant) /\ x.pieces[i + 1].text = <<Zero>>
MeantBy(x) ==
  FlattenSeq([i \in DOMAIN x.pieces |-> IF x.fragment THEN x.pieces[i].fragment ELSE x.pieces[i].string])

(* A text is refused unless RFC 6901 allows it, and read as the names it
   spells; a triplet that is cut is refused. *)
PointerTextsAreRead ==
  codec = "pointer text" =>
    LET pointer == ParsePointer(PieceText(input))
    IN IF input.cut \/ ~Allowed(input) THEN ~IsValid(pointer) /\ pointer.tokens = <<>>
       ELSE IsValid(pointer) /\ Rfc6901(NamesOf(pointer.tokens)) = MeantBy(input)

-----------------------------------------------------------------------------
(* Documents, and paths into them and past them. *)
True == BoolValue(1)
Trees ==
  LET leaf == NumberValue({"Int"}, <<0, 7>>)
      arrayOf(items) == [SetArray EXCEPT !.items = items]
      objectOf(items) == [SetObject EXCEPT !.items = items]
      a == StringValue(Ascii("a"))
      b == StringValue(Ascii("b"))
      zero == StringValue(<<Zero>>)
  IN {NullValue, leaf, SetArray, SetObject, arrayOf(<<leaf, NullValue>>), objectOf(<<a, leaf, zero, True>>),
      objectOf(<<a, arrayOf(<<leaf, objectOf(<<b, True>>)>>), b, objectOf(<<zero, leaf, a, leaf>>)>>),
      arrayOf(<<objectOf(<<zero, leaf>>), arrayOf(<<leaf, arrayOf(<<True>>), a>>), leaf>>)}
Steps == {NamedToken(name) : name \in {Ascii("a"), Ascii("b"), <<Zero>>, <<One>>, <<Zero + 3>>, <<Minus>>}}
Paths == SeqOf(Steps, 2) \cup {<<s, t, u>> : s, t, u \in Steps \ {Token(<<Zero + 3>>, <<0, 3>>)}}
PathInputs == [root : Trees, path : Paths]

(* Where a path ends once it has been followed: "-" is an index then. *)
Settled(root, path) ==
  LET shape[k \in 0..Len(path)] ==
        IF k = 0 THEN <<root, <<>>>>
        ELSE LET value == shape[k - 1][1]
                 grown == Grown(value, path[k])
                 p == PlaceGrown(value, path[k])
                 step == IF IsBehindLast(value, path[k]) THEN Token(Ascii(ToString(Size(value))), <<0, Size(value)>>)
                         ELSE path[k]
             IN <<grown.items[p], Append(shape[k - 1][2], step)>>
  IN shape[Len(path)][2]
IsUnder(path, other) == IsPrefix(NamesOf(other), NamesOf(path))

(* The array that a name turns into an object, losing its elements, if any. *)
Lost(root, path) ==
  {k \in 0..(Len(path) - 1) :
     LET reached == Get(root, SubSeq(path, 1, k))
     IN reached # <<>> /\ reached[1].type = "Array"
          /\ path[k + 1].index = INVALID_INDEX /\ path[k + 1].name # <<Minus>>}

(* What is set at a path is found there.  Nothing else changes, but for an array
   that a name leads into, whose elements are lost, and nulls that fill an
   array up to an index.  A path exists if it can be followed. *)
PathsAreSet ==
  codec = "pointer set" =>
    LET root == input.root
        path == input.path
        new == StringValue(Ascii("new"))
        after == SetAt(root, path, new)
        target == Settled(root, path)
        before == Get(root, path)
    IN /\ Get(after, target) = <<new>>
       /\ AlreadyExist(root, path) <=> before # <<>>
       /\ before # <<>> => Create(root, path, <<>>) = root /\ target = path
       /\ GetWithDefault(root, path, new) = IF before = <<>> THEN after ELSE root
       /\ before = <<>> => LET t == UnresolvedTokenIndex(root, path)
                           IN \A u \in 0..(Len(path) - 1) : u <= t <=> Get(root, SubSeq(path, 1, u)) # <<>>
       /\ \A other \in {q \in SeqOf(Steps, 2) : ~IsUnder(q, target) /\ ~IsUnder(target, q)} :
            IF \E k \in Lost(root, path) : IsUnder(other, SubSeq(path, 1, k))
            THEN Get(after, other) \in {<<>>, <<NullValue>>}
            ELSE Get(after, other) \in {Get(root, other)} \cup If(Get(root, other) = <<>>, {<<NullValue>>})

(* Erasing takes away what the path leads to and nothing else; elements behind
   it move up by one. *)
PathsAreErased ==
  codec = "pointer erase" =>
    LET root == input.root
        path == input.path
        erased == Erase(root, path)
        parent == Front(path)
        holder == Get(root, parent)[1]
        rest == Get(erased.value, parent)[1]
    IN /\ erased.ok <=> path # <<>> /\ Get(root, path) # <<>>
       /\ ~erased.ok => erased.value = root
       /\ erased.ok =>
            /\ IF holder.type = "Object"
               THEN /\ Get(erased.value, path) = <<>> /\ MemberCount(rest) = MemberCount(holder) - 1
                    /\ \A step \in Steps \ {Last(path)} : Get(rest, <<step>>) = Get(holder, <<step>>)
               ELSE /\ Size(rest) = Size(holder) - 1
                    /\ \A i \in 1..Size(rest) :
                         rest.items[i] = holder.items[IF i <= Last(path).index[2] THEN i ELSE i + 1]
            /\ \A other \in SeqOf(Steps, 2) :
                 ~IsUnder(other, parent) /\ ~IsUnder(parent, other) => Get(erased.value, other) = Get(root, other)

PointersAreKept ==
  /\ PointersAreSpelled /\ PointersAreAppended /\ PointerTextsAreRead
  /\ PathsAreSet /\ PathsAreErased
=============================================================================
