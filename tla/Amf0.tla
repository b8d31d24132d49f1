-------------------------------- MODULE Amf0 --------------------------------
(***************************************************************************)
(* protocol/AMF0Serializer.cpp on a message's bytes b: a reader is given   *)
(* the position p of the next byte and answers with ok, the position it    *)
(* leaves the stream at (also when it fails) and the value it read.  A     *)
(* number is its eight bytes.                                              *)
(***************************************************************************)
EXTENDS Bytes, Integers

AMF0_NUMBER == 0
AMF0_BOOLEAN == 1
AMF0_SHORT_STRING == 2
AMF0_OBJECT == 3
AMF0_NULL == 5
AMF0_UNDEFINED == 6
AMF0_MIXED_ARRAY == 8
AMF0_OBJECT_END == 9
AMF0_ARRAY == 10

Left(b, p) == Len(b) - p + 1
Failed(p) == [ok |-> FALSE, next |-> p]
Took(p, v) == [ok |-> TRUE, next |-> p, value |-> v]

(* A parser goes on from what a reader found, or fails where it failed. *)
After(at, Read(_)) == IF at.ok THEN Read(at) ELSE at

(* The type byte a reader with reads_type set asks for. *)
Typed(type, b, p) ==
  IF Left(b, p) < 1 THEN Failed(p)
  ELSE IF b[p] = type THEN Took(p + 1, type) ELSE Failed(p + 1)
Bare(p) == Took(p, "no type")

StringBody_Unchecked(b, at) ==
  LET p == at.next
      n == Number(SubSeq(b, p, p + 1))
      end == IF Left(b, p + 2) < n THEN Len(b) ELSE p + 1 + n
  IN IF ~at.ok THEN at
     ELSE IF Left(b, p) < 2 THEN Failed(p) ELSE Took(end + 1, SubSeq(b, p + 2, end))

(* The body of a reader behind the type byte `at` found. *)
StringBody(b, at) ==
  LET p == at.next
      n == Number(SubSeq(b, p, p + 1))
  IN IF ~at.ok THEN at
     ELSE IF Left(b, p) < 2 THEN Failed(p)
     ELSE IF n >= 2^15 \/ Left(b, p + 2) < n THEN Failed(p + 2)
     ELSE Took(p + 2 + n, SubSeq(b, p + 2, p + 1 + n))
NumberBody(b, at) ==
  IF ~at.ok THEN at
  ELSE IF Left(b, at.next) < 8 THEN Failed(at.next)
  ELSE Took(at.next + 8, SubSeq(b, at.next, at.next + 7))
BooleanBody(b, at) ==
  IF ~at.ok THEN at
  ELSE IF Left(b, at.next) < 1 THEN Failed(at.next)
  ELSE IF b[at.next] \in {0, 1} THEN Took(at.next + 1, b[at.next] = 1) ELSE Failed(at.next + 1)
read_short_string(b, p) == StringBody(b, Typed(AMF0_SHORT_STRING, b, p))
read_number(b, p) == NumberBody(b, Typed(AMF0_NUMBER, b, p))
read_boolean(b, p) == BooleanBody(b, Typed(AMF0_BOOLEAN, b, p))
read_null(b, p) == Typed(AMF0_NULL, b, p)
read_key(b, p) == StringBody(b, Bare(p))

EndOfObject == <<0, 0, AMF0_OBJECT_END>>
is_end_of_object_EmptyKey(b, p) == Left(b, p) >= 3 /\ SubSeq(b, p, p + 1) = <<0, 0>>
is_end_of_object(b, p) == Left(b, p) >= 3 /\ SubSeq(b, p, p + 2) = EndOfObject

(* consume_until_end_of_object: a byte at a time, past the next end of object
   or up to the last two bytes. *)
consume_until_end_of_object(b, p) ==
  LET ends == {i \in p..(Len(b) - 2) : SubSeq(b, i, i + 2) = EndOfObject}
  IN IF ends # {} THEN CHOOSE i \in {e + 3 : e \in ends} : \A e \in ends : i <= e + 3
     ELSE IF Left(b, p) < 3 THEN p ELSE Len(b) - 1

(* consume_any (n = 1), the loop over a strict array's elements (n of them)
   and the loop over properties up to the end of object (n = -1), which
   ignores that a property could not be read.  A strict array whose count is
   cut runs with whatever its variable held: garbage. *)
Properties == -1
consume_any(b, p, garbage) ==
  LET after[n \in Int, q \in 1..(Len(b) + 1)] ==
        LET body == Bare(q + 1)
            key == read_key(b, q)
            count == IF Left(b, q + 1) < 4 THEN garbage ELSE Number(SubSeq(b, q + 1, q + 4))
            counted == IF Left(b, q + 1) < 4 THEN q + 1 ELSE q + 5
            property == IF key.ok THEN after[1, key.next] ELSE key
            one == CASE b[q] = AMF0_BOOLEAN -> BooleanBody(b, body)
                     [] b[q] = AMF0_NUMBER -> NumberBody(b, body)
                     [] b[q] = AMF0_SHORT_STRING -> StringBody(b, body)
                     [] b[q] \in {AMF0_NULL, AMF0_UNDEFINED, AMF0_OBJECT_END} -> body
                     [] b[q] = AMF0_OBJECT -> after[Properties, q + 1]
                     [] b[q] = AMF0_MIXED_ARRAY -> after[Properties, counted]
                     [] b[q] = AMF0_ARRAY -> after[count, counted]
                     [] OTHER -> Took(consume_until_end_of_object(b, q + 1), <<>>)
        IN IF n = Properties
           THEN IF Left(b, q) < 3 THEN Failed(q)
                ELSE IF is_end_of_object(b, q) THEN Took(q + 3, <<>>)
                ELSE after[Properties, property.next]
           ELSE IF n = 0 THEN Took(q, <<>>)
           ELSE IF Left(b, q) < 1 THEN Failed(q)
           ELSE IF one.ok THEN after[n - 1, one.next] ELSE one
  IN after[1, p]
consume_full(b, p, garbage) ==
  LET rest[q \in 1..(Len(b) + 1)] ==
        IF Left(b, q) = 0 THEN Took(q, <<>>)
        ELSE LET one == consume_any(b, q, garbage)
             IN IF one.ok THEN rest[one.next] ELSE one
  IN rest[p]

-----------------------------------------------------------------------------
(* The writers; every one adds what it wrote to writed, so a body's count is
   its length. *)
write_object_key(s) == Octets(2, Len(s)) \o s
write_short_string(s) == <<AMF0_SHORT_STRING>> \o write_object_key(s)
write_number(v) == <<AMF0_NUMBER>> \o v
write_boolean(v) == <<AMF0_BOOLEAN, IF v THEN 1 ELSE 0>>
write_null == <<AMF0_NULL>>
write_end_of_object == EndOfObject
=============================================================================
