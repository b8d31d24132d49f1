------------------------------- MODULE Base64 -------------------------------
(***************************************************************************)
(* src/streamer/base64.h: the text the uploader puts the parameter sets    *)
(* and the audio header in.  Characters are ASCII codes.                   *)
(***************************************************************************)
EXTENDS Bytes

Padding == 61
kBase64Alphabet(d) ==
  CASE d < 26 -> d + 65 [] d \in 26..51 -> d + 71 [] d \in 52..61 -> d - 4
    [] d = 62 -> 43 [] d = 63 -> 47
b64_lookup(c) ==
  CASE c \in 65..90 -> c - 65 [] c \in 97..122 -> c - 71 [] c \in 48..57 -> c + 4
    [] c = 43 -> 62 [] c = 47 -> 63 [] OTHER -> 255

a3_to_a4(a) ==
  <<a[1] \div 4, ((a[1] % 4) * 16) + (a[2] \div 16), ((a[2] % 16) * 4) + (a[3] \div 64),
    a[3] % 64>>
a4_to_a3(a) ==
  <<(a[1] * 4 + ((a[2] \div 16) % 4)) % 256, ((a[2] % 16) * 16) + ((a[3] \div 4) % 16),
    (((a[3] % 4) * 64) + a[4]) % 256>>

EncodedLength(n) == ((n + 2 - ((n + 2) % 3)) \div 3) * 4
PaddingOf(s) == Cardinality({i \in 1..Len(s) : \A j \in i..Len(s) : s[j] = Padding})
DecodedLength(s) == ((6 * Len(s)) \div 8) - PaddingOf(s)

Encode_NoFill(b) ==
  LET group(k) == a3_to_a4(SubSeq(b \o <<0, 0>>, 3 * k - 2, 3 * k))
      text == FlattenSeq([k \in 1..((Len(b) + 2) \div 3) |->
                [j \in 1..4 |-> kBase64Alphabet(group(k)[j])]])
  IN [ok |-> TRUE, text |-> text]
(* Encode: three bytes in four characters; what is left over is filled with
   zeros and its unused characters give way to padding.  ok: the text has the
   length EncodedLength foretold. *)
Encode(b) ==
  LET left == Len(b) % 3
      group(k) == a3_to_a4(SubSeq(b \o <<0, 0>>, 3 * k - 2, 3 * k))
      characters(k) ==
        [j \in 1..4 |-> IF left # 0 /\ 3 * k > Len(b) /\ j > left + 1 THEN Padding
                        ELSE kBase64Alphabet(group(k)[j])]
      text == FlattenSeq([k \in 1..((Len(b) + 2) \div 3) |-> characters(k)])
  IN [ok |-> Len(text) = EncodedLength(Len(b)), text |-> text]

(* Decode: four characters at a time up to the first padding; the characters
   a last group lacks look up as 255. *)
Decode(s) ==
  LET n == Cardinality({i \in DOMAIN s : \A j \in 1..i : s[j] # Padding})
      digits(k) == [j \in 1..4 |-> IF 4 * (k - 1) + j <= n THEN b64_lookup(s[4 * (k - 1) + j])
                                   ELSE 255]
      kept(k) == IF 4 * k <= n THEN 3 ELSE (n % 4) - 1
      bytes == FlattenSeq([k \in 1..((n + 3) \div 4) |->
                             SubSeq(a4_to_a3(digits(k)), 1, kept(k))])
  IN [ok |-> Len(bytes) = DecodedLength(s), bytes |-> bytes]
=============================================================================
