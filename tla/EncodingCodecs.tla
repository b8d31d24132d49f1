--------------------------- MODULE EncodingCodecs --------------------------
(***************************************************************************)
(* The encodings of JSON texts against what Unicode says of them: the part *)
(* of Codecs that is about encodings.                                      *)
(***************************************************************************)
EXTENDS PointerCodecs, JsonEncodings

Encodings == {"UTF8", "UTF16LE", "UTF16BE", "UTF32LE", "UTF32BE"}
IsScalarValue(c) == c \in 0..MAX_CODEPOINT /\ c \notin Surrogates
Boundaries == {65, 127, 128, 255, 256, 2047, 2048, 55295, 57344, 65535, 65536, MAX_CODEPOINT}
EncodedInputs ==
  {x \in [from : Encodings, to : Encodings \cup {"ASCII"}, bom : BOOLEAN, chars : SeqOf(Boundaries, 2)] :
     x.to = "ASCII" => \A i \in DOMAIN x.chars : x.chars[i] < 128}
AllUnits(encoding, codepoints) ==
  FlattenSeq([i \in DOMAIN codepoints |-> EncodeTo(encoding, codepoints[i])])

(* A text in quotes, in any encoding, with or without a mark: a stream that
   knows the encoding and one that has to find it out read the same units, and
   these transcode to what the text is in any other encoding.  The encoding is
   found out but for UTF-16 without a mark whose second character is not below
   256, and for texts of less than four bytes: they are read as what the user
   says. *)
TextsAreTranscoded ==
  codec = "encoded text" =>
    LET codepoints == <<Quote>> \o input.chars \o <<Quote>>
        units == AllUnits(input.from, codepoints)
        bytes == EncodedOutput(input.from, units, input.bom)
        known == /\ Len(bytes) >= 4
                 /\ input.bom \/ UnitSize(input.from) # 2 \/ codepoints[2] < 256
    IN /\ EncodedInput(input.from, bytes) = units
       /\ input.from = "UTF8" => UTF8MemoryInput(bytes) = units
       /\ TranscodeFrom(input.from, input.to, units, 1)
            = Copied(TRUE, AllUnits(IF input.to = "ASCII" THEN "UTF8" ELSE input.to, codepoints))
       /\ \A default \in Encodings :
            DetectType(bytes, default)
              = Detected(IF known THEN input.from ELSE default, input.bom,
                         IF input.bom THEN 1 + Len(PutBOM(input.from)) ELSE 1)
       /\ AutoUTFInput(bytes, input.from) = units

(* Units around every boundary. *)
Bytes8 == {65, 127, 128, 193, 194, 223, 224, 225, 236, 237, 238, 239, 240, 241, 243, 244, 245, 255}
Behind8 == {65, 127, 128, 143, 144, 159, 160, 191, 192}
Units16 == {65, 55295, 55296, 56319, 56320, 57343, 57344, 65535}
Units32 == {0, 65, 55295, 57344, 65536, MAX_CODEPOINT, MAX_CODEPOINT + 1, 2147483647}
UnitInputs ==
  [encoding : {"UTF8", "ASCII"}, units : {<<b, c, d, e>> : b \in Bytes8, c, d \in Behind8, e \in {127, 128, 192}}]
    \cup [encoding : {"UTF16LE"}, units : Units16 \X Units16]
    \cup [encoding : {"UTF32LE"}, units : {<<u>> : u \in Units32}]

(* Decode takes what Validate lets pass and no more: units that encode a scalar
   value, the only ones that do. *)
UnitsAreDecoded ==
  codec = "encoded units" =>
    LET decoded == DecodeFrom(input.encoding, input.units, 1)
        validated == ValidateIn(input.encoding, input.units, 1)
    IN /\ decoded.ok <=> validated.ok
       /\ decoded.ok => /\ IsScalarValue(decoded.codepoint)
                        /\ decoded.n = Len(validated.units)
                        /\ validated.units = SubSeq(input.units, 1, decoded.n)
                        /\ EncodeTo(input.encoding, decoded.codepoint) = validated.units

EncodingsAgree == TextsAreTranscoded /\ UnitsAreDecoded
=============================================================================
