------------------------------- MODULE Codecs -------------------------------
(***************************************************************************)
(* The codecs of the server against reference definitions.  A behaviour    *)
(* picks one codec and one input and stops; each property compares what    *)
(* the code makes of the input with what the format says of it.  The       *)
(* reference definitions are written from the formats the comments of the  *)
(* sources describe, bit by bit or backwards, never from the code.         *)
(***************************************************************************)
EXTENDS FlvMedia, ChunkWriter, StorageCodecs

vars == <<codec, input>>

Init == codec = "none" /\ input = <<>>
Try(name, inputs) == codec = "none" /\ codec' = name /\ input' \in inputs
Ended == codec # "none" /\ UNCHANGED vars

-----------------------------------------------------------------------------
(* AAC sequence headers: configs that use every branch, cut anywhere. *)
Tails == {<<>>, <<224>>, <<172, 68>>, <<0, 172, 69>>, <<1, 88, 159, 224>>, <<127, 3, 5, 32, 9>>}
AacHeaders ==
  {<<fmt>> \o <<type, hb>> : fmt \in {175, 47}, type \in {0, 1}, hb \in {18}}
    \cup {<<175, 0, hb, lb>> \o tail :
            hb \in {18, 20, 23, 251, 254, 255}, lb \in {16, 30, 31, 136, 142, 209, 254, 255},
            tail \in Tails}

(* The bits of a buffer, and the number that bits i+1..i+n spell. *)
BitsOf(b) == [i \in 1..(8 * Len(b)) |-> (b[(i + 7) \div 8] \div 2^((8 - (i % 8)) % 8)) % 2]
Spelled(bits, i, n) == FoldLeft(LAMBDA v, x : 2 * v + x, 0, SubSeq(bits, i + 1, i + n))

(* ISO 14496-3 AudioSpecificConfig, bit by bit. *)
Config(b) ==
  LET bits == BitsOf(From(b, 3))
      escape == Spelled(bits, 0, 5) = 31
      at == IF escape THEN 11 ELSE 5
      index == Spelled(bits, at, 4)
      end == at + 4 + (IF index = 15 THEN 24 ELSE 0)
  IN IF Len(bits) >= 16 /\ Len(bits) >= end + 4
     THEN [ok |-> TRUE,
           object_type |-> IF escape THEN 32 + Spelled(bits, 5, 6) ELSE Spelled(bits, 0, 5),
           sample_rate |-> IF index = 15 THEN Spelled(bits, at + 4, 24)
                           ELSE SamplingRates[index + 1],
           channel_count |-> Spelled(bits, end, 4)]
     ELSE Refused
FiveByteExplicitRate(b) == Len(b) = 7 /\ b[3] % 8 = 7 /\ b[4] >= 128 /\ b[3] < 248

(* get_aac_header reads what the config spells and refuses the ones that are
   cut, except that it refuses an explicit rate in exactly five bytes; what
   ParseAACSequenceHeader logs is what get_aac_header publishes. *)
AacHeaderIsRead ==
  codec = "aac" =>
    LET published == get_aac_header(input)
        logged == ParseAACSequenceHeader(input)
    IN /\ published = IF IsAACSequenceHeader(input) /\ ~FiveByteExplicitRate(input)
                      THEN Config(input) ELSE Refused
       /\ logged.ok => /\ published.ok
                       /\ logged.object_type = published.object_type
                       /\ logged.sample_rate = published.sample_rate
                       /\ logged.channel_count = ChannelConfig[published.channel_count + 1]
-----------------------------------------------------------------------------
(* AVC sequence headers: the record for lists of parameter sets, cut after n
   bytes. *)
SetsOf(list) == FlattenSeq([i \in DOMAIN list |-> Octets(2, Len(list[i])) \o list[i]])
Record(spss, ppss) ==
  <<23, 0, 0, 0, 0, 1, 77, 0, 31, 255, 224 + Len(spss)>> \o SetsOf(spss)
    \o <<Len(ppss)>> \o SetsOf(ppss)
AvcHeaders ==
  UNION {{[spss |-> s, ppss |-> p, cut |-> n] : n \in 0..Len(Record(s, p))} :
           s \in {<<>>, <<<<103, 0, 1>>>>, <<<<103, 7>>>>, <<<<103>>, <<71, 1>>>>},
           p \in {<<>>, <<<<104, 9>>>>, <<<<104>>, <<72, 1, 2>>>>}}
WithStartCodes(list) == FlattenSeq([i \in DOMAIN list |-> StartCode \o list[i]])
FirstOf(list) == IF list = <<>> THEN <<>> ELSE Head(list)

(* With at most one SPS the first sets are found, a record cut inside them is
   refused, and ParseAVCSequenceHeader reads every set of a whole record and
   nothing of a cut one; with one of each the two agree on the codecInfo. *)
ParameterSetsAreRead ==
  codec = "avc" =>
    LET spss == input.spss
        ppss == input.ppss
        b == SubSeq(Record(spss, ppss), 1, input.cut)
        first == get_first_sps_and_first_pps(b)
        every == ParseAVCSequenceHeader(b)
        end == 12 + Len(SetsOf(spss)) + Len(SetsOf(IF ppss = <<>> THEN <<>> ELSE <<Head(ppss)>>))
    IN /\ Len(spss) <= 1 =>
            first = IF input.cut < end THEN Refused
                    ELSE [ok |-> TRUE, nal_length |-> 4, sps |-> FirstOf(spss),
                          pps |-> FirstOf(ppss)]
       /\ every = IF b # Record(spss, ppss) \/ spss = <<>> THEN Refused
                  ELSE [ok |-> TRUE, nal_length |-> 4, sps_list |-> WithStartCodes(spss),
                        pps_list |-> WithStartCodes(ppss)]
       /\ every.ok /\ Len(spss) = 1 /\ Len(ppss) = 1 =>
            VideoCodecInfo(first) = every.sps_list \o every.pps_list

(* Access units: whole NAL units, some of whose bytes look like lengths or
   start codes. *)
NalUnits == {<<>>, <<101>>, <<0, 0, 0, 1>>, <<0, 0, 0, 2, 9>>, <<65, 0, 0, 0, 0>>}
AccessUnits == SeqOf(NalUnits, 3)
MP4(units) == FlattenSeq([i \in DOMAIN units |-> Octets(4, Len(units[i])) \o units[i]])

(* The start codes take the place of the lengths and of nothing else. *)
UnitsAreKept ==
  codec = "nal" => /\ WholeUnits(4, MP4(input))
                   /\ replace_nalu_start_code(4, MP4(input)) = WithStartCodes(input)

-----------------------------------------------------------------------------
(* Media messages as the handler receives them; 47721858 ms is the last time
   whose ticks fit in 32 bits. *)
Bodies ==
  {<<175, 0, 18, 16>>, <<175, 0, 18>>, <<175, 1>>, <<175, 1, 33, 7>>, <<47, 1, 33>>,
   Record(<<<<103, 0, 1>>>>, <<<<104, 9>>>>), <<23, 0, 0, 0, 0, 1, 77, 0, 31, 255, 225, 0>>,
   <<23, 1, 0, 0, 80>> \o MP4(<<<<101, 8>>>>), <<39, 1, 1, 0, 0>> \o MP4(<<<<9>>, <<65, 2>>>>),
   <<39, 1, 0>>, <<23, 2, 0, 0, 0>>, <<34, 1, 0, 0, 0>>}
LastExactTime == 47721858
Messages ==
  [type : {8, 9, 18}, data : Bodies,
   timestamp : {0, 40, 65535, 16777221, LastExactTime, LastExactTime + 1, 2147483647}]

(* ParseAACRaw, ParseAVCNALU and ParseAVCEndOfSequence take a message apart
   without loss, and find in it what the handler's own readers find. *)
ParsersAgree ==
  codec = "message" =>
    LET b == input.data
        raw == ParseAACRaw(b)
        nalu == ParseAVCNALU(b)
        eos == ParseAVCEndOfSequence(b)
    IN /\ raw.ok = get_audio(b).ok
       /\ raw.ok => /\ raw.data = get_audio(b).data
                    /\ <<b[1], 1>> \o raw.data = b
       /\ nalu.ok = (IsAVCNALU(b) /\ get_video(b).ok)
       /\ nalu.ok => /\ nalu.data = get_video(b).data
                     /\ <<16 * nalu.frame_type + FLV_AVC, 1>> \o Octets(3, nalu.cts) \o nalu.data = b
       /\ eos.ok => <<16 * eos.frame_type + FLV_AVC, 2>> \o eos.eos = get_avc_end_of_sequence(b)

(* get_aac_header, get_first_sps_and_first_pps and replace_nalu_start_code,
   with the parsers that log beside them: headers and access units are what
   their formats say. *)
MediaIsRead == AacHeaderIsRead /\ ParameterSetsAreRead /\ UnitsAreKept /\ ParsersAgree

(* A dumped message, read back, has the effect the message had, as long as
   its time fits the reader's 32-bit product. *)
DumpReplays ==
  codec = "message" =>
    LET live == process_flv_es_message(input, TRUE)
        replayed == process_flv_es_dump_message(Dump(input))
    IN replayed = live <=> (input.timestamp <= LastExactTime \/ "dts" \notin DOMAIN live)

(* A reader that walks an FLV file from its end by the sizes behind the tags
   finds the messages and stops at the file header. *)
Flv(messages) == write_flv_header \o FlattenSeq([i \in DOMAIN messages |-> Tag(messages[i])])
TagBefore(b, end) ==
  LET size == Number(SubSeq(b, end - 3, end))
      t == SubSeq(b, end - 3 - size, end - 4)
  IN [start |-> end - 4 - size,
      message |-> [type |-> t[1], data |-> SubSeq(t, 12, 11 + Number(SubSeq(t, 2, 4))),
                   timestamp |-> Number(<<t[8]>> \o SubSeq(t, 5, 7))]]
TagsReadBack ==
  codec = "message" =>
    LET second == [type |-> 9, data |-> <<39, 1, 0, 0, 0>>, timestamp |-> 16909060]
        b == Flv(<<input, second>>)
        last == TagBefore(b, Len(b))
        first == TagBefore(b, last.start)
    IN /\ last.message = second
       /\ first.message = input
       /\ SubSeq(b, 1, first.start) = write_flv_header

(* What the recorder writes to disk, dump or FLV file, reads back as the
   messages it was made of. *)
FilesReadBack == DumpReplays /\ TagsReadBack

-----------------------------------------------------------------------------
(* Base 64: buffers of every length modulo three. *)
Buffers == SeqOf({0, 77, 130, 255}, 4)

(* The text spells the buffer's bits, six to a character, and decodes to it. *)
Base64RoundTrips ==
  codec = "base64" =>
    LET encoded == Encode(input)
        bits == BitsOf(input \o <<0, 0>>)
        used == (8 * Len(input) + 5) \div 6
    IN /\ encoded.ok
       /\ Len(encoded.text) = 4 * ((Len(input) + 2) \div 3)
       /\ \A i \in DOMAIN encoded.text :
            encoded.text[i] = IF i > used THEN Padding
                              ELSE kBase64Alphabet(Spelled(bits, 6 * (i - 1), 6))
       /\ input # <<>> => Decode(encoded.text) = [ok |-> TRUE, bytes |-> input]

-----------------------------------------------------------------------------
(* AMF0 values of the types the server supports, written type by type; some
   hold the bytes of an end of object. *)
Scalars ==
  {<<0, 64, 0, 0, 9, 0, 0, 9, 0>>, <<1, 1>>, <<2, 0, 0>>, <<2, 0, 3, 0, 0, 9>>, <<5>>, <<6>>}
KeyBytes == {<<0, 0>>, <<0, 1, 120>>, <<0, 3, 0, 0, 9>>}
Objects(values) ==
  {<<3>> \o FlattenSeq(list) \o <<0, 0, 9>> :
     list \in SeqOf({k \o v : k \in KeyBytes, v \in values}, 1)}
MixedArrays(values) ==
  {<<8, 0, 0, 0, n>> \o k \o v \o k \o w \o <<0, 0, 9>> :
     n \in {0, 2}, k \in {<<0, 1, 120>>}, v \in values, w \in {<<5>>, <<1, 0>>}}
Arrays(values) ==
  {<<10>> \o Octets(4, Len(list)) \o FlattenSeq(list) : list \in SeqOf(values, 2)}
Values ==
  LET shallow == Objects(Scalars) \cup MixedArrays(Scalars) \cup Arrays(Scalars)
  IN Scalars \cup shallow \cup Objects(shallow) \cup MixedArrays(Objects(Scalars))
       \cup Arrays(Objects({<<5>>, <<2, 0, 3, 0, 0, 9>>}))
Successors == {<<>>, <<5>>, <<9>>, <<0, 0, 9>>}

(* consume_any takes a value to its last byte, whatever its strings, keys and
   numbers hold and whatever follows, and consume_full takes them all. *)
ValuesAreConsumed ==
  codec = "amf0" =>
    /\ \A more \in Successors :
         LET one == consume_any(input \o more, 1, 0)
         IN one.ok /\ one.next = Len(input) + 1
    /\ consume_full(input \o input, 1, 0).ok

-----------------------------------------------------------------------------
(* Payloads a client sends, with what they mean, written type by type.  The
   stream name holds the bytes of an end of object; 63 248 is 1.5. *)
Str(text) == <<2>> \o Octets(2, Len(text)) \o text
Num(d) == <<0>> \o d
Field(key, value) == Octets(2, Len(key)) \o key \o value
Name == <<0, 0, 9>>
OneAndAHalf == <<63, 248, 0, 0, 0, 0, 0, 0>>
ACommand(word, tx, arguments) == Str(Text(word)) \o Num(Double(tx)) \o arguments
PassedOver == [kind |-> "passed over"]
Sent(type_id, body, extra, meant) ==
  [type_id |-> type_id, body |-> body, extra |-> extra, meant |-> meant]
ConnectObject ==
  <<3>> \o Field(Text("app"), Str(<<108>>)) \o Field(Text("fpad"), <<1, 1>>)
    \o Field(Text("swfUrl"), <<6>>) \o Field(Text("audioCodecs"), Num(Double(3191)))
    \o Field(<<120, 120>>, <<3>> \o Field(<<>>, <<5>>) \o <<0, 0, 9>>)
    \o Field(Text("app"), Str(Name)) \o <<0, 0, 9>>
ConnectMeant == [app |-> Name, fpad |-> TRUE, audioCodecs |-> 3191]
Null == <<5>>
Commands ==
  <<Sent(20, ACommand("connect", 1, ConnectObject), 0,
         Command("connect", Double(1), ConnectMeant)),
    Sent(17, <<0>> \o ACommand("releaseStream", 2, Null \o Str(Name)), 0,
         Command("releaseStream", Double(2), <<Name>>)),
    Sent(20, ACommand("FCPublish", 3, Null \o Str(<<>>)), 0,
         Command("FCPublish", Double(3), <<<<>>>>)),
    Sent(20, ACommand("createStream", 4, Null), 0, Command("createStream", Double(4), <<>>)),
    Sent(20, ACommand("publish", 5, Null \o Str(Name) \o Str(<<108>>)), 0,
         Command("publish", Double(5), <<Name, <<108>>>>)),
    Sent(20, ACommand("play", 6, Null \o Str(Name) \o Num(Double(7))), 9,
         Command("play", Double(6), <<Name>>)),
    Sent(17, <<7>> \o ACommand("FCUnpublish", 0, Null \o Str(Name)), 0,
         Command("FCUnpublish", Double(0), <<Name>>)),
    Sent(20, ACommand("deleteStream", 8, Null \o Num(OneAndAHalf)), 0,
         Command("deleteStream", Double(8), <<1>>))>>
Payloads ==
  Commands \o
  <<Sent(20, Str(<<120>>) \o Num(Double(9)) \o Null \o ConnectObject, 0,
         Command("unknown", Double(9), <<>>)),
    Sent(1, <<0, 0, 16, 0>>, 0, Control(1, <<4096>>)),
    Sent(2, <<0, 0, 0, 5>>, 0, Control(2, <<5>>)),
    Sent(3, <<0, 76, 75, 64>>, 0, Control(3, <<5000000>>)),
    Sent(4, <<0, 3, 0, 0, 0, 1, 0, 0, 11, 184>>, 0, Control(4, <<3, 1, 3000>>)),
    Sent(4, <<0, 6, 1, 0, 0, 2>>, 0, Control(4, <<6, 16777218>>)),
    Sent(5, <<0, 38, 37, 160>>, 0, Control(5, <<2500000>>)),
    Sent(6, <<0, 0, 1, 0, 2>>, 0, Control(6, <<256, 2>>)),
    Sent(18, Str(Text("@setDataFrame")) \o Str(Text("onMetaData")) \o <<8, 0, 0, 0, 9>>
               \o Field(<<100>>, Num(OneAndAHalf)) \o <<0, 0, 9>>, 0, DataFrame),
    Sent(9, <<23, 1, 0, 0, 0>>, 0, Media(9, <<23, 1, 0, 0, 0>>)),
    Sent(8, <<175, 1>>, 0, Media(8, <<175, 1>>)),
    Sent(18, Str(Text("onMetaData")) \o <<8, 0, 0, 0, 0, 0, 0, 9>>, 0, PassedOver),
    Sent(4, <<0, 31, 0, 0, 0, 1>>, 0, PassedOver),
    Sent(6, <<0, 38, 37, 160, 3>>, 0, PassedOver)>>

(* The payload the parser of its kind parsed last before the n-th of a sequence,
   0 if none: what it delivers for one it passes over. *)
ParserOf(sent) ==
  CASE sent.type_id \in 1..6 -> "control" [] sent.type_id \in {15, 18} -> "data" [] OTHER -> "own"
LastParsed(sequence, n) ==
  Max({0} \union {m \in 1..(n - 1) : /\ sequence[m].meant # PassedOver
                                     /\ ParserOf(sequence[m]) = ParserOf(sequence[n])})

(* A payload is delivered as the message it holds, whatever came before it.
   One that its parser passes over, a data message of another name or a
   control message with an event or a limit type that is unknown, is
   delivered as the last one that parser did parse; if there is none the
   process ends there. *)
DeliveredAsSent ==
  codec = "payloads" =>
    LET sequence == [n \in DOMAIN input |-> Payloads[input[n]]]
        parsed[n \in 0..Len(input)] ==
          IF n = 0 THEN [ok |-> TRUE, message |-> NoMessage, parsers |-> NoneParsed]
          ELSE After(parsed[n - 1], LAMBDA before :
                 parse_payload(before.parsers, sequence[n].type_id, sequence[n].body))
        Unmet(n) == sequence[n].meant = PassedOver /\ LastParsed(sequence, n) = 0
        meant(n) == IF sequence[n].meant # PassedOver THEN sequence[n].meant
                    ELSE sequence[LastParsed(sequence, n)].meant
    IN \A n \in DOMAIN input :
         IF \E m \in 1..n : Unmet(m) THEN parsed[n] = ProcessEnds
         ELSE parsed[n].ok /\ parsed[n].message = meant(n)

(* A command cut before its last argument is refused. *)
CutCommandsAreRefused ==
  codec = "command" =>
    LET sent == Commands[input]
    IN \A n \in 0..Len(sent.body) :
         parse_command_msg(sent.type_id, SubSeq(sent.body, 1, n)).ok
           <=> n >= Len(sent.body) - sent.extra

(* parse_payload, parse_command_msg and the AMF0 readers under them: whole
   messages arrive as they are or, if a parser passes over them, as the one
   before; cut commands do not. *)
MessagesAreRead == ValuesAreConsumed /\ DeliveredAsSent /\ CutCommandsAreRefused

-----------------------------------------------------------------------------
(* A client's reader of the server's chunks, with its state per chunk stream;
   <<>> after the messages stands for bytes it can make nothing of. *)
RECURSIVE ReadChunks(_, _, _, _)
ReadChunks(b, p, size, streams) ==
  IF p > Len(b) THEN <<>>
  ELSE
  LET low == b[p] % 64
      format == b[p] \div 64
      id == CASE low = 0 -> 64 + b[p + 1] [] low = 1 -> 64 + b[p + 1] + 256 * b[p + 2]
              [] OTHER -> low
      h == p + (CASE low = 0 -> 2 [] low = 1 -> 3 [] OTHER -> 1)
      fresh == [timestamp |-> Number(SubSeq(b, h, h + 2)),
                length |-> Number(SubSeq(b, h + 3, h + 5)), type |-> b[h + 6], read |-> <<>>,
                stream |-> IF format = 0 THEN Number(Reverse(SubSeq(b, h + 7, h + 10)))
                           ELSE streams[id].stream]
      old == IF format < 2 THEN fresh ELSE streams[id]
      start == h + (CASE format = 0 -> 11 [] format = 1 -> 7 [] format = 2 -> 3 [] OTHER -> 0)
      missing == old.length - Len(old.read)
      end == start + (IF missing < size THEN missing ELSE size) - 1
      new == [old EXCEPT !.read = old.read \o SubSeq(b, start, end)]
      whole == Len(new.read) = new.length
      next == (id :> IF whole THEN [new EXCEPT !.read = <<>>] ELSE new) @@ streams
  IN IF (format # 0 /\ id \notin DOMAIN streams) \/ start > Len(b) \/ end > Len(b) THEN <<<<>>>>
     ELSE (IF whole THEN <<[id |-> id, timestamp |-> new.timestamp, type |-> new.type,
                            stream |-> new.stream, body |-> new.read]>>
           ELSE <<>>)
            \o ReadChunks(b, end + 1, size, next)
ReadBy(client_size, b) == ReadChunks(b, 1, client_size, [id \in {} |-> 0])

(* Conversations: connect and two more commands on its chunk stream and
   message stream; the chunk sizes end a body on a boundary and off it (no
   control message the server sends is longer than the smallest). *)
Requests ==
  <<Command("connect", Double(1), NoFields), Command("releaseStream", Double(2), <<Name>>),
    Command("FCPublish", Double(3), <<Name>>), Command("createStream", Double(4), <<>>),
    Command("publish", Double(5), <<Name, <<108>>>>), Command("play", Double(6), <<Name>>),
    Command("deleteStream", Double(7), <<500>>), Command("FCUnpublish", Double(8), <<Name>>)>>
Conversations ==
  [then : SeqOf(2..8, 2), id : {3, 64, 319}, stream : {0, 16909060}, size : {11, 15, 128}]
On(c, request) ==
  [kind |-> request.kind, transaction_id |-> request.transaction_id,
   values |-> request.values, chunk_stream_id |-> c.id, msg_stream_id |-> c.stream]
Asked(c) == <<1>> \o c.then
Answers(c) == FlattenSeq([i \in DOMAIN Asked(c) |-> Replies(On(c, Requests[Asked(c)[i]]))])
ClientReads(c) == ReadBy(c.size, Written(Answers(c), c.size))

(* The client reads the messages that were queued, whole and in order. *)
RepliesReadBack ==
  codec = "replies" =>
    LET sent == Answers(input)
    IN ClientReads(input) =
         [i \in DOMAIN sent |-> [id |-> sent[i].chunk_stream_id, timestamp |-> 0,
                                 type |-> sent[i].msg_type_id, stream |-> sent[i].msg_stream_id,
                                 body |-> sent[i].body]]

(* The values of a body behind its name, an integer for each number, and what
   a client must find in the replies to each command. *)
RECURSIVE ValuesFrom(_, _)
ValuesFrom(b, p) ==
  IF p > Len(b) THEN <<>>
  ELSE LET one == consume_any(b, p, 0)
       IN IF one.ok THEN <<IF b[p] = AMF0_NUMBER THEN <<IntegerOf(SubSeq(b, p + 1, p + 8))>>
                           ELSE <<>>>> \o ValuesFrom(b, one.next)
          ELSE <<<<-1>>>>
Told(message) ==
  LET name == read_short_string(message.body, 1)
  IN <<WordOf(name.value)>> \o ValuesFrom(message.body, name.next)
Expected ==
  <<<<<<"_result", <<1>>, <<>>, <<>>>>>>, <<<<"_result", <<2>>, <<>>, <<>>>>>>,
    <<<<"_result", <<3>>, <<>>, <<>>>>, <<"onFCPublish", <<0>>, <<>>, <<>>>>>>,
    <<<<"_result", <<4>>, <<>>, <<3555>>>>>>, <<<<"onStatus", <<5>>, <<>>, <<>>>>>>,
    <<<<"onStatus", <<0>>, <<>>, <<>>>>, <<"onStatus", <<0>>, <<>>, <<>>>>,
      <<"|RtmpSampleAccess", <<>>, <<>>>>, <<"onMetaData", <<>>>>>>,
    <<<<"_result", <<7>>, <<>>, <<500>>>>>>, <<<<"_result", <<8>>, <<>>, <<>>>>>>>>

(* A client finds the results of its commands, each with its transaction id,
   its command object and its information, in the order it asked. *)
ResultsAnswerCommands ==
  codec = "replies" =>
    LET read == SelectSeq(ClientReads(input), LAMBDA m : m.type > 6)
    IN [i \in DOMAIN read |-> Told(read[i])] =
         FlattenSeq([i \in DOMAIN Asked(input) |-> Expected[Asked(input)[i]]])

(* A control message the server writes parses as itself. *)
ControlReadsBack ==
  codec = "control" =>
    LET meant == Payloads[input].meant
        read == ReadBy(128, Written(<<ControlReply(meant.type_id, meant.fields)>>, 128))
    IN /\ Len(read) = 1
       /\ read[1].id = 2 /\ read[1].stream = 0
       /\ parse_control_msg(read[1].type, read[1].body) = [ok |-> TRUE, message |-> meant]

(* What write_message hands to the socket is, to the client, one answer for
   each command, whole, in order and to the point, and each control message
   as it was meant. *)
RepliesAreRead == RepliesReadBack /\ ResultsAnswerCommands /\ ControlReadsBack

-----------------------------------------------------------------------------
(* A hash that is cheap to compute and depends on its data and its key. *)
ToyHash(data, key) ==
  LET n == Cardinality(DOMAIN data)
  IN [i \in 0..31 |-> (data[(i * 47) % n] + (3 * data[((i * 11) + 7) % n]) + (5 * key[0]) + i) % 256]
HS == INSTANCE Handshake WITH Hmac <- ToyHash

(* The bytes an offset is computed from: sums around its modulus, and the
   largest.  A message is filler around the two fields. *)
OffsetBytes == {<<0, 0, 0, 0>>, <<0, 0, 0, 3>>, <<255, 255, 217, 0>>, <<255, 255, 218, 0>>,
                <<255, 255, 255, 255>>}
Random(low, high, filler) ==
  [i \in 0..1535 |-> IF i \in 8..11 THEN low[i - 7]
                     ELSE IF i \in 772..775 THEN high[i - 771]
                     ELSE ((i * filler) + filler) % 256]
Clients == {"zero version", "no digest", "scheme 0", "scheme 1"}
Handshakes == [low : OffsetBytes, high : OffsetBytes, filler : {0, 77}, answer : OffsetBytes,
               client : Clients]

(* What a client of each kind sends: only one that has a digest seals it. *)
ClientTime == [i \in 0..3 |-> 10 + i]
Version(h) == [i \in 0..3 |-> IF h.client = "zero version" THEN 0 ELSE 9 - i]
SchemeOf(h) == CASE h.client = "scheme 0" -> 0 [] h.client = "scheme 1" -> 1
                 [] OTHER -> HS!NO_DIGEST_MODE
C1Of(h) ==
  LET bare == HS!Stamp(Random(h.low, h.high, h.filler), ClientTime, Version(h))
  IN IF SchemeOf(h) = HS!NO_DIGEST_MODE THEN bare ELSE HS!Seal(bare, SchemeOf(h), HS!FP_key)

(* The client's side, by the layout of the scheme it chose: where a digest is,
   and whether what surrounds it hashes to it. *)
Place(buf, scheme) ==
  LET field == IF scheme = 0 THEN 8 ELSE 772
  IN field + 4 + ((buf[field] + buf[field + 1] + buf[field + 2] + buf[field + 3]) % 728)
Found(buf, scheme) == [i \in 0..31 |-> buf[Place(buf, scheme) + i]]
Rest(buf, scheme) ==
  [i \in 0..1503 |-> buf[IF i < Place(buf, scheme) THEN i ELSE i + 32]]
Served32(buf) == [i \in 0..31 |-> buf[1504 + i]]
First1504(buf) == [i \in 0..1503 |-> buf[i]]
OpensWith(buf, time, zero) == \A i \in 0..3 : buf[i] = time[i] /\ (zero => buf[i + 4] = 0)

(* The server sees which scheme the client used; a client with a digest finds
   the server's in S1 and the answer to its own in S2, one without finds its
   time in both and its own bytes in S2. *)
HandshakeVerifies ==
  codec = "handshake" =>
    LET C1 == C1Of(input)
        scheme == SchemeOf(input)
        random == Random(input.answer, input.low, 31)
        now == [i \in 0..3 |-> 200 + i]
        later == [i \in 0..3 |-> 11 + i]
        first == HS!S1(C1, now, random)
        second == HS!S2(C1, later, random)
    IN /\ HS!digest_scheme(C1) = scheme
       /\ IF scheme = HS!NO_DIGEST_MODE
          THEN /\ OpensWith(first, ClientTime, TRUE) /\ OpensWith(second, ClientTime, FALSE)
               /\ \A i \in 8..1535 : second[i] = C1[i]
          ELSE /\ OpensWith(first, now, TRUE)
               /\ Found(first, scheme) = ToyHash(Rest(first, scheme), HS!FMS_key_36)
               /\ Served32(second)
                    = ToyHash(First1504(second), ToyHash(Found(C1, scheme), HS!FMS_key_68))

-----------------------------------------------------------------------------
(* Whatever GenericReader makes of a text (Parse, IterativeParse or
   IterativeParseNext) is what RFC 8259 says it means, and a text it does not
   allow is refused; EncodedInputStream and AutoUTFInputStream hand it the same
   text in every encoding, and Decode and Validate agree on what is one;
   FileReadStream and IStreamWrapper hand it a file whole, whatever the size of
   the buffer, and FileWriteStream writes what it is given. *)
JsonIsRead ==
  /\ TokensAreRead /\ WordsAreRead /\ NumbersAreRead /\ StringsAreRead /\ DocumentsAreRead
  /\ EncodingsAgree /\ StreamsCarryTexts

(* What Writer and PrettyWriter write of a document reads as that document;
   operator== and the edits of members tell documents by what they mean; what
   GenericPointer sets, creates and erases is what its text, in either
   spelling, leads to, and nothing else.  The stacks that hold it while it is read
   and written keep it wherever MemoryPoolAllocator moves them, and GenericValue
   moves and copies it so that no two values share a block. *)
JsonIsKept ==
  /\ TextsAreKept /\ WritersKeepToTheGrammar /\ EqualMeansTheSame /\ EditsAreKept
  /\ PointersAreKept /\ MemoryIsKept /\ ValuesAreStored

(* begin_publish takes the streamer's answer for what it says, and the requests
   say what they are given as long as it needs no escaping. *)
StreamerJsonIsRead == AnswerIsRead /\ NamesAreSent /\ CodecInfoIsSent

-----------------------------------------------------------------------------
Next == \/ Try("aac", AacHeaders)
        \/ Try("avc", AvcHeaders)
        \/ Try("nal", AccessUnits)
        \/ Try("message", Messages)
        \/ Try("base64", Buffers)
        \/ Try("amf0", Values)
        \/ Try("payloads", SeqOf(DOMAIN Payloads, 3))
        \/ Try("command", DOMAIN Commands)
        \/ Try("replies", Conversations)
        \/ Try("control", {i \in DOMAIN Payloads : Payloads[i].meant.kind = "control"})
        \/ Try("handshake", Handshakes)
        \/ Try("json tokens", TokenTexts)
        \/ Try("json words", WordInputs)
        \/ Try("json numbers", NumberInputs)
        \/ Try("json strings", Strings)
        \/ Try("json documents", DocumentInputs)
        \/ Try("json events", EventInputs)
        \/ Try("json pairs", Compared \X Compared)
        \/ Try("json edits", EditInputs)
        \/ Try("json answer", AnswerInputs)
        \/ Try("json request", RequestInputs)
        \/ Try("json init", CodecInfos \X CodecInfos)
        \/ Try("pointer names", NameLists)
        \/ Try("pointer index", Indexes)
        \/ Try("pointer text", PieceInputs)
        \/ Try("pointer set", PathInputs)
        \/ Try("pointer erase", PathInputs)
        \/ Try("encoded text", EncodedInputs)
        \/ Try("encoded units", UnitInputs)
        \/ Try("file", FileInputs)
        \/ Try("written", WriteInputs)
        \/ Try("memory", MemoryInputs)
        \/ Try("storage", StorageInputs)
        \/ Ended
Spec == Init /\ [][Next]_vars
=============================================================================
