---------------------------- MODULE RtmpMessages ----------------------------
(***************************************************************************)
(* Message payloads: CommandMsgParser, ControlMsgParser, DataMsgParser,    *)
(* MediaMsgParser and the dispatch of RtmpPayloadParser, with the writers  *)
(* of the control messages.  The words of the protocol are one byte long,  *)
(* their number in Words; a word no parser knows is any other text.        *)
(***************************************************************************)
EXTENDS Amf0

Served == <<"connect", "releaseStream", "FCPublish", "FCUnpublish", "createStream",
            "publish", "play", "deleteStream">>
Unserved == <<"checkBandwidth", "close", "closeStream", "_error", "FCSubscribe",
              "getStreamLength", "onBWCheck", "onBWDone", "onStatus", "pause", "pauseRaw",
              "_result", "seek", "OnMetaData">>
ConnectFields == <<"app", "flashVer", "tcUrl", "fpad", "capabilities", "audioCodecs",
                   "videoCodecs", "videoFunction", "objectEncoding", "swfUrl", "pageUrl">>
Others == <<"@setDataFrame", "onMetaData", "onFCPublish", "|RtmpSampleAccess", "fmsVer", "level",
            "code", "description", "status">>
Words == Served \o Unserved \o ConnectFields \o Others
Text(word) == <<CHOOSE i \in DOMAIN Words : Words[i] = word>>
WordOf(text) == IF Len(text) = 1 /\ text[1] \in DOMAIN Words THEN Words[text[1]] ELSE "unknown"

(* A double's eight bytes for an integer below 2^20, and the integer a cast
   makes of a double in that range: its fraction is dropped. *)
Double(n) ==
  LET e == CHOOSE i \in 0..19 : 2^i <= n /\ n < 2^(i + 1)
  IN IF n = 0 THEN [i \in 1..8 |-> 0]
     ELSE Octets(4, (1023 + e) * 2^20 + (n - 2^e) * 2^(20 - e)) \o <<0, 0, 0, 0>>
IntegerOf(d) ==
  LET high == Number(SubSeq(d, 1, 4))
      e == (high \div 2^20) - 1023
  IN IF e < 0 THEN 0 ELSE 2^e + ((high % 2^20) \div 2^(20 - e))

-----------------------------------------------------------------------------
(* Commands: what follows the name and the transaction id. *)
COMMAND_AMF0 == 20
COMMAND_AMF3 == 17

Parameters ==
  [releaseStream |-> <<"null", "string">>, FCPublish |-> <<"null", "string">>,
   FCUnpublish |-> <<"null", "string">>, createStream |-> <<"null">>,
   publish |-> <<"null", "string", "string">>, play |-> <<"null", "string">>,
   deleteStream |-> <<"null", "number">>]
read_parameter(kind, b, p) ==
  CASE kind = "null" -> read_null(b, p)
    [] kind = "string" -> read_short_string(b, p)
    [] kind = "number" ->
         After(read_number(b, p), LAMBDA at : Took(at.next, IntegerOf(at.value)))
    [] kind = "boolean" -> read_boolean(b, p)
read_parameters(kinds, b, p) ==
  FoldLeft(LAMBDA before, kind :
             After(before, LAMBDA at :
               After(read_parameter(kind, b, at.next), LAMBDA one :
                 Took(one.next, IF kind = "null" THEN at.value ELSE Append(at.value, one.value)))),
           Took(p, <<>>), kinds)

(* parse_connect_msg: the fields of the object, in any order; the value of a
   field it has no use for is consumed, the last of two equal keys wins. *)
FieldKind(key) ==
  CASE key \in {"app", "flashVer", "tcUrl"} -> "string"
    [] key = "fpad" -> "boolean"
    [] key \in {"capabilities", "audioCodecs", "videoCodecs", "videoFunction",
                "objectEncoding"} -> "number"
    [] OTHER -> "ignored"
NoFields == [key \in {} |-> 0]
ConnectField(name, b, p) ==
  IF FieldKind(name) = "ignored"
  THEN After(consume_any(b, p, 0), LAMBDA at : Took(at.next, NoFields))
  ELSE After(read_parameter(FieldKind(name), b, p), LAMBDA at : Took(at.next, name :> at.value))
parse_connect_msg(b, p) ==
  LET fields[q \in 1..(Len(b) + 1)] ==
        IF Left(b, q) < 3 THEN Failed(q)
        ELSE IF is_end_of_object(b, q) THEN Took(q + 3, NoFields)
        ELSE After(read_key(b, q), LAMBDA key :
               After(ConnectField(WordOf(key.value), b, key.next), LAMBDA one :
                 After(fields[one.next], LAMBDA rest :
                   Took(rest.next, rest.value @@ one.value))))
  IN IF Left(b, p) < 1 \/ b[p] # AMF0_OBJECT THEN Failed(p) ELSE fields[p + 1]

(* parse_command_msg: a name get_type knows and the switch does not serve
   fails; one it does not know is consumed whole. *)
Command(name, transaction_id, values) ==
  [kind |-> name, transaction_id |-> transaction_id, values |-> values]
CommandBody(name, b, p) ==
  CASE name = "connect" -> parse_connect_msg(b, p)
    [] name \in DOMAIN Parameters -> read_parameters(Parameters[name], b, p)
    [] name \in ToSet(Unserved) -> Failed(p)
    [] OTHER -> After(consume_full(b, p, 0), LAMBDA at : Took(at.next, <<>>))
parse_command_msg(type_id, b) ==
  After(read_short_string(b, IF type_id = COMMAND_AMF3 THEN 2 ELSE 1), LAMBDA command :
    After(read_number(b, command.next), LAMBDA transaction :
      After(CommandBody(WordOf(command.value), b, transaction.next), LAMBDA body :
        LET name == WordOf(command.value)
        IN [ok |-> TRUE,
            message |-> Command(IF name \in ToSet(Served) THEN name ELSE "unknown",
                                transaction.value, body.value)])))

-----------------------------------------------------------------------------
(* Control messages: big-endian fields of fixed sizes; a user control message
   starts with its event type. *)
CHUNKSIZE == 1
ABORTMESSAGE == 2
ACK == 3
USRCTRL == 4
WINACKSIZE == 5
PEERBANDWIDTH == 6
SET_BUFFER_LENGTH == 3
EventTypes == 0..7 \ {5}
LimitTypes == 0..2

FieldSizes(type_id, event) ==
  CASE type_id \in {CHUNKSIZE, ABORTMESSAGE, ACK, WINACKSIZE} -> <<4>>
    [] type_id = PEERBANDWIDTH -> <<4, 1>>
    [] type_id = USRCTRL -> IF event = SET_BUFFER_LENGTH THEN <<2, 4, 4>> ELSE <<2, 4>>
Total(sizes) == FoldLeft(+, 0, sizes)
FieldsOf(b, sizes) ==
  [i \in DOMAIN sizes |-> LET start == Total(SubSeq(sizes, 1, i - 1))
                          IN Number(SubSeq(b, start + 1, start + sizes[i]))]
Control(type_id, fields) == [kind |-> "control", type_id |-> type_id, fields |-> fields]
parse_control_msg(type_id, b) ==
  LET event == Number(SubSeq(b, 1, 2))
      sizes == FieldSizes(type_id, event)
      fields == FieldsOf(b, sizes)
  IN IF \/ type_id = USRCTRL /\ (Len(b) < 2 \/ event \notin EventTypes)
        \/ Len(b) < Total(sizes)
        \/ type_id = PEERBANDWIDTH /\ fields[2] \notin LimitTypes
     THEN Refused
     ELSE [ok |-> TRUE, message |-> Control(type_id, fields)]

(* ControlMessage::write_payload behind its header. *)
write_control(type_id, fields) ==
  LET sizes == FieldSizes(type_id, fields[1])
  IN FlattenSeq([i \in DOMAIN sizes |-> Octets(sizes[i], fields[i])])

-----------------------------------------------------------------------------
(* Data and media messages. *)
AUDIODATA == 8
VIDEODATA == 9
DATA_AMF3 == 15
DATA_AMF0 == 18

(* What is handed on is called: set_header, to_string and get_class_name of a
   message a parser does not have end the process. *)
NoMessage == [kind |-> "none"]
ProcessEnds == [ok |-> FALSE, ends |-> TRUE]
HandOn(message) ==
  IF message = NoMessage THEN ProcessEnds ELSE [ok |-> TRUE, message |-> message]

(* parse_data_msg: "@setDataFrame" is consumed and becomes an UnknownMessage;
   after any other name the parser's previous message is handed on again. *)
DataFrame == [kind |-> "unknown message"]
parse_data_msg(previous, b) ==
  After(read_short_string(b, 1), LAMBDA command :
    IF WordOf(command.value) # "@setDataFrame" THEN HandOn(previous)
    ELSE After(consume_full(b, command.next, 0), LAMBDA at : [ok |-> TRUE, message |-> DataFrame]))
Media(type_id, b) ==
  [kind |-> IF type_id = VIDEODATA THEN "video" ELSE "audio", data |-> b]

(* The end of RtmpPayloadParser::parse_payload.  Each parser keeps the last
   message it parsed; the result of a control parse is not looked at, so that
   a control message that does not parse hands on the one before it. *)
NoneParsed == [control |-> NoMessage, data |-> NoMessage]
Dispatch(parsers, type_id, b, kept) ==
  LET Keeping(message) == [ok |-> TRUE, message |-> message, parsers |-> parsers]
  IN CASE type_id \in 1..6 ->
            After(HandOn(kept), LAMBDA one :
              [ok |-> TRUE, message |-> kept, parsers |-> [parsers EXCEPT !.control = kept]])
       [] type_id \in {COMMAND_AMF0, COMMAND_AMF3} ->
            After(parse_command_msg(type_id, b), LAMBDA parsed : Keeping(parsed.message))
       [] type_id \in {DATA_AMF0, DATA_AMF3} ->
            After(parse_data_msg(parsers.data, b), LAMBDA parsed :
              [ok |-> TRUE, message |-> parsed.message,
               parsers |-> [parsers EXCEPT !.data = parsed.message]])
       [] type_id \in {AUDIODATA, VIDEODATA} -> Keeping(Media(type_id, b))
       [] OTHER -> Keeping(DataFrame)

parse_payload_OneParser(parsers, type_id, b) ==
  LET control == parse_control_msg(type_id, b)
      kept == IF control.ok THEN control.message ELSE parsers.data
  IN Dispatch(parsers, type_id, b, kept)

parse_payload(parsers, type_id, b) ==
  LET control == parse_control_msg(type_id, b)
      kept == IF control.ok THEN control.message ELSE parsers.control
  IN Dispatch(parsers, type_id, b, kept)
=============================================================================
