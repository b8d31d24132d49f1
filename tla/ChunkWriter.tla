---------------------------- MODULE ChunkWriter ----------------------------
(***************************************************************************)
(* What the server writes: the replies RtmpHandler queues for a command,   *)
(* their bodies (SimpleResult, ConnectResult, OnFCPublish, OnStatus,       *)
(* RtmpSampleAccess, OnMetaData) and the chunks RtmpHeader and RtmpMessage *)
(* put them in.  Texts no reader looks at are one byte long, so the chunk  *)
(* size, 128 in the code, is a parameter.                                  *)
(***************************************************************************)
EXTENDS RtmpMessages

FULL == 0
SAME_STREAM == 1
SAME_LENGTH_AND_STREAM == 2
CONTINUATION == 3

(* RtmpHeader::write_payload; nothing stands for a chunk stream id outside
   2..6559. *)
LittleEndian(n, v) == Reverse(Octets(n, v))
basic_header(format, id) ==
  CASE id \in 2..63 -> <<64 * format + id>>
    [] id \in 64..319 -> <<64 * format, id - 64>>
    [] id \in 320..6559 -> <<64 * format + 1, (id - 64) \div 256, (id - 64) % 256>>
    [] OTHER -> <<>>
write_header(m, length) ==
  LET typed == Octets(3, m.timestamp) \o Octets(3, length) \o <<m.msg_type_id>>
  IN basic_header(m.format_type, m.chunk_stream_id) \o
       CASE m.format_type = FULL -> typed \o LittleEndian(4, m.msg_stream_id)
         [] m.format_type = SAME_STREAM -> typed
         [] m.format_type = SAME_LENGTH_AND_STREAM -> Octets(3, m.timestamp)
         [] m.format_type = CONTINUATION -> <<>>

(* write_payload_with_body: a continuation header before every chunk but the
   first. *)
write_payload_with_body_LastBare(m, size) ==
  LET chunk(k) == SubSeq(m.body, (k - 1) * size + 1, IF k * size < Len(m.body) THEN k * size
                                                     ELSE Len(m.body))
      count == (Len(m.body) + size - 1) \div size
  IN FlattenSeq([k \in 1..count |->
       (IF k \in {1, count} THEN <<>> ELSE basic_header(CONTINUATION, m.chunk_stream_id))
         \o chunk(k)])
write_payload_with_body(m, size) ==
  LET chunk(k) == SubSeq(m.body, (k - 1) * size + 1, IF k * size < Len(m.body) THEN k * size
                                                     ELSE Len(m.body))
  IN FlattenSeq([k \in 1..((Len(m.body) + size - 1) \div size) |->
       (IF k = 1 THEN <<>> ELSE basic_header(CONTINUATION, m.chunk_stream_id)) \o chunk(k)])

(* CommandMessage, DataMessage and ControlMessage::write_payload: a control
   message is not divided and announces the length its constructor set. *)
control_length_NoEvent(m) == Total(FieldSizes(m.msg_type_id, 0))
control_length(m) == Total(FieldSizes(m.msg_type_id, Number(SubSeq(m.body, 1, 2))))
write_payload(m, size) ==
  IF m.msg_type_id \in 1..6
  THEN write_header(m, control_length(m)) \o m.body
  ELSE write_header(m, Len(m.body)) \o write_payload_with_body(m, size)

-----------------------------------------------------------------------------
(* Bodies. *)
Object(properties) ==
  <<AMF0_OBJECT>>
    \o FlattenSeq([i \in DOMAIN properties |-> write_object_key(Text(properties[i][1]))
                                                 \o properties[i][2]])
    \o write_end_of_object
Word(word) == write_short_string(Text(word))
SimpleResult(transaction_id, second_object) ==
  Word("_result") \o write_number(transaction_id) \o write_null
    \o (IF second_object = <<>> THEN write_null ELSE write_number(second_object))
ConnectResult(transaction_id, object_encoding) ==
  Word("_result") \o write_number(transaction_id)
    \o Object(<<<<"fmsVer", Word("status")>>, <<"capabilities", write_number(Double(31))>>>>)
    \o Object(<<<<"level", Word("status")>>, <<"code", Word("status")>>,
                <<"description", Word("status")>>,
                <<"objectEncoding", write_number(object_encoding)>>>>)
OnFCPublish(transaction_id, stream_name) ==
  Word("onFCPublish") \o write_number(transaction_id) \o write_null
    \o Object(<<<<"code", Word("status")>>, <<"description", write_short_string(stream_name)>>>>)
OnStatus(transaction_id) ==
  Word("onStatus") \o write_number(transaction_id) \o write_null
    \o Object(<<<<"level", Word("status")>>, <<"code", Word("status")>>,
                <<"description", Word("status")>>>>)
RtmpSampleAccess == Word("|RtmpSampleAccess") \o write_boolean(FALSE) \o write_boolean(FALSE)

(* write_payload_detail: a property per entry, text (t) or number (n). *)
MetaDataDetail ==
  <<"t", "n", "n", "n", "t", "t", "t", "n", "n", "t", "n", "n", "t", "n", "n", "t", "t", "t",
    "t", "t", "n", "t", "n">>
OnMetaData ==
  Word("onMetaData")
    \o Object([i \in DOMAIN MetaDataDetail |->
                 <<"description", IF MetaDataDetail[i] = "n" THEN write_number(Double(i))
                                  ELSE write_short_string(IF i % 3 = 0 THEN <<>> ELSE <<i>>)>>])

-----------------------------------------------------------------------------
(* The handlers of RtmpHandler.cpp: the replies queued for a request. *)
DEFAULT_WIN_ACK_SIZE == 5000000
NEW_STREAM_ID == 3555
Message(format, chunk_stream_id, msg_stream_id, msg_type_id, body) ==
  [format_type |-> format, chunk_stream_id |-> chunk_stream_id, timestamp |-> 0,
   msg_stream_id |-> msg_stream_id, msg_type_id |-> msg_type_id, body |-> body]
ControlReply(type_id, fields) == Message(FULL, 2, 0, type_id, write_control(type_id, fields))
Answer(r, body) == Message(SAME_STREAM, r.chunk_stream_id, r.msg_stream_id, COMMAND_AMF0, body)

handle_connect_message(r) ==
  <<ControlReply(WINACKSIZE, <<DEFAULT_WIN_ACK_SIZE>>),
    ControlReply(PEERBANDWIDTH, <<DEFAULT_WIN_ACK_SIZE, 2>>),
    ControlReply(USRCTRL, <<0, 0>>),
    Message(FULL, r.chunk_stream_id, r.msg_stream_id, COMMAND_AMF0,
            ConnectResult(r.transaction_id, Double(3)))>>
handle_fc_publish(r) ==
  <<Answer(r, SimpleResult(r.transaction_id, <<>>)),
    Answer(r, OnFCPublish(Double(0), r.values[1]))>>
handle_publish(r) == <<Message(FULL, 5, 1, COMMAND_AMF0, OnStatus(r.transaction_id))>>
handle_play(r) ==
  LET full(type_id, body) == Message(FULL, 20, 1, type_id, body)
  IN <<ControlReply(USRCTRL, <<0, 1>>),
       full(COMMAND_AMF0, OnStatus(Double(0))), full(COMMAND_AMF0, OnStatus(Double(0))),
       full(DATA_AMF0, RtmpSampleAccess), full(DATA_AMF0, OnMetaData)>>
Replies(r) ==
  CASE r.kind = "connect" -> handle_connect_message(r)
    [] r.kind \in {"releaseStream", "FCUnpublish"} ->
         <<Answer(r, SimpleResult(r.transaction_id, <<>>))>>
    [] r.kind = "FCPublish" -> handle_fc_publish(r)
    [] r.kind = "createStream" ->
         <<Answer(r, SimpleResult(r.transaction_id, Double(NEW_STREAM_ID)))>>
    [] r.kind = "deleteStream" ->
         <<Answer(r, SimpleResult(r.transaction_id, Double(r.values[1])))>>
    [] r.kind = "publish" -> handle_publish(r)
    [] r.kind = "play" -> handle_play(r)
Written(messages, size) == FlattenSeq([i \in DOMAIN messages |-> write_payload(messages[i], size)])
=============================================================================
