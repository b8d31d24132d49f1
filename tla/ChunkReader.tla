---------------------------- MODULE ChunkReader -----------------------------
(***************************************************************************)
(* The reading side of a connection: the RTMP client writes messages as    *)
(* interleaved chunks, TCP delivers the bytes in arbitrary pieces, and     *)
(* handle_read feeds them to RtmpParser, whose header and payload parsers  *)
(* keep what is incomplete between two reads.                              *)
(*                                                                         *)
(* A unit of the byte stream is a field the parser takes at once: a basic  *)
(* header, the 11, 7 or 3 bytes of a chunk message header, an extended     *)
(* timestamp, or one byte of payload (which names the message it belongs   *)
(* to, for the properties).  A field that arrived in part is a field that  *)
(* has not arrived: the parser leaves it in the buffer.                    *)
(***************************************************************************)
EXTENDS SerialNumber, Sequences, SequencesExt, FiniteSetsExt

CONSTANTS
    MediaStreams,       \* chunk stream ids of audio and video
    ControlStream,      \* chunk stream id of protocol control messages
    MediaKinds,         \* message types sent on the media streams
    ChunkSizes,         \* chunk sizes the client changes to
    Windows,            \* acknowledgement windows the client asks for
    Lengths,            \* payload lengths of media messages
    ControlLength,      \* payload length of a control message
    StartTimes,         \* timestamp of the first message of a media stream
    Deltas,             \* time between two messages of a media stream
    MaxMessages,        \* bound: messages the client sends
    DefaultChunkSize,   \* recv_chunk_size_ before any SetChunkSize
    DefaultWindow,      \* DEFAULT_WIN_ACK_SIZE
    ExtendedMark,       \* 0xFFFFFF
    PeerEpoch,          \* context_->peer_epoch_timestamp_: the time of the client's C1
    SplitChunks,        \* TCP delivers a chunk in several reads
    ReuseFullDelta      \* the client sends type 3 for a message after type 0

ChunkStreams == MediaStreams \cup {ControlStream}

ASSUME ParameterAssumption ==
    /\ ControlStream \notin MediaStreams
    /\ {MaxMessages, ExtendedMark} \cup Lengths \cup StartTimes \cup Deltas \subseteq Nat
    /\ {ControlLength, DefaultChunkSize, DefaultWindow} \cup ChunkSizes \cup Windows
            \subseteq Nat \ {0}
    /\ Deltas \cup {PeerEpoch} \subseteq Numbers
    /\ MediaKinds \cap {"SetChunkSize", "WindowAcknowledgementSize"} = {}
    /\ {SplitChunks, ReuseFullDelta} \subseteq BOOLEAN

\* RtmpHeaderFormat
FULL == 0
SAME_STREAM == 1
SAME_LENGTH_AND_STREAM == 2
CONTINUATION == 3

VARIABLES
    \* the client and the network (external)
    sent,           \* every message begun, in order
    completed,      \* indices of the messages written to their last chunk
    written,        \* payload written of the open message of a chunk stream
    send_chunk_size,\* the client's chunk size
    network,        \* units on their way
    \* Connection
    buffer,         \* request_streambuf_
    pc,             \* reading: async_read_some pending; parsing; closed
    delivered,      \* messages given to handle_request
    \* RtmpParser
    parsing_state,  \* HEADER_PARSING or PAYLOAD_PARSING
    ack,            \* readed_bytes_count_, win_ack_size_, next_ack_send_size_
    counting,       \* the readed sizes of this parse and this parse_header
    unacked,        \* history: bytes taken since the last Acknowledgement
    \* RtmpHeaderParser
    field,          \* parsing_state_: the field that comes next
    header,         \* parsed_msg_, one for all chunk streams
    \* RtmpPayloadParser and the context
    incomplete,     \* incomplete_infos_
    channels,       \* channels_
    recv_chunk_size,            \* recv_chunk_size_
    last_message_timestamp,     \* context_->last_message_timestamp_
    rollover_count              \* context_->rollover_count_

clientVars == <<sent, completed, written, send_chunk_size>>
headerVars == <<field, header>>
payloadVars == <<incomplete, channels, recv_chunk_size,
                 last_message_timestamp, rollover_count>>
vars == <<clientVars, network, buffer, pc, delivered, parsing_state, ack,
          counting, unacked, headerVars, payloadVars>>

-----------------------------------------------------------------------------
(* The client. *)

\* The last message begun on a chunk stream, 0 if there is none.
Previous(cs) ==
    SelectLastInSeq(sent, LAMBDA m : m.cs = cs)

IsOpen(cs) == Previous(cs) # 0 /\ ~ Contains(completed, Previous(cs))

\* The timestamp field of a message's first chunk.
Stamp(m) == IF m.fmt = FULL THEN serialnumber(m.time) ELSE m.delta

MessageHeader(m) ==
    LET message == [field |-> "message", bytes |-> <<11, 7, 3>>[m.fmt + 1],
                    timestamp |-> Min({Stamp(m), ExtendedMark}),
                    length |-> m.length, kind |-> m.kind, sid |-> m.sid]
        extended == [field |-> "extended", bytes |-> 4, timestamp |-> Stamp(m)]
    IN  IF m.fmt = CONTINUATION THEN <<>>
        ELSE IF Stamp(m) < ExtendedMark THEN <<message>>
        ELSE <<message, extended>>

\* Payload bytes from the one after `from` to `to` of message i.
Payload(i, from, to) ==
    [n \in 1 .. to - from |-> [field |-> "data", bytes |-> 1, msg |-> i, at |-> from + n]]

\* The chunk of message m that starts after `from` bytes of its payload.
Chunk(i, m, from, to) ==
    LET fmt == IF from = 0 THEN m.fmt ELSE CONTINUATION
    IN  <<[field |-> "basic", bytes |-> 1, fmt |-> fmt, cs |-> m.cs]>>
        \o (IF from = 0 THEN MessageHeader(m) ELSE <<>>)
        \o Payload(i, from, to)

\* The client writes the next chunk of message m, the i-th it began.
WriteChunk(i, m, from) ==
    LET to == Min({from + send_chunk_size, m.length})
    IN  /\ network' = network \o Chunk(i, m, from, to)
        /\ written' = [written EXCEPT ![m.cs] = to]
        /\ IF to = m.length
           THEN /\ completed' = Append(completed, i)
                /\ send_chunk_size' = IF m.kind = "SetChunkSize" THEN m.value
                                      ELSE send_chunk_size
           ELSE UNCHANGED <<completed, send_chunk_size>>

\* Which header types may begin message m after message p of its chunk stream.
MayFollow(m, p) ==
    \/ m.fmt = FULL
    \/ /\ m.fmt # FULL
       /\ m.fmt # SAME_STREAM => m.length = p.length /\ m.kind = p.kind
       /\ m.fmt = CONTINUATION =>
            /\ m.delta = IF p.fmt = FULL THEN p.time ELSE p.delta
            /\ p.fmt = FULL => ReuseFullDelta

Begin(m) ==
    /\ Len(sent) < MaxMessages
    /\ ~ IsOpen(m.cs)
    /\ sent' = Append(sent, m)
    /\ WriteChunk(Len(sent) + 1, m, 0)
    /\ UNCHANGED <<buffer, pc, delivered, parsing_state, ack, counting, unacked,
                   headerVars, payloadVars>>

BeginFirstMedia ==
    \E cs \in MediaStreams, kind \in MediaKinds, length \in Lengths, time \in StartTimes :
        /\ Previous(cs) = 0
        /\ Begin([cs |-> cs, fmt |-> FULL, kind |-> kind, length |-> length,
                  value |-> 0, time |-> time, delta |-> 0, sid |-> 1])

BeginMedia ==
    \E cs \in MediaStreams, kind \in MediaKinds, length \in Lengths, delta \in Deltas,
       fmt \in {FULL, SAME_STREAM, SAME_LENGTH_AND_STREAM, CONTINUATION} :
        /\ Previous(cs) # 0
        /\ LET p == sent[Previous(cs)]
               m == [cs |-> cs, fmt |-> fmt, kind |-> kind, length |-> length,
                     value |-> 0, time |-> p.time + delta, delta |-> delta, sid |-> 1]
           IN  MayFollow(m, p) /\ Begin(m)

\* Control messages are sent with a full header, timestamp 0 and stream id 0.
Control(kind, value) ==
    [cs |-> ControlStream, fmt |-> FULL, kind |-> kind, length |-> ControlLength,
     value |-> value, time |-> 0, delta |-> 0, sid |-> 0]

BeginControl ==
    \/ \E size \in ChunkSizes : Begin(Control("SetChunkSize", size))
    \/ \E size \in Windows : Begin(Control("WindowAcknowledgementSize", size))

ContinueMessage ==
    \E cs \in ChunkStreams :
        /\ IsOpen(cs)
        /\ LET i == Previous(cs)
           IN  WriteChunk(i, sent[i], written[cs])
        /\ UNCHANGED <<sent, buffer, pc, delivered, parsing_state, ack, counting,
                       unacked, headerVars, payloadVars>>

\* What the client writes while the server parses arrives no sooner than the
\* next read, so its writes are taken to happen between two parses.
Client ==
    /\ pc = "reading"
    /\ BeginFirstMedia \/ BeginMedia \/ BeginControl \/ ContinueMessage

-----------------------------------------------------------------------------
(* handle_read and RtmpParser::parse. *)

\* How much of what is on its way may arrive at once.
Pieces ==
    {n \in 1 .. Len(network) :
        SplitChunks \/ n = Len(network) \/ network[n + 1].field = "basic"}

\* async_read_some completes with some of the bytes on their way.
handle_read ==
    /\ pc = "reading"
    /\ \E n \in Pieces :
        /\ buffer' = buffer \o SubSeq(network, 1, n)
        /\ network' = SubSeq(network, n + 1, Len(network))
    /\ pc' = "parsing"
    /\ UNCHANGED <<clientVars, delivered, parsing_state, ack, counting, unacked,
                   headerVars, payloadVars>>

\* parse takes n units off the stream.
Take(n) == buffer' = SubSeq(buffer, n + 1, Len(buffer))

set_win_ack_size_KeepsNext(a, size) == [a EXCEPT !.win_ack_size = size]

\* set_win_ack_size
set_win_ack_size(a, size) ==
    [a EXCEPT !.win_ack_size = size,
              !.next_ack_send_size = @ - a.win_ack_size + size]

\* parse returns, having counted total_readed_size = n bytes; a is the state of
\* the counters at that point and taken the bytes taken off the stream by now.
Return(a, n, taken) ==
    LET total == a.readed_bytes_count + n
        due == n > 0 /\ total >= a.next_ack_send_size
    IN  /\ ack' = [a EXCEPT !.readed_bytes_count = total,
                            !.next_ack_send_size = IF due THEN total + a.win_ack_size ELSE @]
        /\ unacked' = IF due THEN 0 ELSE taken
        /\ counting' = [parse |-> 0, parse_header |-> 0]

\* parse returns indeterminate: a header field is missing, or the buffer is
\* empty.  The bytes of an unfinished header are not in total_readed_size.
NeedsMore ==
    /\ pc = "parsing"
    /\ buffer = <<>>
    /\ pc' = "reading"
    /\ Return(ack, counting.parse, unacked)
    /\ UNCHANGED <<clientVars, network, buffer, delivered, parsing_state,
                   headerVars, payloadVars>>

\* parse returns false: handle_read disconnects and reads no more.
Fails(taken) ==
    /\ pc' = "closed"
    /\ Return(ack, counting.parse, unacked + taken)

-----------------------------------------------------------------------------
(* RtmpHeaderParser. *)

AtField(f) ==
    /\ pc = "parsing" /\ parsing_state = "header" /\ field = f
    /\ buffer # <<>>

NextField_KeepsComplete(n, f) ==
    /\ Take(1)
    /\ unacked' = unacked + n
    /\ field' = f
    /\ parsing_state' = IF f = "complete" THEN "payload" ELSE parsing_state
    /\ counting' = [counting EXCEPT !.parse = @ + n]
    /\ UNCHANGED <<clientVars, network, pc, delivered, ack, payloadVars>>

\* A field of n bytes is taken and f comes next; COMPLETE ends parse_header.
NextField(n, f) ==
    /\ Take(1)
    /\ unacked' = unacked + n
    /\ IF f = "complete"
       THEN /\ field' = "basic"
            /\ parsing_state' = "payload"
            /\ counting' = [parse |-> counting.parse + counting.parse_header + n,
                            parse_header |-> 0]
       ELSE /\ field' = f
            /\ counting' = [counting EXCEPT !.parse_header = @ + n]
            /\ UNCHANGED parsing_state
    /\ UNCHANGED <<clientVars, network, pc, delivered, ack, payloadVars>>

\* One byte gives the format and the chunk stream id.
parse_basic_header_1byte ==
    /\ AtField("basic")
    /\ header' = [header EXCEPT !.format_type = Head(buffer).fmt,
                                !.chunk_stream_id = Head(buffer).cs]
    /\ NextField(1, IF Head(buffer).fmt = CONTINUATION THEN "complete" ELSE "message")

\* The fields of types 0, 1 and 2; the others keep what an earlier chunk left.
HeaderFrom(u) ==
    CASE header.format_type = FULL ->
            [header EXCEPT !.timestamp = u.timestamp, !.msg_length = u.length,
                           !.msg_type_id = u.kind, !.msg_stream_id = u.sid]
      [] header.format_type = SAME_STREAM ->
            [header EXCEPT !.timestamp_delta = u.timestamp, !.msg_length = u.length,
                           !.msg_type_id = u.kind]
      [] header.format_type = SAME_LENGTH_AND_STREAM ->
            [header EXCEPT !.timestamp_delta = u.timestamp]

\* get_id knows the message type; a type 2 header has none to check.
Known(u) == header.format_type = SAME_LENGTH_AND_STREAM \/ u.kind # "unassigned"

\* parse_chunk_header_type0, _type1 and _type2.
parse_chunk_header ==
    /\ AtField("message")
    /\ LET u == Head(buffer)
       IN  /\ Known(u)
           /\ header' = HeaderFrom(u)
           /\ NextField(u.bytes,
                  IF u.timestamp = ExtendedMark THEN "extended" ELSE "complete")

\* A message type the program does not know.
UnknownType ==
    /\ AtField("message")
    /\ LET u == Head(buffer)
       IN  /\ ~ Known(u)
           /\ header' = HeaderFrom(u)
           /\ field' = IF u.timestamp = ExtendedMark THEN "extended" ELSE "basic"
           /\ Take(1)
           /\ Fails(u.bytes)
    /\ UNCHANGED <<clientVars, network, delivered, parsing_state, payloadVars>>

parse_extended_timestamp ==
    /\ AtField("extended")
    /\ header' = IF header.format_type = FULL
                 THEN [header EXCEPT !.timestamp = Head(buffer).timestamp]
                 ELSE [header EXCEPT !.timestamp_delta = Head(buffer).timestamp]
    /\ NextField(4, "complete")

-----------------------------------------------------------------------------
(* RtmpPayloadParser::parse_payload. *)

AtPayload == pc = "parsing" /\ parsing_state = "payload" /\ buffer # <<>>

Cs == header.chunk_stream_id

Fresh == Cs \notin DOMAIN incomplete

StepDelta_OfHeader == header.timestamp_delta

\* The step of a type 1, 2 or 3 message.
StepDelta ==
    IF header.format_type = CONTINUATION THEN channels[Cs].last_msg_timestamp_delta
    ELSE header.timestamp_delta

\* The point of the circle the message of a fresh chunk is at.
Number ==
    IF header.format_type = FULL THEN header.timestamp
    ELSE add(channels[Cs].last_msg_timestamp, StepDelta)

\* A fresh chunk advances the rollover count, from the last message of any chunk
\* stream if it is full, else from the last one of its own.
Count ==
    counted(IF header.format_type = FULL THEN last_message_timestamp
            ELSE channels[Cs].last_msg_timestamp,
            Number, rollover_count)

Channel_LengthOfHeader ==
    [last_msg_len |-> header.msg_length, last_msg_type_id |-> header.msg_type_id,
     last_msg_timestamp |-> Number, last_msg_timestamp_delta |-> header.timestamp_delta]

\* What is remembered of a fresh chunk, in channels_ and in the message's header.
Channel ==
    LET c == channels[Cs]
        full == header.format_type \in {FULL, SAME_STREAM}
    IN  [last_msg_len |-> IF full THEN header.msg_length ELSE c.last_msg_len,
         last_msg_type_id |-> IF full THEN header.msg_type_id ELSE c.last_msg_type_id,
         last_msg_timestamp |-> Number,
         last_msg_timestamp_delta |->
            IF header.format_type = CONTINUATION THEN c.last_msg_timestamp_delta
            ELSE header.timestamp_delta]

\* The entry of the message a chunk belongs to.
Info ==
    IF Fresh
    THEN [kind |-> Channel.last_msg_type_id, msg_length |-> Channel.last_msg_len,
          timestamp |-> Number, abs_timestamp |-> unroll(Number, Count),
          msg_stream_id |-> header.msg_stream_id, recv_buf |-> <<>>]
    ELSE incomplete[Cs]

\* sna::add throws for a delta of half the circle or more.
Throws == Fresh /\ header.format_type # FULL /\ ~ addable(StepDelta)

\* A fresh chunk changes the channel before the payload is even looked at.
Remember ==
    IF Fresh
    THEN /\ channels' = [channels EXCEPT ![Cs] = Channel]
         /\ last_message_timestamp' = Number
         /\ rollover_count' = Count
    ELSE UNCHANGED <<channels, last_message_timestamp, rollover_count>>

need_size == Info.msg_length - Len(Info.recv_buf)

this_msg_size_Default == Min({need_size, DefaultChunkSize})

this_msg_size == Min({need_size, recv_chunk_size})

Extended_Overwrites == [Info EXCEPT !.recv_buf = SubSeq(buffer, 1, this_msg_size)]

\* The message with the payload this chunk brings.
Extended == [Info EXCEPT !.recv_buf = @ \o SubSeq(buffer, 1, this_msg_size)]

\* WAITING_MORE_PAYLOAD_DATA: what arrived stays in the buffer, and a fresh
\* message is not put into incomplete_infos_.
AwaitPayload ==
    /\ AtPayload /\ ~ Throws
    /\ Len(buffer) < this_msg_size
    /\ Remember
    /\ pc' = "reading"
    /\ Return(ack, counting.parse, unacked)
    /\ UNCHANGED <<clientVars, network, buffer, delivered, parsing_state, headerVars,
                   incomplete, recv_chunk_size>>

\* WAITING_NEXT_CHUNK
TakePart ==
    /\ AtPayload /\ ~ Throws
    /\ Len(buffer) >= this_msg_size
    /\ this_msg_size < need_size
    /\ Remember
    /\ incomplete' = [cs \in DOMAIN incomplete \cup {Cs} |->
                       IF cs = Cs THEN Extended ELSE incomplete[cs]]
    /\ Take(this_msg_size)
    /\ unacked' = unacked + this_msg_size
    /\ counting' = [counting EXCEPT !.parse = @ + this_msg_size]
    /\ parsing_state' = "header"
    /\ UNCHANGED <<clientVars, network, pc, delivered, ack, headerVars,
                   recv_chunk_size>>

TakesLast ==
    /\ AtPayload /\ ~ Throws
    /\ Len(buffer) >= this_msg_size
    /\ this_msg_size = need_size
    /\ Remember
    /\ Take(this_msg_size)

\* The value a control message carries.
Value(m) == sent[Head(m.recv_buf).msg].value

\* handle_read after a message: it parses the rest of what was read, or reads.
ReadOrParse_Reads(rest) == "reading"

ReadOrParse(rest) == IF rest = <<>> THEN "reading" ELSE "parsing"

\* COMPLETE: parse returns true and handle_read gives the message to the handler.
CompleteMessage ==
    /\ TakesLast
    /\ Extended.kind # "malformed"
    /\ incomplete' = Restrict(incomplete, DOMAIN incomplete \ {Cs})
    /\ delivered' = Append(delivered, Extended)
    /\ recv_chunk_size' = IF Extended.kind = "SetChunkSize" THEN Value(Extended)
                          ELSE recv_chunk_size
    /\ Return(IF Extended.kind = "WindowAcknowledgementSize"
              THEN set_win_ack_size(ack, Value(Extended)) ELSE ack,
              counting.parse + this_msg_size, unacked + this_msg_size)
    /\ parsing_state' = "header"
    /\ pc' = ReadOrParse(buffer')
    /\ UNCHANGED <<clientVars, network, headerVars>>

\* FAIL: a command or data message whose payload does not parse.
MalformedPayload ==
    /\ TakesLast
    /\ Extended.kind = "malformed"
    /\ Fails(this_msg_size)
    /\ UNCHANGED <<clientVars, network, delivered, parsing_state, headerVars,
                   incomplete, recv_chunk_size>>

\* std::overflow_error leaves handle_read and ends the program's io thread.
Overflows ==
    /\ AtPayload /\ Throws
    /\ pc' = "closed"
    /\ UNCHANGED <<clientVars, network, buffer, delivered, parsing_state, ack,
                   counting, unacked, headerVars, payloadVars>>

Reader ==
    \/ NeedsMore
    \/ parse_basic_header_1byte \/ parse_chunk_header \/ parse_extended_timestamp
    \/ UnknownType
    \/ AwaitPayload \/ TakePart \/ CompleteMessage \/ MalformedPayload \/ Overflows

-----------------------------------------------------------------------------
\* The handshake has left the client's epoch as the last timestamp
\* (set_base_timestamp), before the first chunk.
Init ==
    /\ sent = <<>> /\ completed = <<>>
    /\ written = [cs \in ChunkStreams |-> 0]
    /\ send_chunk_size = DefaultChunkSize
    /\ network = <<>> /\ buffer = <<>> /\ pc = "reading" /\ delivered = <<>>
    /\ parsing_state = "header"
    /\ ack = [readed_bytes_count |-> 0, win_ack_size |-> DefaultWindow,
              next_ack_send_size |-> DefaultWindow]
    /\ counting = [parse |-> 0, parse_header |-> 0]
    /\ unacked = 0
    /\ field = "basic"
    /\ header = [format_type |-> FULL, chunk_stream_id |-> ControlStream,
                 timestamp |-> 0, timestamp_delta |-> 0, msg_length |-> 0,
                 msg_type_id |-> "unassigned", msg_stream_id |-> 0]
    /\ incomplete = <<>>
    /\ channels = [cs \in ChunkStreams |->
                    [last_msg_len |-> 0, last_msg_type_id |-> "unassigned",
                     last_msg_timestamp |-> 0, last_msg_timestamp_delta |-> 0]]
    /\ recv_chunk_size = DefaultChunkSize
    /\ last_message_timestamp = PeerEpoch /\ rollover_count = 0

\* The connection is closed, or the client has sent all and all of it is read.
Ended ==
    /\ \/ pc = "closed"
       \/ pc = "reading" /\ network = <<>>
    /\ UNCHANGED vars

Next == Client \/ handle_read \/ Reader \/ Ended

Spec == Init /\ [][Next]_vars

-----------------------------------------------------------------------------
Types ==
    MediaKinds \cup {"SetChunkSize", "WindowAcknowledgementSize", "unassigned"}

(***************************************************************************)
(* Every field keeps its type: the counters of RtmpParser stay natural     *)
(* (set_win_ack_size subtracts from an unsigned counter) and the 32-bit    *)
(* timestamps on the circle.                                               *)
(***************************************************************************)
TypeOK ==
    /\ pc \in {"reading", "parsing", "closed"}
    /\ parsing_state \in {"header", "payload"}
    /\ field \in {"basic", "message", "extended"}
    /\ ack \in [readed_bytes_count : Nat, win_ack_size : Nat, next_ack_send_size : Nat]
    /\ counting \in [parse : Nat, parse_header : Nat]
    /\ unacked \in Nat
    /\ header \in [format_type : 0 .. 3, chunk_stream_id : ChunkStreams,
                   timestamp : Numbers, timestamp_delta : Numbers, msg_length : Nat,
                   msg_type_id : Types, msg_stream_id : {0, 1}]
    /\ DOMAIN incomplete \subseteq ChunkStreams
    /\ channels \in [ChunkStreams ->
                       [last_msg_len : Nat, last_msg_type_id : Types,
                        last_msg_timestamp : Numbers,
                        last_msg_timestamp_delta : Numbers]]
    /\ recv_chunk_size \in Nat \ {0}
    /\ last_message_timestamp \in Numbers
    /\ rollover_count \in Nat

(***************************************************************************)
(* The parser takes each field for what the client wrote it as, wherever   *)
(* TCP cut the stream, however chunk streams interleave and whenever the   *)
(* chunk size changed: the next byte of payload is the next byte of the    *)
(* message of the chunk stream it is added to.                             *)
(***************************************************************************)
InSync ==
    pc = "parsing" /\ buffer # <<>> =>
        LET u == Head(buffer)
        IN  IF parsing_state = "header" THEN u.field = field
            ELSE IF need_size = 0 THEN u.field = "basic"
            ELSE /\ u.field = "data"
                 /\ sent[u.msg].cs = Cs
                 /\ u.at = Len(Info.recv_buf) + 1

\* A message as parsed carries the type, length and payload of the i-th message.
Carries(info, i, to) ==
    /\ info.kind = sent[i].kind
    /\ info.msg_length = sent[i].length
    /\ info.recv_buf = Payload(i, 0, to)

CompletedAndIntact ==
    /\ Len(delivered) <= Len(completed)
    /\ \A n \in DOMAIN delivered :
          Carries(delivered[n], completed[n], sent[completed[n]].length)

PartOfOneMessage ==
    \A cs \in DOMAIN incomplete :
        \E i \in DOMAIN sent :
            /\ sent[i].cs = cs
            /\ Len(incomplete[cs].recv_buf) \in 1 .. sent[i].length - 1
            /\ Carries(incomplete[cs], i, Len(incomplete[cs].recv_buf))

(***************************************************************************)
(* handle_request is given the messages the client completed, in the order *)
(* in which it wrote their last chunks, each once and intact; and what     *)
(* incomplete_infos_ keeps for a chunk stream is a part of one of its      *)
(* messages that is still missing bytes.                                   *)
(***************************************************************************)
DeliveredInOrder == CompletedAndIntact /\ PartOfOneMessage

(***************************************************************************)
(* The next Acknowledgement is due within one window of the counted bytes, *)
(* also after the client has changed the window in the middle of one.      *)
(***************************************************************************)
AckWithinWindow ==
    /\ ack.readed_bytes_count < ack.next_ack_send_size
    /\ ack.next_ack_send_size <= ack.readed_bytes_count + ack.win_ack_size

(***************************************************************************)
(* When the server waits for more and no header is half read, less than a  *)
(* window of bytes is parsed and not acknowledged (rtmp_dev.md:1543: parse *)
(* counts the parsed bytes and sends Acknowledgements).                    *)
(***************************************************************************)
EveryByteCounts ==
    pc = "reading" /\ field = "basic" => unacked < ack.win_ack_size

(***************************************************************************)
(* The 64-bit timestamp of every delivered message is the client's         *)
(* (rtmp_dev.md:603: the rollover of the 32-bit value is taken into        *)
(* account; pseudo.rtmp.py:55: one delta is added per message).            *)
(***************************************************************************)
TimestampsMeant ==
    \A n \in DOMAIN delivered :
        delivered[n].abs_timestamp = sent[completed[n]].time

\* The client's epoch is not past half the circle, no message is half the circle
\* behind the one before it, and either all messages are on one chunk stream or
\* none is past half the circle.
OneClock ==
    /\ PeerEpoch <= HalfDivisor
    /\ \A i \in DOMAIN sent : addable(sent[i].delta)
    /\ \/ Cardinality({sent[i].cs : i \in DOMAIN sent}) <= 1
       \/ \A i \in DOMAIN sent : sent[i].time <= HalfDivisor

(***************************************************************************)
(* Where the shared rollover count cannot be disturbed, the three ways of  *)
(* computing a timestamp (full, delta, repeated delta; extended or not)    *)
(* give the client's, also across a rollover.                              *)
(***************************************************************************)
TimestampsExact == OneClock => TimestampsMeant

(***************************************************************************)
(* The network delivers what was written and the io thread parses what it  *)
(* has: handlers run to their end.                                         *)
(***************************************************************************)
FairSpec == Spec /\ WF_vars(handle_read) /\ WF_vars(Reader)

\* The last completed message has no payload, the ones before it are delivered,
\* and nothing that follows it has been written yet.
WaitsForBytes ==
    /\ Len(completed) = Len(delivered) + 1 /\ pc = "reading"
    /\ sent[completed[Len(completed)]].length = 0
    /\ network = <<>> /\ buffer = <<>>

(***************************************************************************)
(* The handler catches up with the client again and again: every message   *)
(* whose chunks have all been written reaches it, unless the connection    *)
(* ends or the last message is empty and nothing has followed it yet; once *)
(* anything follows, that one is given to handle_request too.              *)
(***************************************************************************)
AllDelivered ==
    []<>(Len(delivered) = Len(completed) \/ pc = "closed" \/ WaitsForBytes)

=============================================================================
