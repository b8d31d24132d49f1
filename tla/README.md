# A verification project for the RTMP module

The program is an RTMP ingest server.  A publisher (ffmpeg) connects and sends audio and
video; the server parses the chunk stream, writes an FLV dump, turns the FLV tags into
elementary-stream frames and uploads them over HTTP to a streamer.  This directory holds
TLA+ models of it, the TLC configurations that check them on small instances, and proofs
checked by TLAPS.

## The system

Paths below are relative to `src/rtmps/src` unless they start with `src/`.

| component | state | operations | talks to |
|---|---|---|---|
| server (`network/Server.cpp`, `src/src/main.cpp`) | connection counter, one io thread | accept, stop | creates connections |
| connection (`network/Connection.cpp`) | read buffer, reply buffer, write queue, send timer, the media context | handshake reads and writes, `handle_read`, `write_message`, `handle_write`, `disconnect` | parser, handler, socket |
| handshake (`network/HandshakeManager.cpp`) | client version, digest scheme, epoch | validate C0 C1, write S0 S1 S2 | connection |
| chunk parser (`protocol/Rtmp*Parser.cpp`) | header under construction, incomplete messages and last timestamps per chunk stream, chunk size, acknowledgement counters; rollover count in the media context | `parse` | connection; sends Acknowledgement |
| serial numbers (`sna.h`) | none | comparison, addition, unrolling of 32-bit timestamps | payload parser |
| message codecs (`protocol/*_message`, `AMF0Serializer`) | none | parse and write commands, control, data, media | payload parser, chunk writer |
| chunk writer (`protocol/RtmpMessage.hpp`) | none | split a reply into chunks | write queue |
| command handler (`logic/RtmpHandler.cpp`) | chunk size, the media context | one handler per message, `notify_disconnect` | write queue, recorder, media path |
| FLV recorder (`logic/write_flv.cpp`) | tag counters, file header flag in the media context | append tags | file system |
| FLV parsing (`parsingflv.cpp`, `flv_util.cpp`) | none | tags, AVC/AAC headers, start codes | media path |
| media path (`flv_message.cpp`, `publish_to_streamer.cpp`) | `MediaPublishEsContext`: publish state, upload id, frame queue and counters, codec headers, flags | `process_flv_es_message`, `publish_to_streamer` | streamer over HTTP |
| JSON library (`src/rapidjson/include/rapidjson`, vendored) | the state of a parse, a document and its memory, buffered streams | read, edit, copy, write, find by pointer, transcode | media path |
| log sinks (`src/src/castislogger.h`, `cichannellogger.h`) | queue of records, the open log file, its hour or day and its size | log a record, `consume`, `rotate_file`, `stop_logger` | file system, clock |
| stream registry (`logic/RtmpStream.cpp`, `StreamManager.cpp`, `Session.h`) | links | unused by the build's entry points | - |

`main.cpp` starts one io thread, so one handler runs at a time and runs to its end; HTTP
requests are synchronous inside it.  What is hard is therefore not data races between
handlers but: requests that fail half-way through a drain, replies that are lost after the
streamer has acted, retries that only happen when another message arrives, disconnects
that come twice, sequence headers and frames in any order, bytes that arrive in arbitrary
pieces while the parser keeps partial state, timestamps that wrap, and asynchronous writes
that overlap.  `PROJECT.json` lists each of these at its line ("hazards").

What makes each component correct: the media path uploads every accepted frame at least
once, in order, to one upload, and closes it drained; the chunk parser delivers exactly the
messages the client completed, intact, with the timestamps it meant, and acknowledges what
it read; serial-number arithmetic agrees with true time as long as steps stay below half
the circle; the connection writes replies in order, once, and always has either a read
outstanding or a disconnect behind it; each command that expects a reply gets one; the
recorder produces one header and every tag in order; a log keeps every record, in order, in files
named after its time and bounded in size; JSON is read as RFC 8259 says, by every parser
alike, and what is done to a document changes what it should and nothing else.

## Modules

`UploadProtocol` is the abstract specification of an upload as the streamer sees it: the
frames accepted so far, the requests processed so far, the phase and how many frames are
settled.  Its actions are Accept, Start, Initialise, Upload, SkipEmpty and Finish; its
properties are the ones listed below.

`Publisher` models the media path of one connection.  Each variable is a field of
`MediaPublishEsContext` (named in its comment), except `reading` (a read is outstanding),
`pc` (the HTTP request at which `publish_to_streamer` stands, or idle), the two histories
`accepted` and `aborted`, the bound counter `failures` and the external `requests`.  One
action per message kind that reaches the context (audio and video sequence headers, raw
audio, NAL units, end of sequence, unparsable or early messages, createStream,
deleteStream), one per way a connection ends (read error or parse error, write error), and
one per HTTP request.  `NextRequest` is the chain of state tests in
`publish_to_streamer(context)`; every request that succeeds moves to the next test, one
that fails returns.  `Exchange` is the external HTTP client: a request is acknowledged, or
reported as failed whether or not the streamer processed it.

Frame payloads, timestamps and codec data are abstracted to what the code branches on:
the track, the key-frame bit, and whether the payload is empty (an empty one is popped
without a request).  A frame has its key bit twice: `key` is the one that arrived, `isKeyFrame`
the flag of `MediaPublishEs` that `publish_es` uploads, which `make_media_es` leaves at 1.

`SerialNumber` holds the operators of `sna.h` over a circle of `2 * HalfDivisor` points:
comparison, addition, unrolling with a rollover count.

`ChunkReader` models the reading side of a connection.  Its actions are the functions of
the source: `handle_read`, the header parser's `parse_basic_header_1byte`,
`parse_chunk_header` (types 0, 1 and 2) and `parse_extended_timestamp`, and the outcomes of
`parse_payload`: `AwaitPayload` (too few bytes), `TakePart` (a chunk but not the message),
`CompleteMessage`, `MalformedPayload`, `Overflows` (`sna::add` throws).  `NeedsMore`,
`Fails` and `Return` are the ways out of `RtmpParser::parse` with its byte counting.  Each
variable is a member of one of the three parsers, of the connection or of the media
context, as its comment says.  Three abstractions carry the module:

- A *unit* of the stream is what the parser takes at once: a header field or a payload
  byte.  A field of which some bytes are missing stays in the buffer, so for the parser it
  has not arrived; TCP may cut between any two units.  Byte counts are kept, because the
  acknowledgements depend on them.
- The client is external: it may interleave messages on several chunk streams, choose any
  header type that RTMP allows after the last message of the chunk stream, and change the
  chunk size and the window.  It writes between two parses; what it writes during one
  arrives no sooner than the next read.
- `unacked` and the message index in a payload byte are histories used only by properties.

The handshake comes before the first chunk and leaves one thing here: `set_base_timestamp` makes
the client's epoch from C1, the constant `PeerEpoch`, the last timestamp of the connection.

Two switches name behaviour of the environment that a run includes or excludes:
`SplitChunks` (a chunk may arrive in several reads) and `ReuseFullDelta` (the client begins
a message with type 3 directly after one of type 0).

Definitions called `X_Something`, placed before `X`, are `X` with one plausible mistake.
Nothing uses them; `PROJECT.json` ("mutants") says which property each of them must break
when it replaces `X`, which shows that the property depends on that line of the code.

`Connection` models one connection from `handle_accept` to the release of its object: the
handshake's handlers, `handle_read` and its loop over the messages of one buffer, one action
per command handler with the replies it queues and whether it signals, `Acknowledge` for the
Acknowledgement that `RtmpParser::parse` pushes and signals between them, `write_message` with
the shared `reply_streambuf_` that it consumes as soon as `async_write` has begun, the
composed writes behind it (`AsyncWriteSome`, `ContinueWrite`, `Writable`: external, one
`async_write_some` at a time, partial when the send buffer is full), the timer that `play`
starts, `disconnect` and the stop on a signal.  A reply is the number of its command or
acknowledgement and its name; bytes of a pending write that a later serialization overwrites are `Garbage`.
`Released` is "no handler holds the shared pointer".  `SlowPeer` says whether the send
buffer may be full, without which no two writes overlap.

`FlvRecorder` models what several connections leave on disk: the FLV file and the five dump
directories of each stream name, opened for append, and the header flag, the indices and the
name in each connection's media context.  The process may end between two messages
(`Restart`), in the middle of a tag (`RestartInTag`), and behind it before, in or between the
three dump files of the message (`RestartInDumps`), and start again; files stay, contexts do
not.  `halted` remembers the connections in whose last message it ended.

`LogFiles` models one log sink: the queue of records, and the thread that consumes them with
one of the four backends (files by hour or by size, each with or without an active file that
is renamed to a backup).  `consume` is a step for each time it reads the clock or touches the
disk, because the hour may pass in between; an open or a write may fail, `stop_logger` removes
the sink and flushes it, and the process may end at any step.  The clock is external, in hours,
and a record is its number, its length and the hours it was begun and written in; on disk also
how long its file is behind it, so that the length of a file is where its last record ends.

`DiskFiles` composes `FlvRecorder` and `LogFiles`, what the process leaves on disk.  They share
nothing but the end of the process, which each has at every step, so a behaviour follows one.

The codecs are operators over byte sequences, without state: `Bytes` (the readers and
writers of numbers), `FlvMedia` (AAC and AVC headers, access units, the bit reader, what
`flv_message.cpp` makes of a message or of its dump file, the bytes of a recording),
`Base64`, `Amf0` (a reader is given a position and returns ok, the position it leaves and the
value), `RtmpMessages` (the command, control, data and media parsers and the dispatch of
`RtmpPayloadParser`), `ChunkWriter` (the replies of every handler, their bodies, and the
chunks they are written in) and `Handshake` (the offsets, digests and answers of both
schemes, with HMAC-SHA256 as the parameter `Hmac`).  `Codecs` composes them: a behaviour
picks one codec and one input, and each property compares what the code makes of it with a
reference definition written from the format (bit by bit, or by a reader that walks the
bytes backwards or as a client would).

JSON.  `begin_publish` and `init_publish` write and read JSON, through the vendored library;
its state is local to one call, so its modules are operators too.

| module | models | properties are in |
|---|---|---|
| `JsonText`, `JsonReader`, `JsonTokens` | characters and UTF-8; the recursive parser with its flags; the iterative one and the one that stops behind every token | `JsonCodecs` |
| `JsonDocument`, `JsonWriter` | values, the document built from events, lookups, edits and equality; the compact and the pretty writer, numbers as text | `JsonCodecs` |
| `PublishRequests` | the bodies of `begin_publish` and `init_publish`, and what an answer is taken for | `JsonCodecs` |
| `JsonPointer` | both spellings of a pointer; get, create, set and erase through it | `PointerCodecs` |
| `JsonEncodings` | code points, units and bytes of five encodings and ASCII; how the encoding of an input is detected | `EncodingCodecs` |
| `JsonMemory` | the pool allocator, the stack and the string buffer that grow in it | `StreamCodecs` |
| `JsonStreams` | file and istream wrappers, and the cursor that counts lines | `StreamCodecs` |
| `JsonStorage` | values as cells and blocks: moved, copied, grown, erased and freed, with either kind of allocator | `StorageCodecs` |

A parse is a record (text, flags, position, events, error and its offset); a value is a record
of its type, bytes and items, a document what the events leave on the builder's stack.  The
`...Codecs` modules hold the reference definitions and inputs, each extends the one before, and
`Codecs` extends the last.

How the modules meet.  `ChunkReader`, `Connection` and `Publisher` model one read loop for
three questions: how bytes become messages, what is written back and when, and what reaches
the streamer.  Each takes from the others the superset of what they can do: `Connection`
parses any message, completes a window of acknowledged bytes, or fails, `Publisher` handles any message in any order, and `Connection`'s
replies are names whose bytes `ChunkWriter` gives.  `HandleRequest` of `Connection` and
`Replies` of `ChunkWriter` have one branch per handler of `RtmpHandler`, in the same order.

`UploadProtocolProofs`, `PublisherProofs`, `ConnectionProofs`, `ChunkReaderProofs`,
`FlvRecorderProofs`, `DiskFilesProofs`, `SerialNumberProofs` and `HandshakeProofs` hold the
theorems.

## What is checked

| run | specification | shows |
|---|---|---|
| `upload` | `Publisher!FairSpec` | types, seven safety properties, that `Publisher` implements `UploadProtocol` (phase is `publish_state`, done is `frame_number` minus the queue length), that a disconnect during publishing reaches the DELETE or a failed request, and that refused frames drain while the client keeps sending |
| `remains_are_sent` | `Publisher!FairSpec` | expected violation, see Findings |
| `chunk_framing` | `ChunkReader!Spec` | messages interleaved on three chunk streams and cut anywhere are parsed in step and delivered intact, once, in order; acknowledgements keep to the window |
| `chunk_timestamps` | `ChunkReader!Spec` | every header type gives the client's timestamp |
| `chunk_delivery` | `ChunkReader!FairSpec` | every completed message reaches the handler or the connection ends; one without payload, when anything follows it |
| `split_chunk_timestamps`, `two_stream_rollover`, `acknowledged_bytes` | `ChunkReader!Spec` | expected violations, see Findings |
| `connection_replies` | `Connection!FairSpec` | replies reach the socket whole, in order and once unless writes overlap; only an unsignalled reply waits; the object lives as long as it is needed and no longer |
| `fc_unpublish` | `Connection!FairSpec` | expected violation, see Findings |
| `disk_files` | `DiskFiles!DiskSpec` | what is on disk after any sharing of names, renaming, ends of the process anywhere and restarts, and after any rotation of logs |
| `codecs` | `Codecs!Spec` | the codecs agree with their reference definitions around every boundary |

The properties of the media path, and what could break them:

- `NoGap`, `InOrder`: a frame is popped only after its own acknowledgement and retried at
  the head, so the streamer never sees frame n before n-1 was acknowledged, and sees a
  frame again only directly after its lost reply.
- `OneUpload`, `StartsComplete`: whatever fails between the three
  phases, everything after the start names the one upload whose start was acknowledged,
  frames wait for an init that waited for both tracks, and early inter frames never count.
  (A key frame is one that arrived with the key bit; what is uploaded of the bit is
  another matter, see below.)
- `EndsComplete`: the close waits for the queue and nothing but another
  close follows it.
- `QueueIsRemainder`: the queue is
  exactly the unsettled suffix of what was accepted.
- `FlushedAtDisconnect`: when the last handler has run and no request failed in it, the
  upload is closed, or the queue holds frames for one of two known reasons.
- `DisconnectClosesUpload`, `RefusedFramesAreRetried`: the two ways a queue is meant to
  empty after a failure.

Those of the chunk reader:

- `InSync`: wherever the stream was cut and whenever the chunk size changed, the parser
  takes the next unit for what the client wrote it as, and a payload byte is the next one
  of the message it is added to.
- `DeliveredInOrder`: the header object is one for all chunk streams
  and types 1 to 3 inherit from it or from the channel; the messages must come out with
  the type, length and payload of the client's, in the order they were completed, and what
  is kept of an incomplete one is a part of one message.
- `AckWithinWindow`: `set_win_ack_size` subtracts from unsigned counters in the middle of a
  window; the next acknowledgement must still come within the new one.
- `TimestampsExact`: full, delta, repeated and extended timestamps unroll to the client's
  64-bit time, under `OneClock`: one chunk stream, or none past half the circle, which
  excludes what the `two_stream_rollover` finding shows; a client epoch not past half the circle,
  since the first timestamp is compared with it (see below); and no delta of half the
  circle, which ends the connection or cannot be told from a step back.
- `AllDelivered`: several messages in one read, or one in many, with a payload or without, none
  is left behind.  Only an empty message that nothing has followed yet may wait, which is what
  the code does and not what the document says (see below).

Those of the connection:

- `RepliesIntact`: what the socket has taken is a prefix of what was pushed, unless
  `write_message` began a write while another was unfinished; even then nothing is written
  twice.  (The buffer is one and is consumed early, so an overlap can garble: no line of the
  code or its docs claims otherwise, so it is stated as the condition and not as a finding.)
- `OnlyUnsignalledWait`, `RepliesAreWritten`: between handlers nothing but a result of
  FCUnpublish is left in the queue, and what is signalled is handed to the socket.
- `KeptAlive`, `ReleasedWhenOver`: a connection is not destroyed before `disconnect` has
  closed its upload (a rejected handshake excepted), and is released after it.  The second
  excepts connections that have played: nothing ever stops their timer.

Those of the recorder:

- `RecordingIsWhole`: a file that one connection wrote alone is one header and every message,
  and a file without a header at its head was begun by a connection that changed its name.
- `EveryMessageOnce`: with shared names and names that change, every message is still in
  exactly one file, and the dump files of a message have its number and only it.  Wherever the
  process ends, at most one tag per end is cut, the last one of its connection; a message
  whose tag is cut has no dump file; and one whose tag is whole has all three or, when the
  process ended in it, a first few of them, the next perhaps cut.

Those of the logs:

- `RecordsAreKept`: a record that was logged is queued or on disk, unless an open or a write
  failed for it or the process ended first; `stop_logger` loses none.  `size_backup` is
  excepted, for the reason in the next one.
- `OnlySmallBackupsAreReplaced`: nothing takes a record off the disk but the rename of
  `size_backup` over the last backup of the day when that is below the rotation size.
- `FilesAreInOrder`, `FiledByTime`: reading the files by their names gives the records in the
  order they were logged, and no record is in a file of a later hour or day than its own.
- `SizesAreBounded`: the backends by size overrun it by less than one record, or by one per
  restart when the process ends between a write and the rotation that is due.

Those of the codecs:

- `MediaIsRead`: audio configs cut anywhere,
  parameter sets behind counted lengths, and access units whose lengths become start codes.
- `FilesReadBack`: a dump file replays as the message it was made of, exactly when its time
  fits the reader's 32-bit product, and an FLV file can be walked back from its end.
- `Base64RoundTrips`: padding for every length.
- `MessagesAreRead`: objects and arrays that nobody looks at, nested and with the end marker
  inside their values, are consumed to their last byte; each payload is delivered as the message it holds, whatever was parsed
  before it by the same parsers; one that its parser passes over delivers the message that parser
  read before, or ends the process when there is none; and a command cut before its last argument
  is refused.
- `RepliesAreRead`: a client that reassembles the chunks finds each reply
  whole and each command answered with its transaction id; control messages parse as
  themselves.
- `JsonIsRead`: every short sequence of tokens is accepted exactly if the grammar of RFC 8259
  has it; the three parsers tell the same events; numbers have the value and type their digits
  mean, around each limit of a width; escapes and UTF-8 sequences are the characters they
  encode; an encoding is detected and transcoded without loss; streams hand over every byte of a
  file of any length and with any buffer.
- `JsonIsKept`: a document that was written is the same when it is read; edits change what they
  name, in the order the code keeps, and a sequence of them what a map or a list of the same
  edits would hold; a pointer reaches what RFC 6901 says and what was created through it; blocks of
  the pool never overlap and keep their content; each stored value is in one place, whatever was
  moved or copied, and nothing is freed twice or used after it.
- `StreamerJsonIsRead`: the streamer finds in a request what was put in, for names that need no
  escape, and an answer gives the id and address it holds.
- `HandshakeVerifies`: a client of either scheme, or of none, accepts the answer.

Bounds.  Media path: three frames (a failed one, one behind it and one that arrives later),
two failed exchanges (a refusal and a lost reply, in either order) and seven processed
requests (start, init, three frames, close, and one repeated after its lost reply), after
which no new handler starts.  `remains_are_sent` needs two frames and one failure.
`chunk_framing`: three messages, enough for one that is open on each of two media streams
while a control message changes the chunk size (2 to 1) or the window (20 to 5); a message
of length 0 is a chunk without payload, one of length 3 takes two chunks or, after the
change, more; the window of 5 is shorter than a header, so it is crossed several times.
`chunk_timestamps`: five messages of deltas 1, 7 and 8 on a circle of 16 points, so that one
chunk stream passes the rollover and two reach half the circle exactly; with the extended mark at 7,
delta 7 is extended; 8 is half the circle and throws.  The client's epoch is 8, the last that `OneClock` allows;
whole chunks only, since a split one is a finding.  `chunk_delivery`: two messages of
length 0 or 3, which may be of an unknown type, not parse, or carry a delta of half the circle.
`connection_replies`: two commands or acknowledgements (`MaxCommands`), the least with which a write begins while the replies
of the one before are on their way, a slow peer, every error and the stop; `fc_unpublish`:
two.  `disk_files`, recordings: three connections (symmetric), two names besides `anonymous`,
three messages, two restarts and two publishes, so that a file has two writers and a cut
between them, and one connection two files; logs: records of length 1 and 2 against a rotation
size of 3 (full exactly and by one too much), days of two hours and a clock that passes one
midnight, four records, so that a day has two backups and a third name is due, one failure and
one restart.  `codecs` enumerates inputs: configs cut at every byte, access units of
up to three units, payloads that are read, cut or passed over behind any one before them, some empty or looking like lengths, messages at times around 2^16, 2^24 and the last
exact one, buffers of every length modulo three, values nested in values, commands cut at
every byte, conversations of up to three commands at chunk sizes that fall on and beside the end
of a body, and both schemes at the smallest and largest digest offset.  JSON: token sequences of up to seven
(`MaxTokens`: an object with a member and a missing or doubled separator, two levels of nesting),
every literal with one character changed, numbers at the limits of 32 and 64 bits and of the
exponent, up to five events told to a writer and three edits of one document, pointers of up to
three pieces (`MaxPieces`), texts of up to two characters around every length of an encoding, buffers of
one to six bytes against files of up to thirteen, four uses of a pool (`MaxUses`) with chunks of 16, and up to three moves, copies or edits of four stored values.  The bounds are
guards of actions, so every behaviour of a bounded model is one of the code.

Fairness: `Publisher!FairSpec` asks only that a handler that has started runs to its end
(`AsyncClient::SendAndReceive` returns, with an answer or an error); nothing is assumed of
the streamer.  `RefusedFramesAreRetried` has as a premise, in the formula, that the client
keeps sending messages which reach `publish_to_streamer`.  `ChunkReader!FairSpec` asks that
bytes on their way are read and that the io thread goes on parsing what it has; the client
need not finish anything.  `Connection!FairSpec` is fairness of one io service and the
kernel: parsing a buffer comes to its end (weak); an expired timer and a posted completion
run (strong, because the io service takes ready handlers first in, first out, so that a
stream of reads cannot pass them for ever although each of them disables the other handlers
while it runs); and on a socket that was shut down a waiting read fails and a waiting write
ends.  Nothing is assumed of the client, nor that a full send buffer empties.  Deadlock is checked; the states without a next handler are a
closed connection and one whose client has sent everything, which stutter explicitly.

## Findings

`remains_are_sent`: `notify_disconnect` calls `publish_to_streamer` once, under the comment
"send remains" (`logic/RtmpHandler.cpp:42`).  If the stream never had both tracks, or a
request fails in that call, the remaining frames are never sent.

`split_chunk_timestamps`: when the first chunk of a message arrives without all its
payload, `parse_payload` returns (`protocol/RtmpPayloadParser.cpp:237`) after it has
advanced the channel and before the message is remembered; each later read adds the delta
again.  `src/doc/pseudo.rtmp.py:55` adds it once.

`two_stream_rollover`: the rollover count is one for the connection
(`protocol/RtmpPayloadParser.cpp:84`), so audio and video that each pass 2^32 count it
twice; `src/doc/rtmp_dev.md:603` says the rollover is taken into account.

Three more disagreements with a document have no run of their own; two are stated as conditions of a
property:

- `make_media_es` (`flv_message.cpp:79`) never uses its argument `is_key_frame`, so `isKeyFrame` stays 1
  (`flv_message.h:46`) and every frame is uploaded as a key frame (`publish_to_streamer.cpp:178`), where
  `src/doc/rtmp_dev.md:1269` says of the streamer's field that it tells whether the frame is a key frame.
  The frames of `Publisher` and `FlvMedia` carry this flag; no property takes it for the
  bit that arrived.
- `set_base_timestamp` (`network/Connection.cpp:283`) makes the epoch the client sent in C1 the last
  timestamp, and the first message is compared with it.  When the epoch is past half the circle and the
  first timestamp is 0, a rollover is counted that was none, and every 64-bit timestamp is 2^32 too
  large, where `src/doc/rtmp_dev.md:603` says that the rollover is taken into account.  `OneClock` excludes it; with
  `PeerEpoch` 9 in place of 8 and one chunk stream, TLC finds `TimestampsMeant` violated.
- A message of length 0 is complete with its header, but with nothing behind it in the buffer
  `parse_private` returns indeterminate (`protocol/RtmpParser.cpp:96`): it is handed on only when the client
  sends more, where `src/doc/rtmp_dev.md:1442` says that the handler is called when all chunks have been
  received.  `WaitsForBytes`, in `AllDelivered`, excepts it; without it TLC finds `AllDelivered` violated.

Behaviour that is modelled but contradicts no line of the repository:

- a type 3 message after type 0 takes its delta from the shared header, the stream id of
  types 1 to 3 is the one of the last full header of any chunk stream, a delta of half the
  circle throws out of the io thread, and type 3 chunks never read an extended timestamp;
- an Abort message is parsed and ignored; a control or data message that its parser passes
  over is delivered as the one it read before, and ends the process when there is none
  (`protocol/data_message/DataMsgParser.cpp:34`, `protocol/RtmpPayloadParser.cpp:277`); a command
  that is known and not served ends the connection, an unknown one does not;
- a connection that never publishes begins and closes an upload when it disconnects, and the
  frame queue has no limit while the streamer refuses;
- an explicit AAC sampling rate in a config of exactly five bytes is refused; of a header
  with two SPS the first is read and the loop breaks, which misplaces the PPS; the composition time is read
  unsigned; start codes are put in for lengths of four bytes whatever the header announced;
- the first backup of a day that `rotate_file` makes because the day has changed may be below
  the rotation size; `scan_next_index` (`src/src/cichannellogger.h:288`) then offers its number
  again, and the next backup of that day takes its place;
- `ParseAACRaw` (`parsingflv.cpp:793`) takes the sample rate and size of a frame from the lowest bits of
  the byte, since `>>` binds closer than `&`; only a debug line shows them;
- a stream name that needs escaping goes into the body of `begin_publish` as it is, and a valid
  answer that is no object meets an assertion of the JSON library;
- the JSON library lets a lone low surrogate escape pass, refuses a zero with an exponent beyond
  308, calls a text that begins with a separator an empty document when it parses iteratively,
  takes -1 and 2^64-1 for equal, may find two objects with repeated names equal, misses
  some overflows of a pointer's index (`pointer.h:912`, 5000000000 becomes 705032704), takes `%2F`
  in a fragment for a slash of the name, does not detect UTF-16 without a mark behind a second character of
  U+0100 or more nor any text of under four bytes, and never offers `Peek4` of a file read through its
  smallest buffer before the end;
- `operator=` and `CopyFrom` free the old value before they read the new one, which may be a part
  of it, and `PushBack` of an array's own element while it grows moves from the old block: with the pool, which
  frees nothing, the first two are harmless and are checked; with an allocator that frees, and for the
  third, the inputs keep the values apart;
- a stop ends the io service at once, so uploads stay open and nothing is notified; a process that
  ends between the writes of `handle_media_message` leaves a recorded message without some of its dump
  files.

## What is proved

`UploadProtocolProofs!UploadSafety`: all safety properties of `UploadProtocol`, for every
number of frames and failures.  The properties are not inductive by themselves; the
invariant `IInv` adds `PhaseAgrees` (the phase agrees with the acknowledged requests in the
log), `SeenOrRetried` (a frame the streamer has seen is settled or is the next one) and
`DoneIsSettled`.  `ProcessIInv` is the heart: one lemma for "a request is appended to the
log", with the conditions each kind of request must meet as hypotheses; each action is then
shown to meet them.

`PublisherProofs`: `TypeCorrect`, `NothingQueuedIsLost` (`QueueIsRemainder`), `Refinement`
(`Spec => Upload`) and `UploadIsSafe` (every safety property of the upload, for the code),
for all values of the three bounds; the only assumption is that they are natural numbers.
The inductive invariant `PInv` adds to the types that the queue is the remainder of the
accepted frames element by element, that `pc` stands only where the state tests lead, that
the counters and the key-frame flag tell the truth about the accepted frames, and that
`publish_id` names an acknowledged start.  `NextStep` proves at once that each action
preserves `PInv` and is a step of the upload or a stutter.  Each property of the run follows
under its own name: `StreamerSeesNoGap`, `FramesComeInOrder`, `UploadIsOne`,
`UploadStartsComplete` and `UploadEndsComplete` from the refinement (the upload's variables are
expressions of the code's, so its invariants are), and `FlushedWhenOver`
(`FlushedAtDisconnect`) from `FlushInv`: the handler that stops the reading is the one that
asks for the end of the stream, so a connection that is over has gone through all the state
tests of `publish_to_streamer` with the end asked for.

`ConnectionProofs`, for every number of commands and with or without a slow peer:

- `ConnectionTyped` (`TypeOK`);
- `ConnectionKeptAlive` (`KeptAlive`), from `HeldAlive`: before `disconnect` there is always a
  handler running, a read outstanding or a write under way, and each handler that ends arms
  the next;
- `QueueEmptied` (`OnlyUnsignalledWait`), by itself inductive once the types are known;
- `RepliesGoOut` (`RepliesIntact`).  The property speaks of what was received, which a step can only make
  longer from what is under way, so the invariant `OutputInv` covers the whole path.
  `Contiguous`: as long as no writes have overlapped, at most one is under way, and what the
  socket has taken, what is left of that write and the queue concatenate to everything that
  was pushed, until the connection is disconnected, after which the rest may be dropped.
  `Once`: overlapped or not, no reply is in two places among the socket, the waiting writes, their
  completions and the queue, none is there that a later command will push, and where a buffer
  was written over it holds no reply at all.  `PhaseOutput` says what a phase of the handshake
  implies for the output.

`ChunkReaderProofs`, for every set of chunk streams, message types, payload lengths, chunk
sizes, windows and times, and wherever TCP cuts the stream: `ReaderTypes` (`TypeOK`),
`ParserInSync` (`InSync`), `MessagesDeliveredInOrder` (`DeliveredInOrder`),
`AcknowledgedInTime` (`AckWithinWindow`) and, under `TimelyClient`, `TimestampsAreExact`
(`TimestampsExact`).  `ParameterAssumption` asks that chunk sizes and
windows are not zero (the server checks neither; the client is taken to send legal ones, as
in all runs), that control messages have a payload and a chunk stream of their own, that the
types of media messages are not those of control messages, and that a delta fits its field.
None of the properties is inductive, not even the types: that a control message's value is
read from a message of the client's needs that the parser is in step with the stream.  The
invariant `ReaderInv` therefore speaks of what is under way, not of the past:

- A `Point` is a place between two chunks: the chunk size in force, the number of messages
  completed, how much of each chunk stream's open message has gone by, and the last message
  begun there.  `NextChunk` and `After` say which units the client writes from a point, and
  the point they lead to.  The client stands at `ClientPoint`.
- `InStep`: there is a path of chunks (`Path`) from a point to the client's such that their
  units are the buffer and the network one behind the other; that point is the one the
  parser stands at, judged by its own state (`ServerAt`: chunk size, delivered messages,
  incomplete messages); and the parser is between chunks (`BetweenChunks`) or has made of the
  headers it has taken of the first chunk what they said (`InChunk`).  What a header of type
  2 or 3 leaves out is right because `channels_` remembers the last message of each chunk
  stream (`Remembers`), or already the one being read: `AwaitPayload` changes the channel before
  the payload is there, and the next attempt must find the same.
- A write of the client makes the path longer at its end (`PathGrown`), a read leaves it
  alone (`PathStays`), a field taken moves it nearer (`PathTaken`), and the last byte of a
  chunk drops its first link (`InStepNext`).  There is one lemma for each action.
- The counters (`Returns`, `WindowChanges`) need `WindowCounts` as well: the next
  Acknowledgement is never due before a whole window, or `set_win_ack_size` would take the
  unsigned counter below zero.

`TimestampsAreExact` holds for every number of messages and of rollovers and every size of the
circle.  `TimelyClient` says what it needs of the client, and
`ChunkReader_timestamps.cfg` is an instance of it:

- the time a chunk stream starts with is in the first lap (32 bits cannot say another);
- chunks arrive whole (`~SplitChunks`) and no type 3 chunk repeats the time of a type 0 one
  (`~ReuseFullDelta`).  Both are the program's own limits and not the proof's: without the
  first, the run `split_chunk_timestamps` has `AwaitPayload` add a delta twice; without the
  second, the delta is whatever the shared header held when the type 0 chunk was read.

The client's epoch is any 32-bit number and its deltas may be anything their field holds
(`ParameterAssumption`); `OneClock`, in the property, excludes an epoch past half the circle, a delta of
half the circle or more (`sna::add` throws, see the hazards), and what the run `two_stream_rollover` shows.  What the invariant
`ReaderInv` tells of times:

- `Follows`: along the path, a message is one delta later than the last of its chunk stream, and
  the first of a chunk stream has a full header.  So what is still on its way tells its time.
- `TimeRead`: what the parser has taken of a header is the message's `Stamp`, or the extended
  timestamp in its place.
- `Clocks`: at the point where the parser stands, the channel of each chunk stream has the 32-bit
  number and the delta of the last message begun there (`Tells`), an incomplete message has
  the client's 64-bit time already, and the shared count (`CountKept`) is zero while nobody is past
  half the circle, and with one chunk stream the number and the laps of its last message.
- The step that reads a message's first chunk (`FreshNumber`, `CountOfOne`, `CountOfEarly`) is
  where the lemmas of `SerialNumberProofs` come in: adding a delta on the circle gives the next number,
  and comparing it with the last counts the laps.

`WholeChunks` goes beside it: what is on its way begins with a chunk, so that the payload is there when
the headers are (`NothingAwaited`) and no chunk's header is worked on twice.
`DeliveredInTime` follows step by step (`TimeNext`).

`InStep` quantifies over paths of any length, out of TLC's reach; TLC checks the properties that
follow from it.

`FlvRecorderProofs`, for every set of connections and names and all bounds; the assumptions are that
neither `anonymous` nor the empty name is a stream name a client publishes under and
that the bounds are natural numbers.  `RecorderTypes` (`TypeOK`), `RecordingsAreWhole` (`RecordingIsWhole`)
and `MessagesAreRecordedOnce` (`EveryMessageOnce`).  The properties speak of what a connection
left, in whatever files; the invariant `FilesInv` says position by position where that is: the messages a context
has counted are the ones written, each entry of a file is the header or a message of some
connection, no message is in two places, all of a connection's are in a file, within a file
they are in order, and a context remembers whether it wrote its header.  `HaltedInv` says that the
connections in `halted` have ended and that there is at most one for each restart (one io thread
handles one message at a time); with it `CutTags` is kept by every step.  `DumpsInv` says it of the dump files: the counters of a
context are the number of its messages of that kind, the number of a dump file is the one the counter
had, a name nobody else used holds nothing else, and of a halted connection's last message the first few are finished.

`DiskFilesProofs`, for every rotation size, length of the day, number of records, restarts and
failures, and each of the four backends.  `LogAssumption` asks that lengths are positive and one
is the longest (the code's records are bounded by memory; `SizesAreBounded` names that
length).  `DiskTypes`, `DiskRecordingsAreWhole` and `DiskMessagesOnce` carry the recorder's
results to the composition (a step of the disk is a step of the recorder or leaves it
alone).  The rest is about the logs, from the invariant `LogInv`:

- `LogsAreInOrder` (`FilesAreInOrder`) needs more than the order of the records on disk: the
  queue holds exactly the last numbers (`QueueIsNext`), so that the record being written is
  newer than all in files (`RecordsArePast`), and the file it goes to is behind all others by
  name (`OpenFileIsLast`).  A rotation keeps that because the name it chooses is new, or is the last of
  the day: `HoursAreNew` for the hourly backups (their names are hours before the current
  one), `IndicesHaveNoGap` for those by size (the largest index is then the number of files of the
  day, and bounded by the number of records).
- `LogsAreFiledByTime` (`FiledByTime`) needs that the clock is read before the file is chosen
  and that the hour may pass in between (`RecordsAreOnTime`).
- `LogsAreShort` (`SizesAreBounded`) needs that `characters_written_` is at least the length
  of the open file and that a bound on the active file grows with each restart
  (`FilesAreShort`).
- `LogsKeepTheirRecords` (`RecordsAreKept`) needs `HeadIsKept`: the record leaves the queue
  after it is in a file.
- `BackupsAreKept` (`OnlySmallBackupsAreReplaced`, an action property): under the invariant, the only
  step that drops a record from the files is the rename over the last backup of the day.

TLC has checked every conjunct of `LogInv` on the constants of `disk_files`.

`SerialNumberProofs`, for every half divisor above zero (the code's is 2^31):
`UnrollIsExact` and `AddIsExact` (a step forward of less than half the circle unrolls to the
true time, after any number of laps), `SmallStepBack` (so does a step back of at most half
the circle in the same lap), `LargeStepBackCounts` (a longer one counts a rollover that did
not happen, which is what `two_stream_rollover` meets) and `Comparison` (`lt` and `gt` are
exclusive and converse, and undecided exactly for equal numbers and those half the circle
apart).  They follow from the uniqueness of quotient and remainder, stated first as lemmas
for any divisor.

`HandshakeProofs`, for every message, random block, key and hash function: `DigestPlaced` (the
offset of either scheme leaves room for the digest and never covers the bytes it is computed
from), `PutReads` (a digest that is put in is read back, and what is hashed does not change),
and from them `SealVerifies` (a sealed message verifies) and `AnswersVerify` (a client whose
digest was found can verify S1 and S2).  The only assumption is that `Hmac` returns 32 bytes.

Only model-checked:

- The codecs other than the handshake: what a reader or a writer computes goes by induction
  over its input, and several are recursive operators, both out of reach of the installed
  provers.
- The liveness properties (liveness under fairness, and `ENABLED`, are out of reach too).

## What the codec runs assume

Each is a condition in the property or in the inputs:

- conversations stay on connect's chunk stream and message stream (replies with type 1
  headers take their stream from the full header of connect's reply), with chunk stream ids
  below 320, where the reader and the writer of two-byte ids agree, and other than the 5 and
  20 that status and data replies use;
- control messages fit one chunk, as they are written (the server's chunk size is 128);
- texts that no reader looks at are one byte long, so the chunk size is a parameter of the
  writer instead of 128;
- access units have lengths that add up (the code's counter wraps otherwise), and headers
  hold at most one SPS;
- dumped times are below 2^32 / 90 ms where equality is claimed.

## Not modelled

- Of the vendored JSON library (about 16,000 of the 31,600 lines the sources have): schemas and
  regular expressions (`schema.h`, `internal/regex.h`), which nothing of this program includes;
  in-situ parsing and SIMD scanning, not used and not in the build; the rounding of a double to
  binary (`internal/strtod.h`, `biginteger.h`, `diyfp.h`) and how Grisu2 finds its digits, which are
  arithmetic beyond TLC's integers; and running out of memory.
- The access log and the headers of the streamer other than base64: not this program's logic.
- `read_flv_file`, `read_mixed_array`, the simple metadata, `CallError` and `OnBWDone`: nothing
  calls or sends them.
- Sources that are not in the build or that nothing includes: `StreamManager.cpp`, `Session.h`,
  `to_streamer.cpp`; `RtmpStream.cpp` is compiled and not called.
- Failing file writes (the code looks at no stream of the recorder), the listening socket and
  the configuration.

## The plan

1. (done) The media path and its abstract specification, `SerialNumber`, with proofs.
2. (done) `ChunkReader`, `Connection`, `FlvRecorder`, `LogFiles` and `DiskFiles`, the codecs, the
   handshake with its proof, the JSON modules.
3. (done) Proofs for all constants: the properties of `Publisher` one by one; `Connection`;
   `FlvRecorder`; the logs, and `DiskFiles`, which composes them.
4. (done) `ChunkReader`: that the parser is in step with the client, and what follows from it.
5. (done) Its timestamps, from that invariant and the lemmas of `SerialNumberProofs`.  With it every
   invariant and action property that a run checks is proved, but for those of the codecs.
