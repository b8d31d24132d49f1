------------------------- MODULE ChunkReaderProofs -------------------------
(***************************************************************************)
(* The parser is in step with the client, proved for every set of chunk    *)
(* streams, message types, lengths, chunk sizes and windows, and however   *)
(* the stream is cut.  The inductive invariant says that the units on      *)
(* their way and in the buffer are the chunks of a client that began where *)
(* the parser stands and ends where the client stands.                     *)
(* Beside it goes what the channels and the shared rollover count tell of  *)
(* the client's times, from which the delivered timestamps follow.         *)
(***************************************************************************)
EXTENDS ChunkReader, SerialNumberProofs, SequenceTheorems, FiniteSetTheorems, TLAPS

Sized == {"SetChunkSize", "WindowAcknowledgementSize"}
Kinds == MediaKinds \cup Sized

(* What the client sends.                                                  *)
Message ==
  [cs : ChunkStreams, fmt : 0 .. 3, kind : Kinds, length : Nat, value : Nat,
   time : Nat, delta : Numbers, sid : {0, 1}]

(* What is on its way.                                                     *)
BasicUnit == [field : {"basic"}, bytes : {1}, fmt : 0 .. 3, cs : ChunkStreams]
MessageUnit ==
  [field : {"message"}, bytes : Nat \ {0}, timestamp : Numbers, length : Nat, kind : Kinds,
   sid : {0, 1}]
ExtendedUnit == [field : {"extended"}, bytes : {4}, timestamp : Numbers]
DataUnit == [field : {"data"}, bytes : {1}, msg : Nat, at : Nat]
Unit == BasicUnit \cup MessageUnit \cup ExtendedUnit \cup DataUnit

Indices == 1 .. Len(sent)

(* The units between the client and the parser.                            *)
Rest == buffer \o network

-----------------------------------------------------------------------------
(* A point of the conversation, between two chunks: the chunk size, how     *)
(* many messages are complete, and of each chunk stream how much of its    *)
(* open message has gone by (0 if none is open) and the last message begun. *)
Point ==
  [size : Nat \ {0}, done : Nat, progress : [ChunkStreams -> Nat],
   last : [ChunkStreams -> Nat]]

(* The next chunk of message m, the i-th, at point s.                      *)
From(s, m) == s.progress[m.cs]
To(s, m) == IF From(s, m) + s.size <= m.length THEN From(s, m) + s.size ELSE m.length
IsWhole(s, m) == To(s, m) = m.length
NextChunk(s, i, m) == Chunk(i, m, From(s, m), To(s, m))

After(s, i, m) ==
  [size |-> IF IsWhole(s, m) /\ m.kind = "SetChunkSize" THEN m.value ELSE s.size,
   done |-> IF IsWhole(s, m) THEN s.done + 1 ELSE s.done,
   progress |-> [s.progress EXCEPT ![m.cs] = IF IsWhole(s, m) THEN 0 ELSE To(s, m)],
   last |-> [s.last EXCEPT ![m.cs] = i]]

(* Types 2 and 3 leave length and type to the last message of the stream.  *)
Inherits(m, p) == m.length = p.length /\ m.kind = p.kind

(* The client begins message m after the p-th, the last of its chunk       *)
(* stream (0 if there is none).                                            *)
Follows(m, p) ==
  IF p = 0 THEN m.fmt = FULL /\ m.time \in StartTimes \cup {0}
  ELSE /\ p \in Indices /\ MayFollow(m, sent[p])
       /\ m.delta \in Deltas \cup {0} /\ m.time = sent[p].time + m.delta

(* The client writes a chunk of the i-th message at point s.               *)
Comes(s, i) ==
  LET m == sent[i]
      p == s.last[m.cs]
  IN  /\ IF From(s, m) > 0 THEN i = p /\ From(s, m) < m.length
         ELSE Follows(m, p)
      /\ IsWhole(s, m) => s.done + 1 \in DOMAIN completed /\ completed[s.done + 1] = i

(* Those of the chunk's units that follow position at are on their way.    *)
Fits(chunk, at) ==
  \A j \in 1 .. Len(chunk) :
    at + j >= 1 => at + j <= Len(Rest) /\ Rest[at + j] = chunk[j]

ClientPoint ==
  [size |-> send_chunk_size, done |-> Len(completed),
   progress |-> [cs \in ChunkStreams |-> IF IsOpen(cs) THEN written[cs] ELSE 0],
   last |-> [cs \in ChunkStreams |-> Previous(cs)]]

(* A chunk of the i-th message leads from point s to point t and lies      *)
(* between positions a and b.                                              *)
Link(i, s, t, a, b) ==
  LET m == sent[i]
      chunk == NextChunk(s, i, m)
  IN  Comes(s, i) /\ t = After(s, i, m) /\ b = a + Len(chunk) /\ Fits(chunk, a)

(* The n chunks under way, with the points between them and where in Rest  *)
(* they begin.                                                             *)
Path(n, under, points, at) ==
  /\ \A k \in 1 .. n : Link(under[k], points[k], points[k + 1], at[k], at[k + 1])
  /\ points[n + 1] = ClientPoint
  /\ at[n + 1] = Len(Rest)

-----------------------------------------------------------------------------
(* What the timestamps can be trusted under: the client's clock starts in  *)
(* the first lap of the 32-bit circle; chunks arrive whole and no type 3   *)
(* chunk repeats the time of a full one (the program is wrong otherwise);  *)
(* the epoch of its C1 is not past half the circle; there is one clock;    *)
(* and no message is half the circle behind the one before it.             *)
TimelyClient == StartTimes \subseteq Numbers /\ ~SplitChunks /\ ~ReuseFullDelta

OneStream == \A i, j \in Indices : sent[i].cs = sent[j].cs
Early == \A i \in Indices : sent[i].time <= HalfDivisor
SmallSteps == \A i \in Indices : addable(sent[i].delta)
Timed == TimelyClient /\ PeerEpoch <= HalfDivisor /\ SmallSteps /\ (OneStream \/ Early)

(* The channel of a chunk stream tells the point on the circle of the i-th *)
(* message, and the delta it came with.                                    *)
Tells(cs, i) ==
  /\ channels[cs].last_msg_timestamp = serialnumber(sent[i].time)
  /\ sent[i].fmt # FULL => channels[cs].last_msg_timestamp_delta = sent[i].delta

(* The shared count starts from the client's epoch: with one stream it is  *)
(* the laps of its last message, else none yet.                            *)
CountKept(s) ==
  /\ (\A cs \in ChunkStreams : s.last[cs] = 0) =>
       last_message_timestamp = PeerEpoch /\ rollover_count = 0
  /\ Early => last_message_timestamp <= HalfDivisor /\ rollover_count = 0
  /\ OneStream => \A cs \in ChunkStreams : s.last[cs] # 0 =>
       /\ last_message_timestamp = serialnumber(sent[s.last[cs]].time)
       /\ rollover_count = Laps(sent[s.last[cs]].time)

Clocks(s) ==
  /\ \A cs \in ChunkStreams : s.last[cs] # 0 => Tells(cs, s.last[cs])
  /\ \A cs \in DOMAIN incomplete : incomplete[cs].abs_timestamp = sent[s.last[cs]].time
  /\ CountKept(s)

(* The parser stands at point s.                                           *)
Received(cs) == IF cs \in DOMAIN incomplete THEN Len(incomplete[cs].recv_buf) ELSE 0

ServerAt(s) ==
  /\ s.size = recv_chunk_size /\ s.done = Len(delivered)
  /\ s.progress = [cs \in ChunkStreams |-> Received(cs)]
  /\ \A cs \in ChunkStreams :
       s.last[cs] # 0 => s.last[cs] \in Indices /\ sent[s.last[cs]].cs = cs
  /\ \A cs \in DOMAIN incomplete :
       /\ s.last[cs] # 0
       /\ Received(cs) \in 1 .. sent[s.last[cs]].length - 1
       /\ Carries(incomplete[cs], s.last[cs], Received(cs))
  /\ Timed => Clocks(s)

(* A channel remembers the length and type of the i-th message.            *)
Remembers(cs, i) ==
  i # 0 => /\ channels[cs].last_msg_len = sent[i].length
           /\ channels[cs].last_msg_type_id = sent[i].kind

(* How many units of a chunk are its headers, and the type it is sent with. *)
Headers(s, m) == IF From(s, m) > 0 THEN 1 ELSE 1 + Len(MessageHeader(m))
Format(s, m) == IF From(s, m) > 0 THEN CONTINUATION ELSE m.fmt

(* What the parser has made of the first h units of the chunk.             *)
BasicRead(s, m) == header.format_type = Format(s, m) /\ Cs = m.cs

MessageRead(m) ==
  header.format_type \in {FULL, SAME_STREAM} =>
    header.msg_length = m.length /\ header.msg_type_id = m.kind

TimeRead(m) ==
  /\ header.format_type = FULL => header.timestamp = Stamp(m)
  /\ header.format_type \in {SAME_STREAM, SAME_LENGTH_AND_STREAM} =>
       header.timestamp_delta = Stamp(m)

HeaderRead(s, m, h) ==
  /\ BasicRead(s, m)
  /\ \/ parsing_state = "header" /\ field = "message" /\ h = 1 /\ Headers(s, m) > 1
     \/ /\ parsing_state = "header" /\ field = "extended" /\ h = 2 /\ Headers(s, m) > 2
        /\ MessageRead(m)
     \/ /\ parsing_state = "payload" /\ field = "basic" /\ h = Headers(s, m)
        /\ MessageRead(m) /\ TimeRead(m)

(* Between two chunks nothing of the next one is read, and the channels    *)
(* remember the last message; in the payload the channel of the chunk may  *)
(* remember its message already.                                           *)
BetweenChunks(s, at) ==
  /\ parsing_state = "header" /\ field = "basic" /\ at = 0
  /\ \A cs \in ChunkStreams : Remembers(cs, s.last[cs])

InChunk(s, i, at) ==
  /\ HeaderRead(s, sent[i], 0 - at)
  /\ \A cs \in ChunkStreams :
       \/ Remembers(cs, s.last[cs])
       \/ parsing_state = "payload" /\ cs = Cs /\ Remembers(cs, i)

Position(n, under, points, at) ==
  \/ BetweenChunks(points[1], at[1])
  \/ n > 0 /\ InChunk(points[1], under[1], at[1])

InStep ==
  \E n \in Nat :
    \E under \in [1 .. n -> Indices], points \in [1 .. n + 1 -> Point],
       at \in [1 .. n + 1 -> Int] :
      /\ Path(n, under, points, at)
      /\ ServerAt(points[1])
      /\ Position(n, under, points, at)

-----------------------------------------------------------------------------
(* The client's variables.                                                 *)
ClientTyped ==
  /\ sent \in Seq(Message) /\ completed \in Seq(Indices)
  /\ written \in [ChunkStreams -> Nat] /\ send_chunk_size \in Nat \ {0}
  /\ buffer \in Seq(Unit) /\ network \in Seq(Unit)
  /\ \A i \in Indices : sent[i].kind \in Sized => sent[i].value > 0 /\ sent[i].length > 0
  /\ \A i \in Indices : sent[i].cs = ControlStream => sent[i].time = 0
  /\ \A cs \in ChunkStreams : Previous(cs) # 0 =>
       Previous(cs) \in Indices /\ sent[Previous(cs)].cs = cs
  /\ \A cs \in ChunkStreams :
       IsOpen(cs) => written[cs] \in 1 .. sent[Previous(cs)].length - 1

(* The messages the server keeps and gives away.                           *)
Entry ==
  [kind : Types, msg_length : Nat, timestamp : Numbers, abs_timestamp : Nat,
   msg_stream_id : {0, 1}, recv_buf : Seq(Unit)]

(* The header the parser shares between chunks.                            *)
HeaderType ==
  [format_type : 0 .. 3, chunk_stream_id : ChunkStreams, timestamp : Numbers,
   timestamp_delta : Numbers, msg_length : Nat, msg_type_id : Types, msg_stream_id : {0, 1}]

ServerTyped == delivered \in Seq(Entry) /\ incomplete \in [DOMAIN incomplete -> Entry]

(* The window is counted from a point that is not negative.                *)
WindowCounts == ack.next_ack_send_size >= ack.win_ack_size

(* Chunks that are not cut arrive whole: what is on its way begins with a   *)
(* chunk.                                                                  *)
WholeChunks == ~SplitChunks /\ network # <<>> => network[1].field = "basic"

(* What was delivered has the client's time, if that can be trusted.       *)
DeliveredInTime == Timed => TimestampsMeant

ReaderInv ==
  /\ ClientTyped /\ ServerTyped /\ TypeOK /\ WindowCounts /\ AckWithinWindow
  /\ DeliveredInOrder
  /\ pc # "closed" => InStep
-----------------------------------------------------------------------------
(* The lesser of two numbers.                                              *)
LEMMA MinOf ==
  ASSUME NEW a \in Int, NEW b \in Int
  PROVE  Min({a, b}) = IF a <= b THEN a ELSE b
BY DEF Min

(* What is left when the parser has taken n units of its buffer.           *)
Left(b, n) == SubSeq(b, n + 1, Len(b))

(* Its units are those behind the first n.                                 *)
LEMMA LeftFacts ==
  ASSUME NEW b \in Seq(Unit), NEW w \in Seq(Unit), NEW n \in 0 .. Len(b)
  PROVE  /\ Left(b, n) \in Seq(Unit)
         /\ Len(Left(b, n) \o w) = Len(b \o w) - n
         /\ \A k \in 1 .. Len(Left(b, n) \o w) : (Left(b, n) \o w)[k] = (b \o w)[k + n]
<1> DEFINE left == Left(b, n)
<1>1. left \in Seq(Unit) /\ Len(left) = Len(b) - n
  BY DEF Left
<1>2. \A k \in 1 .. Len(left) : left[k] = b[k + n]
  BY DEF Left
<1> HIDE DEF left
<1>3. Len(left \o w) = Len(left) + Len(w) /\ Len(b \o w) = Len(b) + Len(w)
  BY <1>1
<1>4. \A k \in 1 .. Len(left \o w) : (left \o w)[k] = (b \o w)[k + n]
  <2> SUFFICES ASSUME NEW k \in 1 .. Len(left \o w)
               PROVE  (left \o w)[k] = (b \o w)[k + n]
    OBVIOUS
  <2>1. CASE k <= Len(left)
    BY <1>1, <1>2, <2>1
  <2>2. CASE k > Len(left)
    <3>1. (left \o w)[k] = w[k - Len(left)]
      BY <1>1, <1>3, <2>2
    <3>2. (b \o w)[k + n] = w[(k + n) - Len(b)]
      BY <1>1, <1>3, <2>2
    <3> QED BY <1>1, <3>1, <3>2
  <2> QED BY <1>1, <2>1, <2>2
<1>5. Len(left \o w) = Len(b \o w) - n
  BY <1>1, <1>3
<1> QED BY <1>1, <1>4, <1>5 DEF left

(* The payload bytes of a chunk.                                           *)
LEMMA PayloadFacts ==
  ASSUME NEW i \in Nat, NEW a \in Nat, NEW b \in Nat, a <= b
  PROVE  /\ Payload(i, a, b) \in Seq(Unit) /\ Len(Payload(i, a, b)) = b - a
         /\ \A n \in 1 .. b - a :
              Payload(i, a, b)[n] = [field |-> "data", bytes |-> 1, msg |-> i, at |-> a + n]
<1>1. b - a \in Nat
  OBVIOUS
<1>2. \A n \in 1 .. b - a :
        [field |-> "data", bytes |-> 1, msg |-> i, at |-> a + n] \in Unit
  BY DEF Unit, DataUnit
<1> QED BY <1>1, <1>2 DEF Payload

(* The first b payload bytes of a message.                                 *)
LEMMA PayloadFrom ==
  ASSUME NEW i \in Nat, NEW b \in Nat
  PROVE  /\ Payload(i, 0, b) \in Seq(Unit) /\ Len(Payload(i, 0, b)) = b
         /\ b > 0 => Head(Payload(i, 0, b)).msg = i
<1>1. PICK a \in Nat : a = 0
  OBVIOUS
<1>2. /\ Payload(i, a, b) \in Seq(Unit) /\ Len(Payload(i, a, b)) = b - a
      /\ \A n \in 1 .. b - a :
           Payload(i, a, b)[n] = [field |-> "data", bytes |-> 1, msg |-> i, at |-> a + n]
  <2>1. a <= b
    BY <1>1
  <2> QED BY <2>1, PayloadFacts
<1>3. Len(Payload(i, a, b)) = b
  BY <1>1, <1>2
<1>4. b > 0 => Payload(i, a, b)[1].msg = i
  <2>1. b > 0 => 1 \in 1 .. b - a
    BY <1>1
  <2> QED BY <1>2, <2>1
<1>5. b > 0 => Head(Payload(i, a, b)) = Payload(i, a, b)[1]
  BY <1>2, <1>3
<1> QED BY <1>1, <1>2, <1>3, <1>4, <1>5

(* The payload of a message comes chunk by chunk.                          *)
LEMMA PayloadJoin ==
  ASSUME NEW i \in Nat, NEW a \in Nat, NEW b \in Nat, a <= b
  PROVE  Payload(i, 0, a) \o Payload(i, a, b) = Payload(i, 0, b)
BY DEF Payload

(* The header fields of a message behind the basic header: none in type 3, *)
(* else the fields of its type, and an extended timestamp behind the mark. *)
LEMMA HeaderFacts ==
  ASSUME NEW m \in Message
  PROVE  /\ MessageHeader(m) \in Seq(Unit)
         /\ IF m.fmt = CONTINUATION THEN Len(MessageHeader(m)) = 0
            ELSE /\ Len(MessageHeader(m)) \in 1 .. 2
                 /\ MessageHeader(m)[1] \in MessageUnit
                 /\ MessageHeader(m)[1].length = m.length
                 /\ MessageHeader(m)[1].kind = m.kind
                 /\ MessageHeader(m)[1].timestamp = ExtendedMark <=> Len(MessageHeader(m)) = 2
                 /\ Len(MessageHeader(m)) = 1 => MessageHeader(m)[1].timestamp = Stamp(m)
                 /\ Len(MessageHeader(m)) = 2 =>
                      /\ MessageHeader(m)[2] \in ExtendedUnit
                      /\ MessageHeader(m)[2].timestamp = Stamp(m)
<1> DEFINE h == MessageHeader(m)
           first == [field |-> "message", bytes |-> <<11, 7, 3>>[m.fmt + 1],
                     timestamp |-> Min({Stamp(m), ExtendedMark}),
                     length |-> m.length, kind |-> m.kind, sid |-> m.sid]
           second == [field |-> "extended", bytes |-> 4, timestamp |-> Stamp(m)]
<1>a. ExtendedMark \in Nat
  BY ParameterAssumption
<1>b. divisor \in Nat /\ divisor > 0
  BY HalfDivisorAssumption DEF divisor
<1>1. Stamp(m) \in Numbers
  <2>1. m.time \in Nat /\ m.delta \in Numbers
    BY DEF Message
  <2>2. m.time % divisor \in 0 .. divisor - 1
    BY <2>1, <1>b
  <2> QED BY <2>1, <2>2 DEF Stamp, serialnumber, Numbers
<1>2. CASE m.fmt = CONTINUATION
  BY <1>2 DEF MessageHeader
<1>3. CASE m.fmt # CONTINUATION
  <2>1. m.fmt \in {0, 1, 2}
    BY <1>3 DEF Message, CONTINUATION
  <2>2. <<11, 7, 3>>[m.fmt + 1] \in Nat \ {0}
    BY <2>1
  <2>3. Min({Stamp(m), ExtendedMark}) = IF Stamp(m) <= ExtendedMark THEN Stamp(m) ELSE ExtendedMark
    BY <1>1, <1>a, <1>b, MinOf DEF Numbers
  <2>4. Min({Stamp(m), ExtendedMark}) \in Numbers
    BY <1>1, <1>a, <1>b, <2>3 DEF Numbers
  <2>5. first \in MessageUnit /\ first.length = m.length /\ first.kind = m.kind
    BY <2>2, <2>4 DEF MessageUnit, Message
  <2>6. second \in ExtendedUnit /\ second.timestamp = Stamp(m)
    BY <1>1 DEF ExtendedUnit
  <2>7. /\ first.timestamp = ExtendedMark <=> ~(Stamp(m) < ExtendedMark)
        /\ Stamp(m) < ExtendedMark => first.timestamp = Stamp(m)
    BY <1>1, <1>a, <1>b, <2>3 DEF Numbers
  <2>8. h = IF Stamp(m) < ExtendedMark THEN <<first>> ELSE <<first, second>>
    BY <1>3 DEF MessageHeader
  <2> HIDE DEF first, second, h
  <2>9. first \in Unit /\ second \in Unit
    BY <2>5, <2>6 DEF Unit
  <2>10. CASE Stamp(m) < ExtendedMark
    <3>1. h = <<first>> /\ h \in Seq(Unit)
      BY <2>8, <2>9, <2>10
    <3>2. Len(h) = 1 /\ h[1] = first
      BY <3>1
    <3> QED BY <1>3, <3>1, <3>2, <2>5, <2>7, <2>10 DEF h
  <2>11. CASE ~(Stamp(m) < ExtendedMark)
    <3>1. h = <<first, second>> /\ h \in Seq(Unit)
      BY <2>8, <2>9, <2>11
    <3>2. Len(h) = 2 /\ h[1] = first /\ h[2] = second
      BY <3>1
    <3> QED BY <1>3, <3>1, <3>2, <2>5, <2>6, <2>7, <2>11 DEF h
  <2> QED BY <2>10, <2>11
<1> QED BY <1>2, <1>3

(* Where a chunk ends.                                                     *)
LEMMA ToFacts ==
  ASSUME NEW s \in Point, NEW m \in Message, From(s, m) <= m.length
  PROVE  /\ From(s, m) \in Nat /\ To(s, m) \in Nat
         /\ From(s, m) <= To(s, m) /\ To(s, m) <= m.length
         /\ From(s, m) < m.length => From(s, m) < To(s, m)
         /\ ~IsWhole(s, m) => To(s, m) = From(s, m) + s.size
BY DEF From, To, IsWhole, Point, Message

(* Three pieces put together, by their positions.                          *)
LEMMA ThreePieces ==
  ASSUME NEW S, NEW a \in S, NEW b \in Seq(S), NEW c \in Seq(S)
  PROVE  /\ (<<a>> \o b) \o c \in Seq(S)
         /\ Len((<<a>> \o b) \o c) = (1 + Len(b)) + Len(c)
         /\ ((<<a>> \o b) \o c)[1] = a
         /\ \A j \in 1 .. Len(b) : ((<<a>> \o b) \o c)[1 + j] = b[j]
         /\ \A j \in 1 .. Len(c) : ((<<a>> \o b) \o c)[(1 + Len(b)) + j] = c[j]
<1>1. /\ <<a>> \o b \in Seq(S) /\ Len(<<a>> \o b) = 1 + Len(b) /\ (<<a>> \o b)[1] = a
      /\ \A j \in 1 .. Len(b) : (<<a>> \o b)[1 + j] = b[j]
  OBVIOUS
<1> DEFINE d == <<a>> \o b
<1>2. d \in Seq(S) /\ Len(d) = 1 + Len(b) /\ d[1] = a /\ \A j \in 1 .. Len(b) : d[1 + j] = b[j]
  BY <1>1
<1> HIDE DEF d
<1>3. d \o c \in Seq(S) /\ Len(d \o c) = Len(d) + Len(c) /\ Len(d) \in Nat /\ Len(c) \in Nat
  BY <1>2, ConcatProperties, LenProperties
<1>a. \A j \in 1 .. Len(d) : (d \o c)[j] = d[j]
  BY <1>2, <1>3, ConcatProperties
<1>b. \A j \in 1 .. Len(c) : (d \o c)[Len(d) + j] = c[j]
  <2> SUFFICES ASSUME NEW j \in 1 .. Len(c) PROVE (d \o c)[Len(d) + j] = c[j]
    OBVIOUS
  <2> DEFINE k == Len(d) + j
  <2>1. k \in 1 .. Len(d) + Len(c) /\ ~(k <= Len(d)) /\ k - Len(d) = j
    BY <1>3
  <2> HIDE DEF k
  <2>2. (d \o c)[k] = c[k - Len(d)]
    BY <1>2, <1>3, <2>1, ConcatProperties
  <2> QED BY <2>1, <2>2 DEF k
<1>4. (d \o c)[1] = a
  <2>1. 1 \in 1 .. Len(d)
    BY <1>2, <1>3, LenProperties
  <2> QED BY <1>2, <1>a, <2>1
<1>5. \A j \in 1 .. Len(b) : (d \o c)[1 + j] = b[j]
  <2> SUFFICES ASSUME NEW j \in 1 .. Len(b) PROVE (d \o c)[1 + j] = b[j]
    OBVIOUS
  <2>1. 1 + j \in 1 .. Len(d)
    BY <1>2, <1>3, LenProperties
  <2> QED BY <1>2, <1>a, <2>1
<1>6. \A j \in 1 .. Len(c) : (d \o c)[(1 + Len(b)) + j] = c[j]
  BY <1>2, <1>b
<1> QED BY <1>2, <1>3, <1>4, <1>5, <1>6 DEF d

(* The units of a chunk: the basic header, the header of a message that    *)
(* begins, and the payload.                                                *)
LEMMA ChunkFacts ==
  ASSUME NEW s \in Point, NEW i \in Nat, NEW m \in Message, From(s, m) <= m.length
  PROVE  /\ NextChunk(s, i, m) \in Seq(Unit) /\ Headers(s, m) \in 1 .. 3
         /\ Len(NextChunk(s, i, m)) = Headers(s, m) + (To(s, m) - From(s, m))
         /\ NextChunk(s, i, m)[1] =
              [field |-> "basic", bytes |-> 1, fmt |-> Format(s, m), cs |-> m.cs]
         /\ Headers(s, m) > 1 =>
              From(s, m) = 0 /\ NextChunk(s, i, m)[2] = MessageHeader(m)[1]
         /\ Headers(s, m) > 2 => NextChunk(s, i, m)[3] = MessageHeader(m)[2]
         /\ \A j \in 1 .. To(s, m) - From(s, m) :
              NextChunk(s, i, m)[Headers(s, m) + j] =
                [field |-> "data", bytes |-> 1, msg |-> i, at |-> From(s, m) + j]
<1> DEFINE h == Headers(s, m)
           from == From(s, m)
           to == To(s, m)
           basic == [field |-> "basic", bytes |-> 1, fmt |-> Format(s, m), cs |-> m.cs]
           fields == IF from = 0 THEN MessageHeader(m) ELSE <<>>
           bytes == Payload(i, from, to)
<1>1. /\ from \in Nat /\ to \in Nat /\ from <= to
  BY ToFacts
<1>2. basic \in Unit
  BY DEF Unit, BasicUnit, Format, Message, CONTINUATION
<1>3. fields \in Seq(Unit) /\ Len(fields) \in 0 .. 2 /\ h = 1 + Len(fields)
  BY <1>1, HeaderFacts DEF Headers
<1>4. /\ bytes \in Seq(Unit) /\ Len(bytes) = to - from
      /\ \A j \in 1 .. to - from :
           bytes[j] = [field |-> "data", bytes |-> 1, msg |-> i, at |-> from + j]
  BY <1>1, PayloadFacts
<1>5. NextChunk(s, i, m) = (<<basic>> \o fields) \o bytes
  BY <1>1 DEF NextChunk, Chunk, Format
<1>6. Len(fields) > 0 => from = 0 /\ fields = MessageHeader(m)
  OBVIOUS
<1>7. /\ NextChunk(s, i, m) \in Seq(Unit)
      /\ Len(NextChunk(s, i, m)) = (1 + Len(fields)) + Len(bytes)
      /\ NextChunk(s, i, m)[1] = basic
      /\ \A j \in 1 .. Len(fields) : NextChunk(s, i, m)[1 + j] = fields[j]
      /\ \A j \in 1 .. Len(bytes) : NextChunk(s, i, m)[(1 + Len(fields)) + j] = bytes[j]
  <2> HIDE DEF fields, basic, bytes, h, from, to
  <2>1. fields \in Seq(Unit) /\ bytes \in Seq(Unit)
    BY <1>3, <1>4
  <2> DEFINE all == (<<basic>> \o fields) \o bytes
  <2>2. /\ all \in Seq(Unit) /\ Len(all) = (1 + Len(fields)) + Len(bytes) /\ all[1] = basic
        /\ \A j \in 1 .. Len(fields) : all[1 + j] = fields[j]
        /\ \A j \in 1 .. Len(bytes) : all[(1 + Len(fields)) + j] = bytes[j]
    BY <1>2, <2>1, ThreePieces
  <2> QED BY <1>5, <2>2
<1> HIDE DEF h, from, to, basic, fields, bytes
<1>8. h > 1 => from = 0 /\ NextChunk(s, i, m)[2] = MessageHeader(m)[1]
  <2> SUFFICES ASSUME h > 1 PROVE from = 0 /\ NextChunk(s, i, m)[2] = MessageHeader(m)[1]
    OBVIOUS
  <2>1. Len(fields) > 0 /\ 1 \in 1 .. Len(fields)
    BY <1>3
  <2> QED BY <1>6, <1>7, <2>1
<1>9. h > 2 => NextChunk(s, i, m)[3] = MessageHeader(m)[2]
  <2> SUFFICES ASSUME h > 2 PROVE NextChunk(s, i, m)[3] = MessageHeader(m)[2]
    OBVIOUS
  <2>1. Len(fields) > 0 /\ 2 \in 1 .. Len(fields)
    BY <1>3
  <2> QED BY <1>6, <1>7, <2>1
<1>10. \A j \in 1 .. to - from :
         NextChunk(s, i, m)[h + j] = [field |-> "data", bytes |-> 1, msg |-> i, at |-> from + j]
  BY <1>3, <1>4, <1>7
<1>11. Len(NextChunk(s, i, m)) = h + (to - from) /\ h \in 1 .. 3
  BY <1>3, <1>4, <1>7, SMTT(30)
<1> QED BY <1>7, <1>8, <1>9, <1>10, <1>11 DEF h, from, to, basic

(* After a chunk there is again a point.                                   *)
LEMMA AfterType ==
  ASSUME NEW s \in Point, NEW i \in Nat, NEW m \in Message, From(s, m) <= m.length,
         m.kind \in Sized => m.value > 0
  PROVE  After(s, i, m) \in Point
<1>1. To(s, m) \in Nat
  BY ToFacts
<1>2. m.cs \in ChunkStreams /\ m.value \in Nat /\ s.size \in Nat \ {0} /\ s.done \in Nat
  BY DEF Message, Point
<1>3. [s.progress EXCEPT ![m.cs] = IF IsWhole(s, m) THEN 0 ELSE To(s, m)] \in [ChunkStreams -> Nat]
  BY <1>1, <1>2 DEF Point
<1>4. [s.last EXCEPT ![m.cs] = i] \in [ChunkStreams -> Nat]
  BY <1>2 DEF Point
<1>5. (IF IsWhole(s, m) /\ m.kind = "SetChunkSize" THEN m.value ELSE s.size) \in Nat \ {0}
  BY <1>2 DEF Sized
<1> QED BY <1>2, <1>3, <1>4, <1>5 DEF After, Point
-----------------------------------------------------------------------------
(* The paths of n chunks.                                                  *)
Unders(n) == [1 .. n -> Indices]
Points(n) == [1 .. n + 1 -> Point]
Places(n) == [1 .. n + 1 -> Int]

(* What the client writes goes behind what is on its way.                  *)
LEMMA RestGrows ==
  ASSUME ClientTyped, NEW chunk \in Seq(Unit), buffer' = buffer, network' = network \o chunk
  PROVE  /\ Rest \in Seq(Unit) /\ Rest' = Rest \o chunk
         /\ Len(Rest') = Len(Rest) + Len(chunk)
         /\ \A k \in 1 .. Len(Rest) : Rest'[k] = Rest[k]
         /\ \A j \in 1 .. Len(chunk) : Rest'[Len(Rest) + j] = chunk[j]
<1>1. buffer \in Seq(Unit) /\ network \in Seq(Unit)
  BY DEF ClientTyped
<1>2. Rest \in Seq(Unit)
  BY <1>1, ConcatProperties DEF Rest
<1>3. buffer \o (network \o chunk) = (buffer \o network) \o chunk
  BY <1>1, ConcatAssociative
<1>4. Rest' = Rest \o chunk
  BY <1>3 DEF Rest
<1>5. Len(Rest') = Len(Rest) + Len(chunk) /\ Len(Rest) \in Nat /\ Len(chunk) \in Nat
  BY <1>2, <1>4, ConcatProperties, LenProperties
<1>6. \A k \in 1 .. Len(Rest) : Rest'[k] = Rest[k]
  BY <1>2, <1>4, <1>5, ConcatProperties
<1>7. \A j \in 1 .. Len(chunk) : Rest'[Len(Rest) + j] = chunk[j]
  <2> SUFFICES ASSUME NEW j \in 1 .. Len(chunk) PROVE Rest'[Len(Rest) + j] = chunk[j]
    OBVIOUS
  <2> DEFINE k == Len(Rest) + j
  <2>1. k \in 1 .. Len(Rest) + Len(chunk) /\ ~(k <= Len(Rest)) /\ k - Len(Rest) = j
    BY <1>5
  <2> HIDE DEF k
  <2>2. Rest'[k] = chunk[k - Len(Rest)]
    BY <1>2, <1>4, <1>5, <2>1, ConcatProperties
  <2> QED BY <2>1, <2>2 DEF k
<1> QED BY <1>2, <1>4, <1>5, <1>6, <1>7

(* A chunk keeps its place when the parser takes what is before or of it.  *)
LEMMA RestTaken ==
  ASSUME ClientTyped, NEW c \in 0 .. Len(buffer), buffer' = Left(buffer, c), network' = network
  PROVE  /\ Rest \in Seq(Unit) /\ buffer' \in Seq(Unit)
         /\ Len(Rest') = Len(Rest) - c
         /\ \A k \in 1 .. Len(Rest') : Rest'[k] = Rest[k + c]
<1>1. buffer \in Seq(Unit) /\ network \in Seq(Unit)
  BY DEF ClientTyped
<1>2. Rest \in Seq(Unit)
  BY <1>1, ConcatProperties DEF Rest
<1>3. Rest' = Left(buffer, c) \o network
  BY DEF Rest
<1> QED BY <1>1, <1>2, <1>3, LeftFacts DEF Rest

(* A chunk still fits, nearer by what the parser has taken.                *)
LEMMA FitsTaken ==
  ASSUME ClientTyped, NEW c \in 0 .. Len(buffer), buffer' = Left(buffer, c), network' = network,
         NEW chunk \in Seq(Unit), NEW a \in Int, Fits(chunk, a)
  PROVE  Fits(chunk, a - c)'
<1> SUFFICES ASSUME NEW j \in 1 .. Len(chunk), (a - c) + j >= 1
             PROVE  (a - c) + j <= Len(Rest') /\ Rest'[(a - c) + j] = chunk[j]
  BY DEF Fits
<1>1. Len(chunk) \in Nat /\ Len(Rest) \in Nat /\ Len(buffer) \in Nat
  BY RestTaken, LenProperties DEF ClientTyped
<1>2. a + j <= Len(Rest) /\ Rest[a + j] = chunk[j]
  BY <1>1 DEF Fits
<1>3. (a - c) + j \in 1 .. Len(Rest') /\ ((a - c) + j) + c = a + j
  BY <1>1, <1>2, RestTaken
<1>4. Rest'[(a - c) + j] = Rest[((a - c) + j) + c]
  BY <1>3, RestTaken
<1> QED BY <1>2, <1>3, <1>4

(* A chunk still fits when more is written behind it.                      *)
LEMMA FitsGrown ==
  ASSUME ClientTyped, NEW more \in Seq(Unit), buffer' = buffer, network' = network \o more,
         NEW chunk \in Seq(Unit), NEW a \in Int, Fits(chunk, a)
  PROVE  Fits(chunk, a)'
<1> SUFFICES ASSUME NEW j \in 1 .. Len(chunk), a + j >= 1
             PROVE  a + j <= Len(Rest') /\ Rest'[a + j] = chunk[j]
  BY DEF Fits
<1>1. Len(chunk) \in Nat /\ Len(Rest) \in Nat /\ Len(more) \in Nat
  BY RestGrows, LenProperties
<1>2. a + j <= Len(Rest) /\ Rest[a + j] = chunk[j]
  BY <1>1 DEF Fits
<1>3. a + j \in 1 .. Len(Rest)
  BY <1>1, <1>2
<1> QED BY <1>1, <1>2, <1>3, RestGrows, SMTT(30)

(* What a link says of its chunk.                                          *)
LEMMA LinkFacts ==
  ASSUME ClientTyped, NEW i \in Indices, NEW s \in Point, NEW t, NEW a \in Int, NEW b,
         Link(i, s, t, a, b)
  PROVE  /\ i \in Nat /\ sent[i] \in Message
         /\ From(s, sent[i]) \in Nat /\ From(s, sent[i]) <= sent[i].length
         /\ NextChunk(s, i, sent[i]) \in Seq(Unit) /\ Len(NextChunk(s, i, sent[i])) \in Nat
<1> DEFINE m == sent[i]
<1>1. i \in Nat /\ m \in Message
  BY DEF ClientTyped, Indices
<1>2. m.length \in Nat /\ From(s, m) \in Nat
  BY <1>1 DEF Message, Point, From
<1>3. From(s, m) <= m.length
  BY <1>2 DEF Link, Comes
<1> HIDE DEF m
<1>4. NextChunk(s, i, m) \in Seq(Unit)
  BY <1>1, <1>3, ChunkFacts
<1> QED BY <1>1, <1>2, <1>3, <1>4, LenProperties DEF m

(* The parser takes units: the chunk stays, nearer by as many.             *)
LEMMA LinkTaken ==
  ASSUME ClientTyped, NEW c \in 0 .. Len(buffer), buffer' = Left(buffer, c), network' = network,
         UNCHANGED <<sent, completed>>,
         NEW i \in Indices, NEW s \in Point, NEW t, NEW a \in Int, NEW b, Link(i, s, t, a, b)
  PROVE  Link(i, s, t, a - c, b - c)'
<1>1. PICK chunk : chunk = NextChunk(s, i, sent[i])
  OBVIOUS
<1>2. chunk \in Seq(Unit) /\ Len(chunk) \in Nat
  BY <1>1, LinkFacts
<1>3. Comes(s, i) /\ t = After(s, i, sent[i]) /\ b = a + Len(chunk) /\ Fits(chunk, a)
  BY <1>1 DEF Link
<1>4. Fits(chunk, a - c)'
  BY <1>2, <1>3, FitsTaken
<1>5. Comes(s, i)'
  BY <1>3 DEF Comes, Follows, Indices
<1>6. b - c = (a - c) + Len(chunk)
  BY <1>2, <1>3
<1>7. chunk = NextChunk(s, i, sent'[i])
  BY <1>1
<1>8. t = After(s, i, sent'[i])
  BY <1>3
<1> QED BY <1>4, <1>5, <1>6, <1>7, <1>8 DEF Link

(* What a message followed, it still follows when the client sends more.   *)
LEMMA FollowsStays ==
  ASSUME Indices \subseteq Indices', \A k \in Indices : sent'[k] = sent[k],
         NEW m, NEW p, Follows(m, p)
  PROVE  Follows(m, p)'
BY DEF Follows

(* The client writes a chunk behind: the others stay.                      *)
LEMMA LinkGrown ==
  ASSUME ClientTyped, NEW more \in Seq(Unit), buffer' = buffer, network' = network \o more,
         Indices \subseteq Indices', \A k \in Indices : sent'[k] = sent[k],
         DOMAIN completed \subseteq DOMAIN completed',
         \A k \in DOMAIN completed : completed'[k] = completed[k],
         NEW i \in Indices, NEW s \in Point, NEW t, NEW a \in Int, NEW b, Link(i, s, t, a, b)
  PROVE  Link(i, s, t, a, b)'
<1>1. PICK chunk : chunk = NextChunk(s, i, sent[i])
  OBVIOUS
<1>2. chunk \in Seq(Unit) /\ Len(chunk) \in Nat
  BY <1>1, LinkFacts
<1>3. Comes(s, i) /\ t = After(s, i, sent[i]) /\ b = a + Len(chunk) /\ Fits(chunk, a)
  BY <1>1 DEF Link
<1>4. Fits(chunk, a)'
  BY <1>2, <1>3, FitsGrown
<1>5. Comes(s, i)'
  BY <1>3, FollowsStays DEF Comes
<1>6. sent'[i] = sent[i]
  OBVIOUS
<1> QED BY <1>1, <1>3, <1>4, <1>5, <1>6 DEF Link

(* The client's point follows from its variables.                          *)
LEMMA ClientStays ==
  ASSUME UNCHANGED clientVars
  PROVE  ClientPoint' = ClientPoint /\ Indices' = Indices
BY DEF clientVars, ClientPoint, IsOpen, Previous, SelectLastInSeq, Contains, Indices

(* So does the whole path from the parser to the client.                   *)
LEMMA PathTaken ==
  ASSUME ClientTyped, NEW c \in 0 .. Len(buffer), buffer' = Left(buffer, c), network' = network,
         UNCHANGED clientVars,
         NEW n \in Nat, NEW under \in Unders(n), NEW points \in Points(n),
         NEW at \in Places(n), Path(n, under, points, at)
  PROVE  Path(n, under, points, [k \in 1 .. n + 1 |-> at[k] - c])'
<1> DEFINE near == [k \in 1 .. n + 1 |-> at[k] - c]
<1>1. UNCHANGED <<sent, completed>> /\ ClientPoint' = ClientPoint
  BY ClientStays DEF clientVars
<1>2. ASSUME NEW k \in 1 .. n
      PROVE  Link(under[k], points[k], points[k + 1], near[k], near[k + 1])'
  <2>1. Link(under[k], points[k], points[k + 1], at[k], at[k + 1])
    BY DEF Path
  <2>2. under[k] \in Indices /\ points[k] \in Point /\ at[k] \in Int
    BY DEF Unders, Points, Places
  <2>3. Link(under[k], points[k], points[k + 1], at[k] - c, at[k + 1] - c)'
    BY <1>1, <2>1, <2>2, LinkTaken
  <2>4. near[k + 1] = at[k + 1] - c /\ near[k] = at[k] - c
    OBVIOUS
  <2> QED BY <2>3, <2>4
<1>3. points[n + 1] = ClientPoint'
  BY <1>1 DEF Path
<1>4. near[n + 1] = Len(Rest')
  <2>1. at[n + 1] = Len(Rest) /\ n + 1 \in 1 .. n + 1
    BY DEF Path
  <2> QED BY <2>1, RestTaken
<1> QED BY <1>2, <1>3, <1>4 DEF Path

(* Without its first chunk a path is a path.                               *)
Later(f, n) == [k \in 1 .. n |-> f[k + 1]]

(* The path from the second point on.                                      *)
LEMMA PathNext ==
  ASSUME NEW n \in Nat, n > 0, NEW under \in Unders(n), NEW points \in Points(n),
         NEW at \in Places(n), Path(n, under, points, at)
  PROVE  /\ Later(under, n - 1) \in Unders(n - 1) /\ Later(points, n) \in Points(n - 1)
         /\ Later(at, n) \in Places(n - 1)
         /\ Path(n - 1, Later(under, n - 1), Later(points, n), Later(at, n))
         /\ Later(points, n)[1] = points[2] /\ Later(at, n)[1] = at[2]
<1> DEFINE under2 == Later(under, n - 1)
           points2 == Later(points, n)
           at2 == Later(at, n)
<1>1. under2 \in Unders(n - 1) /\ points2 \in Points(n - 1) /\ at2 \in Places(n - 1)
  BY DEF Unders, Points, Places, Later
<1>2. ASSUME NEW k \in 1 .. n - 1
      PROVE  Link(under2[k], points2[k], points2[k + 1], at2[k], at2[k + 1])
  <2>1. k + 1 \in 1 .. n /\ k \in 1 .. n /\ k \in 1 .. n - 1
    OBVIOUS
  <2>2. /\ under2[k] = under[k + 1] /\ points2[k] = points[k + 1] /\ at2[k] = at[k + 1]
        /\ points2[k + 1] = points[(k + 1) + 1] /\ at2[k + 1] = at[(k + 1) + 1]
    BY <2>1 DEF Later
  <2> HIDE DEF under2, points2, at2
  <2> QED BY <2>1, <2>2 DEF Path
<1>3. points2[(n - 1) + 1] = ClientPoint /\ at2[(n - 1) + 1] = Len(Rest)
  <2>1. points2[(n - 1) + 1] = points[n + 1] /\ at2[(n - 1) + 1] = at[n + 1]
    BY DEF Later
  <2> QED BY <2>1 DEF Path
<1>4. Path(n - 1, under2, points2, at2)
  BY <1>2, <1>3 DEF Path
<1>5. points2[1] = points[2] /\ at2[1] = at[2]
  BY DEF Later
<1> QED BY <1>1, <1>4, <1>5

(* With one more chunk behind it a path is a path.                         *)
Longer(f, n, x) == [k \in 1 .. n + 1 |-> IF k <= n THEN f[k] ELSE x]

(* The client, at point c, writes the chunk of the i-th message that leads  *)
(* to point d and ends at position far.                                    *)
Grows(more, i, c, d, far) ==
  /\ buffer' = buffer /\ network' = network \o more
  /\ Indices \subseteq Indices' /\ \A k \in Indices : sent'[k] = sent[k]
  /\ DOMAIN completed \subseteq DOMAIN completed'
  /\ \A k \in DOMAIN completed : completed'[k] = completed[k]
  /\ i \in Indices' /\ c = ClientPoint /\ ClientPoint' = d
  /\ Comes(c, i)' /\ d = After(c, i, sent'[i]) /\ more = NextChunk(c, i, sent'[i])
  /\ far = Len(Rest) + Len(more)

(* A path with one more link behind it leads to the client's new point.    *)
LEMMA PathGrown ==
  ASSUME ClientTyped, NEW more \in Seq(Unit), NEW i, NEW c \in Point, NEW d \in Point, NEW far,
         Grows(more, i, c, d, far),
         NEW n \in Nat, NEW under \in Unders(n), NEW points \in Points(n),
         NEW at \in Places(n), Path(n, under, points, at)
  PROVE  /\ Longer(under, n, i) \in Unders(n + 1)'
         /\ Longer(points, n + 1, d) \in Points(n + 1)
         /\ Longer(at, n + 1, far) \in Places(n + 1)
         /\ Path(n + 1, Longer(under, n, i), Longer(points, n + 1, d), Longer(at, n + 1, far))'
<1>g. /\ buffer' = buffer /\ network' = network \o more
      /\ Indices \subseteq Indices' /\ \A k \in Indices : sent'[k] = sent[k]
      /\ DOMAIN completed \subseteq DOMAIN completed'
      /\ \A k \in DOMAIN completed : completed'[k] = completed[k]
      /\ i \in Indices' /\ c = ClientPoint /\ ClientPoint' = d
      /\ Comes(c, i)' /\ d = After(c, i, sent'[i]) /\ more = NextChunk(c, i, sent'[i])
      /\ far = Len(Rest) + Len(more)
  BY DEF Grows
<1>a. Len(Rest) \in Nat /\ Len(more) \in Nat
  BY <1>g, RestGrows, LenProperties
<1> DEFINE under2 == Longer(under, n, i)
           points2 == Longer(points, n + 1, d)
           at2 == Longer(at, n + 1, far)
<1>1. under2 \in Unders(n + 1)' /\ points2 \in Points(n + 1) /\ at2 \in Places(n + 1)
  BY <1>a, <1>g DEF Unders, Points, Places, Longer
<1>2. ASSUME NEW k \in 1 .. n + 1
      PROVE  Link(under2[k], points2[k], points2[k + 1], at2[k], at2[k + 1])'
  <2>1. CASE k <= n
    <3>1. /\ under2[k] = under[k] /\ points2[k] = points[k] /\ at2[k] = at[k]
          /\ points2[k + 1] = points[k + 1] /\ at2[k + 1] = at[k + 1]
      BY <2>1 DEF Longer
    <3>2. Link(under[k], points[k], points[k + 1], at[k], at[k + 1])
      BY <2>1 DEF Path
    <3>3. under[k] \in Indices /\ points[k] \in Point /\ at[k] \in Int
      BY <2>1 DEF Unders, Points, Places
    <3>4. Link(under[k], points[k], points[k + 1], at[k], at[k + 1])'
      BY <1>g, <3>2, <3>3, LinkGrown
    <3> HIDE DEF under2, points2, at2
    <3> QED BY <3>1, <3>4
  <2>2. CASE k = n + 1
    <3>1. /\ under2[k] = i /\ points2[k] = points[n + 1] /\ at2[k] = at[n + 1]
          /\ points2[k + 1] = d /\ at2[k + 1] = far
      BY <2>2 DEF Longer
    <3>2. points[n + 1] = c /\ at[n + 1] = Len(Rest)
      BY <1>g DEF Path
    <3>3. Fits(more, at[n + 1])'
      <4> PICK a : a = at[n + 1]
        OBVIOUS
      <4>1. \A j \in 1 .. Len(more) : a + j >= 1 =>
              a + j <= Len(Rest') /\ Rest'[a + j] = more[j]
        <5> SUFFICES ASSUME NEW j \in 1 .. Len(more)
                     PROVE  a + j <= Len(Rest') /\ Rest'[a + j] = more[j]
          OBVIOUS
        <5>1. a = Len(Rest)
          BY <3>2
        <5>2. Len(Rest') = Len(Rest) + Len(more) /\ Rest'[Len(Rest) + j] = more[j]
          BY <1>g, RestGrows
        <5> QED BY <1>a, <5>1, <5>2
      <4> QED BY <4>1 DEF Fits
    <3> HIDE DEF under2, points2, at2
    <3>4. Link(i, c, d, at[n + 1], far)'
      BY <1>g, <3>2, <3>3 DEF Link
    <3> QED BY <3>1, <3>2, <3>4
  <2> QED BY <2>1, <2>2
<1>3. points2[(n + 1) + 1] = ClientPoint' /\ at2[(n + 1) + 1] = Len(Rest')
  <2>1. points2[(n + 1) + 1] = d /\ at2[(n + 1) + 1] = far
    BY DEF Longer
  <2> QED BY <1>g, <2>1, RestGrows
<1>4. Path(n + 1, under2, points2, at2)'
  BY <1>2, <1>3 DEF Path
<1> QED BY <1>1, <1>4
-----------------------------------------------------------------------------
(* The client writes a chunk.                                              *)

(* A message begun is the last one of its chunk stream.                    *)
LEMMA PreviousAppended ==
  ASSUME sent \in Seq(Message), NEW m \in Message, sent' = Append(sent, m)
  PROVE  /\ Previous(m.cs)' = Len(sent) + 1
         /\ \A cs \in ChunkStreams \ {m.cs} : Previous(cs)' = Previous(cs)
<1> DEFINE old(cs) == {k \in 1 .. Len(sent) : sent[k].cs = cs}
           new(cs) == {k \in 1 .. Len(sent') : sent'[k].cs = cs}
<1>1. /\ Len(sent) \in Nat /\ Len(sent') = Len(sent) + 1 /\ sent'[Len(sent) + 1] = m
      /\ \A k \in 1 .. Len(sent) : sent'[k] = sent[k]
  OBVIOUS
<1>2. \A cs : /\ Previous(cs) = IF old(cs) # {} THEN Max(old(cs)) ELSE 0
              /\ Previous(cs)' = IF new(cs) # {} THEN Max(new(cs)) ELSE 0
  BY DEF Previous, SelectLastInSeq
<1>3. Previous(m.cs)' = Len(sent) + 1
  <2> PICK S : S = new(m.cs)
    OBVIOUS
  <2>1. Len(sent) + 1 \in S /\ \A k \in S : k \in Nat /\ Len(sent) + 1 >= k
    BY <1>1
  <2>2. Max(S) \in S /\ \A k \in S : Max(S) >= k
    BY <2>1 DEF Max
  <2> PICK n : n = Max(S)
    OBVIOUS
  <2>3. n \in Nat /\ n >= Len(sent) + 1 /\ Len(sent) + 1 >= n
    BY <2>1, <2>2
  <2>a. ASSUME NEW a \in Nat, NEW b \in Nat, b >= a + 1, a + 1 >= b
        PROVE  b = a + 1
    BY <2>a
  <2> HIDE DEF old, new
  <2>4. n = Len(sent) + 1
    BY <1>1, <2>3, <2>a
  <2> QED BY <1>2, <2>1, <2>4
<1>4. ASSUME NEW cs \in ChunkStreams \ {m.cs}
      PROVE  Previous(cs)' = Previous(cs)
  <2>1. new(cs) = old(cs)
    BY <1>1
  <2> QED BY <1>2, <2>1
<1> QED BY <1>3, <1>4

(* The client's point is one.                                              *)
LEMMA ClientPointType ==
  ASSUME ClientTyped
  PROVE  ClientPoint \in Point
<1>1. \A cs \in ChunkStreams : Previous(cs) \in Nat
  BY DEF ClientTyped, Indices
<1>2. Len(completed) \in Nat
  BY LenProperties DEF ClientTyped
<1> QED BY <1>1, <1>2 DEF ClientPoint, Point, ClientTyped

(* The i-th message is m, the last of its chunk stream, and the client     *)
(* writes its next chunk, which begins it or finds it open.                *)
Turn(i, m) ==
  /\ i \in Indices' /\ sent'[i] = m
  /\ sent' \in Seq(Message) /\ Indices \subseteq Indices'
  /\ \A k \in Indices : sent'[k] = sent[k]
  /\ \A k \in Indices' : sent'[k].kind \in Sized => sent'[k].value > 0 /\ sent'[k].length > 0
  /\ \A k \in Indices' : sent'[k].cs = ControlStream => sent'[k].time = 0
  /\ Previous(m.cs)' = i
  /\ \A cs \in ChunkStreams \ {m.cs} : Previous(cs)' = Previous(cs)
  /\ ~ Contains(completed, i)
  /\ IF IsOpen(m.cs) THEN i = Previous(m.cs) ELSE Follows(m, Previous(m.cs))

Progress(cs) == IF IsOpen(cs) THEN written[cs] ELSE 0

(* What WriteChunk does, in the terms of the client's point.               *)
LEMMA ChunkWritten ==
  ASSUME ClientTyped, NEW m \in Message, NEW i \in Nat, Turn(i, m),
         WriteChunk(i, m, Progress(m.cs)),
         NEW c \in Point, c = ClientPoint
  PROVE  /\ From(c, m) = Progress(m.cs) /\ From(c, m) <= m.length
         /\ network' = network \o NextChunk(c, i, m)
         /\ written' = [written EXCEPT ![m.cs] = To(c, m)]
         /\ completed' = IF IsWhole(c, m) THEN Append(completed, i) ELSE completed
         /\ send_chunk_size' =
              IF IsWhole(c, m) /\ m.kind = "SetChunkSize" THEN m.value ELSE send_chunk_size
         /\ IsOpen(m.cs) => From(c, m) > 0 /\ From(c, m) < m.length
<1>0. m.cs \in ChunkStreams /\ m.length \in Nat
  BY DEF Message
<1>1. From(c, m) = Progress(m.cs) /\ c.size = send_chunk_size
  BY <1>0 DEF From, ClientPoint, Progress
<1>2. From(c, m) \in Nat
  BY <1>0 DEF Point, From
<1>3. IsOpen(m.cs) => From(c, m) > 0 /\ From(c, m) < m.length
  <2> SUFFICES ASSUME IsOpen(m.cs) PROVE From(c, m) > 0 /\ From(c, m) < m.length
    OBVIOUS
  <2>1. written[m.cs] \in 1 .. sent[Previous(m.cs)].length - 1 /\ Previous(m.cs) \in Indices
    BY <1>0 DEF ClientTyped, IsOpen
  <2>2. sent[Previous(m.cs)] = m
    BY <2>1 DEF Turn
  <2> QED BY <1>0, <1>1, <2>1, <2>2 DEF Progress
<1>4. From(c, m) <= m.length
  <2>1. CASE IsOpen(m.cs)
    BY <1>0, <1>2, <1>3, <2>1
  <2>2. CASE ~IsOpen(m.cs)
    BY <1>0, <1>1, <2>2 DEF Progress
  <2> QED BY <2>1, <2>2
<1>5. send_chunk_size \in Nat
  BY DEF ClientTyped
<1>6. Min({From(c, m) + send_chunk_size, m.length}) = To(c, m)
  BY <1>0, <1>1, <1>2, <1>5, MinOf DEF To
<1> QED BY <1>1, <1>3, <1>4, <1>6 DEF WriteChunk, NextChunk, IsWhole

(* What a sequence contains when an element is appended.                   *)
LEMMA ContainsAppended ==
  ASSUME NEW S, NEW q \in Seq(S), NEW x \in S, NEW e
  PROVE  Contains(Append(q, x), e) <=> Contains(q, e) \/ e = x
<1>1. /\ Len(q) \in Nat /\ Len(Append(q, x)) = Len(q) + 1 /\ Append(q, x)[Len(q) + 1] = x
      /\ \A k \in 1 .. Len(q) : Append(q, x)[k] = q[k]
  OBVIOUS
<1>2. PICK r : r = Append(q, x)
  OBVIOUS
<1>3. Contains(r, e) => Contains(q, e) \/ e = x
  BY <1>1, <1>2 DEF Contains
<1>4. Contains(q, e) => Contains(r, e)
  <2> SUFFICES ASSUME NEW k \in 1 .. Len(q), q[k] = e PROVE Contains(r, e)
    BY DEF Contains
  <2>1. k \in 1 .. Len(r) /\ r[k] = e
    BY <1>1, <1>2
  <2> QED BY <2>1 DEF Contains
<1>5. e = x => Contains(r, e)
  <2>1. Len(q) + 1 \in 1 .. Len(r) /\ r[Len(q) + 1] = x
    BY <1>1, <1>2
  <2> QED BY <2>1 DEF Contains
<1> QED BY <1>2, <1>3, <1>4, <1>5

(* A message is open until its last chunk is written; the others are as    *)
(* they were.                                                              *)
LEMMA OpenAfter ==
  ASSUME ClientTyped, NEW m \in Message, NEW i \in Nat, Turn(i, m),
         NEW whole \in BOOLEAN,
         completed' = IF whole THEN Append(completed, i) ELSE completed
  PROVE  /\ completed' \in Seq(Indices') /\ Len(completed) \in Nat
         /\ Len(completed') = IF whole THEN Len(completed) + 1 ELSE Len(completed)
         /\ \A k \in DOMAIN completed : k \in DOMAIN completed' /\ completed'[k] = completed[k]
         /\ whole => /\ Len(completed) + 1 \in DOMAIN completed'
                     /\ completed'[Len(completed) + 1] = i
         /\ IsOpen(m.cs)' <=> ~whole
         /\ \A cs \in ChunkStreams \ {m.cs} : IsOpen(cs)' <=> IsOpen(cs)
<1>1. completed \in Seq(Indices) /\ Indices \subseteq Indices' /\ i \in Indices' /\ i # 0
  BY DEF ClientTyped, Turn, Indices
<1>2. completed \in Seq(Indices')
  <2>1. ASSUME NEW A, NEW B, A \subseteq B PROVE Seq(A) \subseteq Seq(B)
    BY <2>1
  <2> QED BY <1>1, <2>1
<1>3. \A e : Contains(completed', e) <=> Contains(completed, e) \/ (whole /\ e = i)
  <2>1. CASE whole
    BY <1>1, <1>2, <2>1, ContainsAppended
  <2>2. CASE ~whole
    BY <2>2
  <2> QED BY <2>1, <2>2
<1>4. IsOpen(m.cs)' <=> ~whole
  <2>1. Previous(m.cs)' = i /\ ~Contains(completed, i)
    BY DEF Turn
  <2> QED BY <1>1, <1>3, <2>1 DEF IsOpen
<1>5. ASSUME NEW cs \in ChunkStreams \ {m.cs}
      PROVE  IsOpen(cs)' <=> IsOpen(cs)
  <2>1. Previous(cs)' = Previous(cs)
    BY DEF Turn
  <2>2. Previous(cs) # 0 => Previous(cs) # i
    <3>1. Previous(cs) # 0 => Previous(cs) \in Indices /\ sent[Previous(cs)].cs = cs
      BY DEF ClientTyped
    <3>2. \A k \in Indices : k = i => sent[k] = m
      BY DEF Turn
    <3> QED BY <3>1, <3>2
  <2> QED BY <1>3, <2>1, <2>2 DEF IsOpen
<1>6. /\ completed' \in Seq(Indices') /\ Len(completed) \in Nat
      /\ Len(completed') = IF whole THEN Len(completed) + 1 ELSE Len(completed)
      /\ \A k \in DOMAIN completed : k \in DOMAIN completed' /\ completed'[k] = completed[k]
      /\ whole => /\ Len(completed) + 1 \in DOMAIN completed'
                  /\ completed'[Len(completed) + 1] = i
  <2>1. PICK I : I = Indices'
    OBVIOUS
  <2>2. completed \in Seq(I) /\ i \in I
    BY <1>1, <1>2, <2>1
  <2>3. /\ Len(completed) \in Nat
        /\ Append(completed, i) \in Seq(I) /\ Len(Append(completed, i)) = Len(completed) + 1
        /\ \A k \in 1 .. Len(completed) : Append(completed, i)[k] = completed[k]
        /\ Append(completed, i)[Len(completed) + 1] = i
        /\ DOMAIN completed = 1 .. Len(completed)
        /\ DOMAIN Append(completed, i) = 1 .. Len(completed) + 1
    BY <2>2
  <2>4. CASE whole
    BY <2>1, <2>2, <2>3, <2>4
  <2>5. CASE ~whole
    BY <2>1, <2>2, <2>3, <2>5
  <2> QED BY <2>4, <2>5
<1> QED BY <1>4, <1>5, <1>6

(* The chunk leads from the client's point to its next one.                *)
LEMMA ClientTurn ==
  ASSUME ClientTyped, NEW m \in Message, NEW i \in Nat, Turn(i, m),
         WriteChunk(i, m, Progress(m.cs)), buffer' = buffer,
         NEW c \in Point, c = ClientPoint
  PROVE  ClientTyped' /\ Comes(c, i)' /\ ClientPoint' = After(c, i, m)
<1> DEFINE from == From(c, m)
           to == To(c, m)
           whole == IsWhole(c, m)
<1>0. /\ m.cs \in ChunkStreams /\ m.length \in Nat /\ m.value \in Nat
      /\ i \in Indices' /\ sent'[i] = m
  BY DEF Message, Turn
<1>1. /\ from = Progress(m.cs) /\ from <= m.length
      /\ network' = network \o NextChunk(c, i, m)
      /\ written' = [written EXCEPT ![m.cs] = to]
      /\ completed' = IF whole THEN Append(completed, i) ELSE completed
      /\ send_chunk_size' = IF whole /\ m.kind = "SetChunkSize" THEN m.value ELSE send_chunk_size
      /\ IsOpen(m.cs) => from > 0 /\ from < m.length
  BY ChunkWritten
<1>2. /\ from \in Nat /\ to \in Nat /\ from <= to /\ to <= m.length
      /\ from < m.length => from < to
  BY <1>1, ToFacts
<1>3. whole \in BOOLEAN /\ (whole <=> to = m.length)
  BY DEF IsWhole
<1> HIDE DEF from, to, whole
<1>4. /\ completed' \in Seq(Indices') /\ Len(completed) \in Nat
      /\ Len(completed') = IF whole THEN Len(completed) + 1 ELSE Len(completed)
      /\ whole => /\ Len(completed) + 1 \in DOMAIN completed'
                  /\ completed'[Len(completed) + 1] = i
      /\ IsOpen(m.cs)' <=> ~whole
      /\ \A cs \in ChunkStreams \ {m.cs} : IsOpen(cs)' <=> IsOpen(cs)
  BY <1>1, <1>3, OpenAfter
<1>5. ClientTyped'
  <2>1. sent' \in Seq(Message) /\ completed' \in Seq(Indices')
    BY <1>4 DEF Turn
  <2>2. written' \in [ChunkStreams -> Nat]
    BY <1>1, <1>2 DEF ClientTyped
  <2>3. \A k \in Indices' : sent'[k].kind \in Sized => sent'[k].value > 0 /\ sent'[k].length > 0
    BY DEF Turn
  <2>4. send_chunk_size' \in Nat \ {0}
    <3>1. m.kind = "SetChunkSize" => m.value > 0
      BY <1>0, <2>3 DEF Sized
    <3> QED BY <1>0, <1>1, <3>1 DEF ClientTyped
  <2>5. buffer' \in Seq(Unit) /\ network' \in Seq(Unit)
    <3>1. NextChunk(c, i, m) \in Seq(Unit)
      BY <1>1, ChunkFacts DEF from
    <3> QED BY <1>1, <3>1, ConcatProperties DEF ClientTyped
  <2>6. ASSUME NEW cs \in ChunkStreams, Previous(cs)' # 0
        PROVE  Previous(cs)' \in Indices' /\ sent'[Previous(cs)'].cs = cs
    <3>1. CASE cs = m.cs
      BY <1>0, <3>1 DEF Turn
    <3>2. CASE cs # m.cs
      <4>1. Previous(cs)' = Previous(cs)
        BY <3>2 DEF Turn
      <4>2. Previous(cs) \in Indices /\ sent[Previous(cs)].cs = cs
        BY <2>6, <4>1 DEF ClientTyped
      <4>3. \A k \in Indices : k \in Indices' /\ sent'[k] = sent[k]
        BY DEF Turn
      <4> QED BY <4>1, <4>2, <4>3
    <3> QED BY <3>1, <3>2
  <2>7. ASSUME NEW cs \in ChunkStreams, IsOpen(cs)'
        PROVE  written'[cs] \in 1 .. sent'[Previous(cs)'].length - 1
    <3>1. CASE cs = m.cs
      <4>1. Previous(cs)' = i /\ ~whole
        BY <1>4, <2>7, <3>1 DEF Turn
      <4>2. written'[cs] = to
        BY <1>0, <1>1, <3>1 DEF ClientTyped
      <4>3. to >= 1 /\ to < m.length
        BY <1>0, <1>1, <1>2, <1>3, <4>1
      <4> QED BY <1>0, <1>2, <4>1, <4>2, <4>3
    <3>2. CASE cs # m.cs
      <4>1. Previous(cs)' = Previous(cs) /\ IsOpen(cs)
        BY <1>4, <2>7, <3>2 DEF Turn
      <4>2. Previous(cs) \in Indices
        BY <4>1 DEF ClientTyped, IsOpen
      <4>3. sent'[Previous(cs)] = sent[Previous(cs)]
        BY <4>2 DEF Turn
      <4>4. written'[cs] = written[cs]
        BY <1>1, <3>2 DEF ClientTyped
      <4>5. written[cs] \in 1 .. sent[Previous(cs)].length - 1
        BY <4>1 DEF ClientTyped
      <4> QED BY <4>1, <4>3, <4>4, <4>5
    <3> QED BY <3>1, <3>2
  <2>8. \A k \in Indices' : sent'[k].cs = ControlStream => sent'[k].time = 0
    BY DEF Turn
  <2> QED BY <2>1, <2>2, <2>3, <2>4, <2>5, <2>6, <2>7, <2>8 DEF ClientTyped
<1>6. Comes(c, i)'
  <2>1. c.last[m.cs] = Previous(m.cs) /\ c.done = Len(completed)
    BY <1>0 DEF ClientPoint
  <2>2. whole => c.done + 1 \in DOMAIN completed' /\ completed'[c.done + 1] = i
    BY <1>4, <2>1
  <2>3. CASE IsOpen(m.cs)
    <3>1. i = Previous(m.cs) /\ from > 0 /\ from < m.length
      BY <1>1, <2>3 DEF Turn
    <3> QED BY <1>0, <2>1, <2>2, <3>1 DEF Comes, from, whole
  <2>4. CASE ~IsOpen(m.cs)
    <3>1. ~(from > 0)
      BY <1>1, <2>4 DEF Progress
    <3>2. Follows(m, Previous(m.cs)) /\ Indices \subseteq Indices'
          /\ \A k \in Indices : sent'[k] = sent[k]
      BY <2>4 DEF Turn
    <3>3. Follows(m, c.last[m.cs])'
      BY <2>1, <3>2 DEF Follows
    <3> QED BY <1>0, <2>1, <2>2, <3>1, <3>3 DEF Comes, from, whole
  <2> QED BY <2>3, <2>4
<1>7. ClientPoint' = After(c, i, m)
  <2>1. c.size = send_chunk_size /\ c.done = Len(completed)
    BY DEF ClientPoint
  <2>2. [cs \in ChunkStreams |-> IF IsOpen(cs)' THEN written'[cs] ELSE 0]
          = [c.progress EXCEPT ![m.cs] = IF whole THEN 0 ELSE to]
    <3>1. c.progress = [cs \in ChunkStreams |-> IF IsOpen(cs) THEN written[cs] ELSE 0]
      BY DEF ClientPoint
    <3>2. written \in [ChunkStreams -> Nat]
      BY DEF ClientTyped
    <3> QED BY <1>0, <1>1, <1>4, <3>1, <3>2
  <2>3. [cs \in ChunkStreams |-> Previous(cs)'] = [c.last EXCEPT ![m.cs] = i]
    <3>1. c.last = [cs \in ChunkStreams |-> Previous(cs)]
      BY DEF ClientPoint
    <3>2. Previous(m.cs)' = i /\ \A cs \in ChunkStreams \ {m.cs} : Previous(cs)' = Previous(cs)
      BY DEF Turn
    <3> QED BY <3>1, <3>2
  <2> QED BY <1>1, <1>4, <2>1, <2>2, <2>3 DEF ClientPoint, After, to, whole
<1> QED BY <1>5, <1>6, <1>7

(* The parser stands where it stood.                                       *)
serverVars ==
  <<parsing_state, headerVars, payloadVars, delivered>>

(* A clock that is trusted when more is sent was trusted before.           *)
LEMMA SameClock ==
  ASSUME Indices \subseteq Indices', \A k \in Indices : sent'[k] = sent[k]
  PROVE  (OneStream' => OneStream) /\ (Early' => Early) /\ (Timed' => Timed)
<1>1. OneStream' => OneStream
  BY DEF OneStream
<1>2. Early' => Early
  BY DEF Early
<1>3. SmallSteps' => SmallSteps
  BY DEF SmallSteps
<1> QED BY <1>1, <1>2, <1>3 DEF Timed

(* New messages of the client change nothing of the parser's clocks.       *)
LEMMA ClocksStay ==
  ASSUME Indices \subseteq Indices', \A k \in Indices : sent'[k] = sent[k],
         UNCHANGED payloadVars, NEW s \in Point, Clocks(s),
         \A cs \in ChunkStreams : s.last[cs] # 0 => s.last[cs] \in Indices,
         \A cs \in DOMAIN incomplete : cs \in ChunkStreams /\ s.last[cs] # 0
  PROVE  Clocks(s)'
<1>1. UNCHANGED <<incomplete, channels, last_message_timestamp, rollover_count>>
  BY DEF payloadVars
<1>2. \A cs \in ChunkStreams : s.last[cs] # 0 => sent'[s.last[cs]] = sent[s.last[cs]]
  OBVIOUS
<1>3. \A cs \in ChunkStreams : s.last[cs] # 0 => Tells(cs, s.last[cs])'
  BY <1>1, <1>2 DEF Clocks, Tells
<1>4. CountKept(s)'
  BY <1>1, <1>2, SameClock DEF Clocks, CountKept
<1>5. \A cs \in DOMAIN incomplete : incomplete[cs].abs_timestamp = sent'[s.last[cs]].time
  BY <1>2 DEF Clocks
<1> QED BY <1>1, <1>3, <1>4, <1>5 DEF Clocks

(* The parser stands where it stood when the client writes.                *)
LEMMA StandStays ==
  ASSUME Indices \subseteq Indices', \A k \in Indices : sent'[k] = sent[k],
         UNCHANGED serverVars, DOMAIN incomplete \subseteq ChunkStreams,
         NEW s \in Point, ServerAt(s)
  PROVE  /\ ServerAt(s)'
         /\ \A a : BetweenChunks(s, a) => BetweenChunks(s, a)'
         /\ \A i \in Indices : \A a : InChunk(s, i, a) => InChunk(s, i, a)'
<1>0. UNCHANGED <<parsing_state, field, header, incomplete, channels, recv_chunk_size, delivered>>
  BY DEF serverVars, headerVars, payloadVars
<1>1. \A cs : Received(cs)' = Received(cs)
  BY <1>0 DEF Received
<1>2. \A cs \in ChunkStreams : s.last[cs] # 0 =>
        /\ s.last[cs] \in Indices /\ s.last[cs] \in Indices'
        /\ sent'[s.last[cs]] = sent[s.last[cs]] /\ sent[s.last[cs]].cs = cs
  BY DEF ServerAt
<1>3. ASSUME NEW cs \in DOMAIN incomplete
      PROVE  /\ s.last[cs] # 0
             /\ Received(cs)' \in 1 .. sent'[s.last[cs]].length - 1
             /\ Carries(incomplete[cs], s.last[cs], Received(cs))'
  <2>1. /\ s.last[cs] # 0
        /\ Received(cs) \in 1 .. sent[s.last[cs]].length - 1
        /\ Carries(incomplete[cs], s.last[cs], Received(cs))
    BY DEF ServerAt
  <2>2. sent'[s.last[cs]] = sent[s.last[cs]] /\ incomplete' = incomplete
    BY <1>0, <1>2, <2>1
  <2>3. Carries(incomplete[cs], s.last[cs], Received(cs))'
    BY <1>1, <2>1, <2>2 DEF Carries
  <2> QED BY <1>1, <2>1, <2>2, <2>3
<1>b. Timed' => Clocks(s)'
  <2>1. (Timed => Clocks(s)) /\ (Timed' => Timed)
    BY SameClock DEF ServerAt
  <2>2. \A cs \in DOMAIN incomplete : cs \in ChunkStreams /\ s.last[cs] # 0
    BY DEF ServerAt
  <2>3. UNCHANGED payloadVars
    BY DEF serverVars
  <2> QED BY <1>2, <2>1, <2>2, <2>3, ClocksStay
<1>a. ServerAt(s)'
  BY <1>0, <1>1, <1>2, <1>3, <1>b DEF ServerAt
<1>4. \A cs \in ChunkStreams : Remembers(cs, s.last[cs]) => Remembers(cs, s.last[cs])'
  BY <1>0, <1>2 DEF Remembers
<1>5. \A a : BetweenChunks(s, a) => BetweenChunks(s, a)'
  BY <1>0, <1>4 DEF BetweenChunks
<1>6. ASSUME NEW i \in Indices, NEW a, InChunk(s, i, a)
      PROVE  InChunk(s, i, a)'
  <2>1. sent'[i] = sent[i] /\ Cs' = Cs
    BY <1>0 DEF Cs
  <2>2. HeaderRead(s, sent[i], 0 - a)'
    BY <1>0, <1>6, <2>1 DEF InChunk, HeaderRead, BasicRead, MessageRead, TimeRead,
                             Cs
  <2>3. \A cs : Remembers(cs, i) => Remembers(cs, i)'
    BY <1>0, <2>1 DEF Remembers
  <2> QED BY <1>0, <1>4, <1>6, <2>1, <2>2, <2>3 DEF InChunk
<1> QED BY <1>a, <1>5, <1>6

(* What it takes to be in step after a step.                               *)
LEMMA IntoStep ==
  ASSUME NEW n \in Nat, NEW under, under \in Unders(n)', NEW points \in Points(n),
         NEW at \in Places(n), Path(n, under, points, at)', ServerAt(points[1])',
         Position(n, under, points, at)'
  PROVE  InStep'
<1>1. under \in [1 .. n -> Indices'] /\ points \in [1 .. n + 1 -> Point]
      /\ at \in [1 .. n + 1 -> Int]
  BY DEF Unders, Points, Places
<1>2. (Path(n, under, points, at) /\ ServerAt(points[1]) /\ Position(n, under, points, at))'
  OBVIOUS
<1> QED BY <1>1, <1>2 DEF InStep

(* With the client's chunk behind it the way to the client is one longer.  *)
LEMMA InStepGrown ==
  ASSUME ClientTyped, DOMAIN incomplete \subseteq ChunkStreams, InStep,
         NEW m \in Message, NEW i \in Nat, Turn(i, m), WriteChunk(i, m, Progress(m.cs)),
         buffer' = buffer, UNCHANGED serverVars
  PROVE  InStep'
<1>1. PICK c \in Point : c = ClientPoint
  BY ClientPointType
<1>2. Comes(c, i)' /\ ClientPoint' = After(c, i, m)
  BY <1>1, ClientTurn
<1>3. /\ i \in Indices' /\ sent'[i] = m /\ Indices \subseteq Indices'
      /\ \A k \in Indices : sent'[k] = sent[k]
      /\ m.kind \in Sized => m.value > 0
  BY DEF Turn
<1>4. /\ network' = network \o NextChunk(c, i, m) /\ From(c, m) <= m.length
      /\ completed' = IF IsWhole(c, m) THEN Append(completed, i) ELSE completed
  BY <1>1, ChunkWritten
<1>5. PICK more \in Seq(Unit) : more = NextChunk(c, i, m)
  BY <1>4, ChunkFacts
<1>6. PICK d \in Point : d = After(c, i, m)
  BY <1>3, <1>4, AfterType
<1>7. /\ DOMAIN completed \subseteq DOMAIN completed'
      /\ \A k \in DOMAIN completed : completed'[k] = completed[k]
  <2>1. IsWhole(c, m) \in BOOLEAN
    BY DEF IsWhole
  <2> QED BY <1>4, <2>1, OpenAfter
<1>a. PICK n \in Nat : \E under \in Unders(n), points \in Points(n), at \in Places(n) :
        Path(n, under, points, at) /\ ServerAt(points[1]) /\ Position(n, under, points, at)
  BY DEF InStep, Unders, Points, Places
<1>8. PICK under \in Unders(n), points \in Points(n), at \in Places(n) :
        Path(n, under, points, at) /\ ServerAt(points[1]) /\ Position(n, under, points, at)
  BY <1>a
<1>9. PICK far : far = Len(Rest) + Len(more)
  OBVIOUS
<1>10. /\ ClientPoint' = d /\ d = After(c, i, sent'[i]) /\ more = NextChunk(c, i, sent'[i])
       /\ network' = network \o more
  BY <1>2, <1>3, <1>4, <1>5, <1>6
<1> DEFINE under2 == Longer(under, n, i)
           points2 == Longer(points, n + 1, d)
           at2 == Longer(at, n + 1, far)
<1>11. /\ under2 \in Unders(n + 1)' /\ points2 \in Points(n + 1) /\ at2 \in Places(n + 1)
       /\ Path(n + 1, under2, points2, at2)'
       /\ points2[1] = points[1] /\ at2[1] = at[1]
       /\ n > 0 => under2[1] = under[1]
  <2>1. Grows(more, i, c, d, far)
    BY <1>1, <1>2, <1>3, <1>7, <1>9, <1>10 DEF Grows
  <2>2. /\ Longer(under, n, i) \in Unders(n + 1)' /\ Longer(points, n + 1, d) \in Points(n + 1)
        /\ Longer(at, n + 1, far) \in Places(n + 1)
        /\ Path(n + 1, Longer(under, n, i), Longer(points, n + 1, d), Longer(at, n + 1, far))'
    BY <1>8, <2>1, PathGrown
  <2>3. points2[1] = points[1] /\ at2[1] = at[1] /\ (n > 0 => under2[1] = under[1])
    BY DEF Longer
  <2> QED BY <2>2, <2>3
<1> HIDE DEF under2, points2, at2
<1>12. points[1] \in Point /\ (n > 0 => under[1] \in Indices)
  BY <1>8 DEF Points, Unders
<1>13. ServerAt(points[1])' /\ Position(n + 1, under2, points2, at2)'
  <2>1. /\ ServerAt(points[1])'
        /\ BetweenChunks(points[1], at[1]) => BetweenChunks(points[1], at[1])'
        /\ n > 0 => (InChunk(points[1], under[1], at[1]) => InChunk(points[1], under[1], at[1])')
    BY <1>3, <1>8, <1>12, StandStays
  <2>2. CASE BetweenChunks(points[1], at[1])
    BY <1>11, <2>1, <2>2 DEF Position
  <2>3. CASE n > 0 /\ InChunk(points[1], under[1], at[1])
    BY <1>11, <2>1, <2>3 DEF Position
  <2> QED BY <1>8, <2>1, <2>2, <2>3 DEF Position
<1>14. ServerAt(points2[1])'
  BY <1>11, <1>13
<1>15. Position(n + 1, under2, points2, at2)'
  BY <1>13
<1> QED BY <1>11, <1>14, <1>15, IntoStep

(* What the client may begin: its media messages and its control messages. *)
LEMMA Begun ==
  ASSUME ClientTyped, BeginFirstMedia \/ BeginMedia \/ BeginControl
  PROVE  \E m \in Message :
           /\ Begin(m)
           /\ m.kind \in Sized => m.value > 0 /\ m.length > 0
           /\ m.cs = ControlStream => m.time = 0
           /\ Follows(m, Previous(m.cs))
<1>0. /\ MaxMessages \in Nat /\ Lengths \subseteq Nat /\ StartTimes \subseteq Nat
      /\ Deltas \subseteq Nat /\ Deltas \subseteq Numbers /\ 0 \in Numbers
      /\ ControlLength \in Nat \ {0} /\ ChunkSizes \subseteq Nat \ {0}
      /\ Windows \subseteq Nat \ {0} /\ MediaKinds \cap Sized = {}
      /\ ControlStream \notin MediaStreams
  BY ParameterAssumption, HalfDivisorAssumption DEF Numbers, divisor, Sized
<1>1. CASE BeginFirstMedia
  <2>1. PICK cs \in MediaStreams, kind \in MediaKinds, length \in Lengths, time \in StartTimes :
          /\ Previous(cs) = 0
          /\ Begin([cs |-> cs, fmt |-> FULL, kind |-> kind, length |-> length,
                    value |-> 0, time |-> time, delta |-> 0, sid |-> 1])
    BY <1>1 DEF BeginFirstMedia
  <2> DEFINE m == [cs |-> cs, fmt |-> FULL, kind |-> kind, length |-> length,
                   value |-> 0, time |-> time, delta |-> 0, sid |-> 1]
  <2>2. m \in Message
    BY <1>0 DEF Message, FULL, Kinds, ChunkStreams
  <2>3. /\ m.kind \notin Sized /\ m.cs # ControlStream
        /\ m.cs = cs /\ m.fmt = FULL /\ m.time \in StartTimes
    BY <1>0
  <2>5. Follows(m, Previous(m.cs))
    BY <2>1, <2>3 DEF Follows
  <2> HIDE DEF m
  <2>4. Begin(m)
    BY <2>1 DEF m
  <2> QED BY <2>2, <2>3, <2>4, <2>5
<1>2. CASE BeginMedia
  <2>1. PICK cs \in MediaStreams, kind \in MediaKinds, length \in Lengths, delta \in Deltas,
             fmt \in {FULL, SAME_STREAM, SAME_LENGTH_AND_STREAM, CONTINUATION} :
          /\ Previous(cs) # 0
          /\ MayFollow([cs |-> cs, fmt |-> fmt, kind |-> kind, length |-> length, value |-> 0,
                        time |-> sent[Previous(cs)].time + delta, delta |-> delta, sid |-> 1],
                       sent[Previous(cs)])
          /\ Begin([cs |-> cs, fmt |-> fmt, kind |-> kind, length |-> length, value |-> 0,
                    time |-> sent[Previous(cs)].time + delta, delta |-> delta, sid |-> 1])
    BY <1>2 DEF BeginMedia
  <2> DEFINE m == [cs |-> cs, fmt |-> fmt, kind |-> kind, length |-> length, value |-> 0,
                   time |-> sent[Previous(cs)].time + delta, delta |-> delta, sid |-> 1]
  <2>2. Previous(cs) \in Indices /\ sent[Previous(cs)] \in Message
    BY <2>1 DEF ClientTyped, ChunkStreams, Indices
  <2>3. m \in Message /\ m.cs = cs
    BY <1>0, <2>2
       DEF Message, FULL, SAME_STREAM, SAME_LENGTH_AND_STREAM, CONTINUATION, Kinds, ChunkStreams
  <2>4. /\ m.kind \notin Sized /\ m.cs # ControlStream
        /\ m.delta \in Deltas /\ m.time = sent[Previous(cs)].time + m.delta
    BY <1>0
  <2> HIDE DEF m
  <2>5. MayFollow(m, sent[Previous(cs)]) /\ Begin(m)
    BY <2>1 DEF m
  <2>6. Follows(m, Previous(m.cs))
    BY <2>1, <2>2, <2>3, <2>4, <2>5 DEF Follows
  <2> QED BY <2>2, <2>3, <2>4, <2>5, <2>6
<1>3. CASE BeginControl
  <2>1. PICK kind \in Sized, value \in Nat \ {0} : Begin(Control(kind, value))
    BY <1>0, <1>3 DEF BeginControl, Sized
  <2>2. /\ Control(kind, value) \in Message
        /\ Control(kind, value).value > 0 /\ Control(kind, value).length > 0
        /\ Control(kind, value).cs = ControlStream /\ Control(kind, value).fmt = FULL
        /\ Control(kind, value).time = 0 /\ Control(kind, value).delta = 0
    BY <1>0 DEF Control, Message, FULL, Kinds, ChunkStreams
  <2>3. Follows(Control(kind, value), Previous(ControlStream))
    <3>1. Previous(ControlStream) # 0 =>
            /\ Previous(ControlStream) \in Indices
            /\ sent[Previous(ControlStream)].time = 0
      BY DEF ClientTyped, ChunkStreams
    <3> QED BY <2>2, <3>1 DEF Follows, MayFollow
  <2> QED BY <2>1, <2>2, <2>3
<1> QED BY <1>1, <1>2, <1>3

(* A message begun or continued is a turn of the client.                   *)
LEMMA BeginTurn ==
  ASSUME ClientTyped, NEW m \in Message, Begin(m),
         m.kind \in Sized => m.value > 0 /\ m.length > 0,
         m.cs = ControlStream => m.time = 0,
         Follows(m, Previous(m.cs))
  PROVE  /\ Len(sent) + 1 \in Nat /\ Turn(Len(sent) + 1, m)
         /\ WriteChunk(Len(sent) + 1, m, Progress(m.cs))
<1>1. sent' = Append(sent, m) /\ ~IsOpen(m.cs) /\ WriteChunk(Len(sent) + 1, m, 0)
  BY DEF Begin
<1>2. sent \in Seq(Message) /\ Len(sent) \in Nat
  BY LenProperties DEF ClientTyped
<1>3. /\ sent' \in Seq(Message) /\ Len(sent') = Len(sent) + 1 /\ sent'[Len(sent) + 1] = m
      /\ \A k \in 1 .. Len(sent) : sent'[k] = sent[k]
  BY <1>1, <1>2
<1>4. Indices \subseteq Indices' /\ Len(sent) + 1 \in Indices'
  BY <1>2, <1>3 DEF Indices
<1>5. ASSUME NEW k \in Indices', sent'[k].kind \in Sized
      PROVE  sent'[k].value > 0 /\ sent'[k].length > 0
  <2>1. CASE k = Len(sent) + 1
    BY <1>3, <1>5, <2>1
  <2>2. CASE k # Len(sent) + 1
    <3>1. k \in Indices /\ sent'[k] = sent[k]
      BY <1>2, <1>3, <2>2 DEF Indices
    <3> QED BY <1>5, <3>1 DEF ClientTyped
  <2> QED BY <2>1, <2>2
<1>6. ~Contains(completed, Len(sent) + 1)
  <2>1. \A k \in 1 .. Len(completed) : completed[k] \in 1 .. Len(sent)
    BY DEF ClientTyped, Indices
  <2> QED BY <1>2, <2>1 DEF Contains
<1>7. /\ Previous(m.cs)' = Len(sent) + 1
      /\ \A cs \in ChunkStreams \ {m.cs} : Previous(cs)' = Previous(cs)
  BY <1>1, <1>2, PreviousAppended
<1>8. Progress(m.cs) = 0
  BY <1>1 DEF Progress
<1>9. \A k \in Indices : sent'[k] = sent[k]
  BY <1>3 DEF Indices
<1> PICK i : i = Len(sent) + 1
  OBVIOUS
<1>10. /\ i \in Indices' /\ sent'[i] = m /\ Previous(m.cs)' = i /\ ~Contains(completed, i)
       /\ WriteChunk(i, m, Progress(m.cs)) /\ i \in Nat
  BY <1>1, <1>2, <1>3, <1>4, <1>6, <1>7, <1>8
<1>12. ASSUME NEW k \in Indices', sent'[k].cs = ControlStream
       PROVE  sent'[k].time = 0
  <2>1. CASE k = Len(sent) + 1
    BY <1>3, <1>12, <2>1
  <2>2. CASE k # Len(sent) + 1
    <3>1. k \in Indices /\ sent'[k] = sent[k]
      BY <1>2, <1>3, <2>2 DEF Indices
    <3> QED BY <1>12, <3>1 DEF ClientTyped
  <2> QED BY <2>1, <2>2
<1>11. Turn(i, m)
  BY <1>1, <1>3, <1>4, <1>5, <1>7, <1>9, <1>10, <1>12 DEF Turn
<1> QED BY <1>10, <1>11

(* The client goes on with an open message.                                *)
LEMMA ContinueTurn ==
  ASSUME ClientTyped, NEW cs \in ChunkStreams, IsOpen(cs), UNCHANGED sent,
         WriteChunk(Previous(cs), sent[Previous(cs)], written[cs])
  PROVE  /\ Previous(cs) \in Nat /\ sent[Previous(cs)] \in Message
         /\ Turn(Previous(cs), sent[Previous(cs)])
         /\ WriteChunk(Previous(cs), sent[Previous(cs)], Progress(cs))
         /\ sent[Previous(cs)].cs = cs
<1>1. Previous(cs) \in Indices /\ sent[Previous(cs)].cs = cs /\ ~Contains(completed, Previous(cs))
  BY DEF ClientTyped, IsOpen
<1>2. Previous(cs) \in Nat /\ sent[Previous(cs)] \in Message
  BY <1>1 DEF ClientTyped, Indices
<1>3. \A d : Previous(d)' = Previous(d)
  BY DEF Previous, SelectLastInSeq
<1>4. Indices' = Indices
  BY DEF Indices
<1>5. Progress(cs) = written[cs]
  BY DEF Progress
<1>6. /\ \A k \in Indices : sent[k].kind \in Sized => sent[k].value > 0 /\ sent[k].length > 0
      /\ \A k \in Indices : sent[k].cs = ControlStream => sent[k].time = 0
  BY DEF ClientTyped
<1>7. sent \in Seq(Message)
  BY DEF ClientTyped
<1> QED BY <1>1, <1>2, <1>3, <1>4, <1>5, <1>6, <1>7 DEF Turn

(* What was delivered, and what is kept, remains what the client sent.     *)
LEMMA DeliveredStays ==
  ASSUME ClientTyped, ServerTyped, DeliveredInOrder, UNCHANGED <<delivered, incomplete>>,
         Indices \subseteq Indices', \A k \in Indices : sent'[k] = sent[k],
         completed' \in Seq(Indices'), Len(completed) <= Len(completed'),
         \A k \in DOMAIN completed : k \in DOMAIN completed' /\ completed'[k] = completed[k]
  PROVE  DeliveredInOrder'
<1>1. /\ Len(delivered) <= Len(completed) /\ Len(delivered) \in Nat /\ Len(completed) \in Nat
      /\ Len(completed') \in Nat
  BY LenProperties DEF DeliveredInOrder, CompletedAndIntact, ClientTyped, ServerTyped
<1>2. ASSUME NEW n \in DOMAIN delivered
      PROVE  Carries(delivered[n], completed[n], sent[completed[n]].length)'
  <2>1. n \in DOMAIN completed
    BY <1>1, LenProperties DEF ClientTyped, ServerTyped
  <2> PICK k : k = completed[n]
    OBVIOUS
  <2>2. k \in Indices /\ completed'[n] = k /\ sent'[k] = sent[k]
    BY <2>1 DEF ClientTyped
  <2>3. Carries(delivered[n], k, sent[k].length)
    BY DEF DeliveredInOrder, CompletedAndIntact
  <2> QED BY <2>2, <2>3 DEF Carries
<1>3. CompletedAndIntact'
  BY <1>1, <1>2 DEF CompletedAndIntact
<1>4. ASSUME NEW cs \in DOMAIN incomplete
      PROVE  \E i \in DOMAIN sent' :
               /\ sent'[i].cs = cs
               /\ Len(incomplete[cs].recv_buf) \in 1 .. sent'[i].length - 1
               /\ Carries(incomplete[cs], i, Len(incomplete[cs].recv_buf))'
  <2>1. PICK i \in DOMAIN sent :
          /\ sent[i].cs = cs
          /\ Len(incomplete[cs].recv_buf) \in 1 .. sent[i].length - 1
          /\ Carries(incomplete[cs], i, Len(incomplete[cs].recv_buf))
    BY DEF DeliveredInOrder, PartOfOneMessage
  <2>2. DOMAIN sent = Indices
    BY LenProperties DEF ClientTyped, Indices
  <2>3. DOMAIN sent \subseteq DOMAIN sent' /\ sent'[i] = sent[i]
    BY <2>2 DEF Indices
  <2>4. Carries(incomplete[cs], i, Len(incomplete[cs].recv_buf))'
    BY <2>1, <2>3 DEF Carries
  <2> QED BY <2>1, <2>3, <2>4
<1>5. PartOfOneMessage'
  BY <1>4 DEF PartOfOneMessage
<1> QED BY <1>3, <1>5 DEF DeliveredInOrder

(* A chunk the client writes leaves the parser in step.                    *)
LEMMA TurnStep ==
  ASSUME ReaderInv, pc # "closed",
         NEW m \in Message, NEW i \in Nat, Turn(i, m), WriteChunk(i, m, Progress(m.cs)),
         UNCHANGED <<buffer, pc, delivered, parsing_state, ack, counting, unacked,
                     headerVars, payloadVars>>
  PROVE  ReaderInv'
<1>1. ClientTyped /\ ServerTyped /\ TypeOK /\ WindowCounts /\ AckWithinWindow
      /\ DeliveredInOrder /\ InStep
  BY DEF ReaderInv
<1>2. PICK c \in Point : c = ClientPoint
  BY <1>1, ClientPointType
<1>3. ClientTyped'
  BY <1>1, <1>2, ClientTurn
<1>4. UNCHANGED <<delivered, incomplete, channels, recv_chunk_size, last_message_timestamp,
                  rollover_count, field, header, parsing_state, ack, counting, unacked, pc>>
  BY DEF headerVars, payloadVars
<1>5. ServerTyped' /\ TypeOK' /\ WindowCounts' /\ AckWithinWindow'
  BY <1>1, <1>4 DEF ServerTyped, TypeOK, WindowCounts, AckWithinWindow
<1>6. DeliveredInOrder'
  <2>1. completed' = IF IsWhole(c, m) THEN Append(completed, i) ELSE completed
    BY <1>1, <1>2, ChunkWritten
  <2>2. IsWhole(c, m) \in BOOLEAN
    BY DEF IsWhole
  <2>3. /\ completed' \in Seq(Indices') /\ Len(completed) \in Nat
        /\ Len(completed') = IF IsWhole(c, m) THEN Len(completed) + 1 ELSE Len(completed)
        /\ \A k \in DOMAIN completed : k \in DOMAIN completed' /\ completed'[k] = completed[k]
    BY <1>1, <2>1, <2>2, OpenAfter
  <2>4. Len(completed) <= Len(completed')
    BY <2>2, <2>3
  <2>5. Indices \subseteq Indices' /\ \A k \in Indices : sent'[k] = sent[k]
    BY DEF Turn
  <2> QED BY <1>1, <1>4, <2>3, <2>4, <2>5, DeliveredStays
<1>7. InStep'
  <2>1. DOMAIN incomplete \subseteq ChunkStreams
    BY <1>1 DEF TypeOK, HeaderType
  <2>2. UNCHANGED serverVars /\ buffer' = buffer
    BY DEF serverVars
  <2> QED BY <1>1, <2>1, <2>2, InStepGrown
<1> QED BY <1>3, <1>5, <1>6, <1>7 DEF ReaderInv

(* Every write of the client is a turn, and touches nothing of the server. *)
LEMMA ClientTurns ==
  ASSUME ClientTyped, Client
  PROVE  \E m \in Message, i \in Nat :
           /\ Turn(i, m) /\ WriteChunk(i, m, Progress(m.cs))
           /\ UNCHANGED <<buffer, pc, delivered, parsing_state, ack, counting, unacked,
                          headerVars, payloadVars>>
<1>1. CASE BeginFirstMedia \/ BeginMedia \/ BeginControl
  <2>1. PICK m \in Message :
          /\ Begin(m)
          /\ m.kind \in Sized => m.value > 0 /\ m.length > 0
          /\ m.cs = ControlStream => m.time = 0
          /\ Follows(m, Previous(m.cs))
    BY <1>1, Begun
  <2>2. /\ Len(sent) + 1 \in Nat /\ Turn(Len(sent) + 1, m)
        /\ WriteChunk(Len(sent) + 1, m, Progress(m.cs))
    BY <2>1, BeginTurn
  <2>3. UNCHANGED <<buffer, pc, delivered, parsing_state, ack, counting, unacked,
                    headerVars, payloadVars>>
    BY <2>1 DEF Begin, Client
  <2> QED BY <2>2, <2>3
<1>2. CASE ContinueMessage
  <2>1. PICK cs \in ChunkStreams :
          /\ IsOpen(cs)
          /\ WriteChunk(Previous(cs), sent[Previous(cs)], written[cs])
          /\ UNCHANGED <<sent, buffer, pc, delivered, parsing_state, ack, counting,
                         unacked, headerVars, payloadVars>>
    BY <1>2 DEF ContinueMessage
  <2>2. /\ Previous(cs) \in Nat /\ sent[Previous(cs)] \in Message
        /\ Turn(Previous(cs), sent[Previous(cs)])
        /\ WriteChunk(Previous(cs), sent[Previous(cs)], Progress(cs))
        /\ sent[Previous(cs)].cs = cs
    BY <2>1, ContinueTurn
  <2> PICK m \in Message, i \in Nat : i = Previous(cs) /\ m = sent[Previous(cs)]
    BY <2>2
  <2>3. Turn(i, m) /\ WriteChunk(i, m, Progress(m.cs))
    BY <2>2
  <2> QED BY <2>1, <2>3
<1> QED BY <1>1, <1>2 DEF Client

(* Every write of the client leaves the parser in step.                    *)
LEMMA ClientStep ==
  ASSUME ReaderInv, Client
  PROVE  ReaderInv'
<1>1. ClientTyped /\ pc # "closed"
  BY DEF ReaderInv, Client
<1>2. PICK m \in Message, i \in Nat :
        /\ Turn(i, m) /\ WriteChunk(i, m, Progress(m.cs))
        /\ UNCHANGED <<buffer, pc, delivered, parsing_state, ack, counting, unacked,
                       headerVars, payloadVars>>
  BY <1>1, ClientTurns
<1> QED BY <1>1, <1>2, TurnStep
-----------------------------------------------------------------------------
(* The server reads, and waits for more.                                   *)

(* The client's variables keep their types when units only move.           *)
LEMMA ClientTypedStays ==
  ASSUME ClientTyped, UNCHANGED clientVars, buffer' \in Seq(Unit), network' \in Seq(Unit)
  PROVE  ClientTyped'
<1>1. UNCHANGED <<sent, completed, written, send_chunk_size>>
  BY DEF clientVars
<1>2. Indices' = Indices /\ \A cs : Previous(cs)' = Previous(cs)
  BY <1>1 DEF Indices, Previous, SelectLastInSeq
<1>3. \A cs : IsOpen(cs)' = IsOpen(cs)
  BY <1>1, <1>2 DEF IsOpen, Contains
<1> QED BY <1>1, <1>2, <1>3 DEF ClientTyped

(* What is delivered depends on what the client sent.                      *)
LEMMA SameDelivered ==
  ASSUME ClientTyped, ServerTyped, DeliveredInOrder,
         UNCHANGED clientVars, UNCHANGED <<delivered, incomplete>>
  PROVE  DeliveredInOrder'
<1>1. UNCHANGED <<sent, completed>> /\ Indices' = Indices
  BY ClientStays DEF clientVars
<1>2. completed \in Seq(Indices) /\ Len(completed) \in Nat
  BY LenProperties DEF ClientTyped
<1>3. completed' \in Seq(Indices') /\ Len(completed) <= Len(completed')
  BY <1>1, <1>2
<1> QED BY <1>1, <1>3, DeliveredStays

(* The path does not change when units move from the network to the        *)
(* buffer.                                                                 *)
LEMMA PathStays ==
  ASSUME Rest' = Rest, UNCHANGED clientVars,
         NEW n \in Nat, NEW under \in Unders(n), NEW points \in Points(n),
         NEW at \in Places(n), Path(n, under, points, at)
  PROVE  Path(n, under, points, at)'
<1>1. ClientPoint' = ClientPoint /\ UNCHANGED <<sent, completed>> /\ Indices' = Indices
  BY ClientStays DEF clientVars
<1>2. ASSUME NEW k \in 1 .. n
      PROVE  Link(under[k], points[k], points[k + 1], at[k], at[k + 1])'
  <2> PICK i, s, t, a, b : /\ i = under[k] /\ s = points[k] /\ t = points[k + 1]
                           /\ a = at[k] /\ b = at[k + 1]
    OBVIOUS
  <2>1. Link(i, s, t, a, b)
    BY DEF Path
  <2>2. PICK chunk : chunk = NextChunk(s, i, sent[i])
    OBVIOUS
  <2>3. Fits(chunk, a)'
    BY <2>1, <2>2 DEF Link, Fits
  <2>4. Comes(s, i)'
    <3>1. Comes(s, i)
      BY <2>1 DEF Link
    <3> QED BY <1>1, <3>1 DEF Comes, Follows
  <2>5. Link(i, s, t, a, b)'
    BY <1>1, <2>1, <2>2, <2>3, <2>4 DEF Link
  <2> QED BY <2>5
<1> QED BY <1>1, <1>2 DEF Path

(* A step that moves no unit past the parser and changes nothing of it.    *)
LEMMA InStepStays ==
  ASSUME InStep, Rest' = Rest, UNCHANGED clientVars, UNCHANGED serverVars,
         DOMAIN incomplete \subseteq ChunkStreams
  PROVE  InStep'
<1>a. PICK n \in Nat : \E under \in Unders(n), points \in Points(n), at \in Places(n) :
        Path(n, under, points, at) /\ ServerAt(points[1]) /\ Position(n, under, points, at)
  BY DEF InStep, Unders, Points, Places
<1>1. PICK under \in Unders(n), points \in Points(n), at \in Places(n) :
        Path(n, under, points, at) /\ ServerAt(points[1]) /\ Position(n, under, points, at)
  BY <1>a
<1>2. Path(n, under, points, at)'
  BY <1>1, PathStays
<1>3. Indices' = Indices /\ \A k \in Indices : sent'[k] = sent[k]
  BY ClientStays DEF clientVars
<1>4. points[1] \in Point /\ (n > 0 => under[1] \in Indices)
  BY DEF Points, Unders
<1>5. /\ ServerAt(points[1])'
      /\ BetweenChunks(points[1], at[1]) => BetweenChunks(points[1], at[1])'
      /\ n > 0 => (InChunk(points[1], under[1], at[1]) => InChunk(points[1], under[1], at[1])')
  BY <1>1, <1>3, <1>4, StandStays
<1>6. Position(n, under, points, at)'
  BY <1>1, <1>5 DEF Position
<1>7. under \in Unders(n)'
  BY <1>3 DEF Unders
<1> QED BY <1>2, <1>5, <1>6, <1>7, IntoStep

(* What arrives leaves the network and joins the buffer.                   *)
LEMMA Arrives ==
  ASSUME ClientTyped, NEW n \in 1 .. Len(network),
         buffer' = buffer \o SubSeq(network, 1, n),
         network' = SubSeq(network, n + 1, Len(network))
  PROVE  Rest' = Rest /\ buffer' \in Seq(Unit) /\ network' \in Seq(Unit)
<1>1. buffer \in Seq(Unit) /\ network \in Seq(Unit) /\ Len(network) \in Nat
  BY LenProperties DEF ClientTyped
<1> DEFINE x == SubSeq(network, 1, n)
           y == SubSeq(network, n + 1, Len(network))
<1>2. x \in Seq(Unit) /\ y \in Seq(Unit)
  BY <1>1
<1>3. x \o y = network
  BY <1>1
<1> HIDE DEF x, y
<1>4. (buffer \o x) \o y = buffer \o (x \o y)
  <2>1. \A u, v, w \in Seq(Unit) : (u \o v) \o w = u \o (v \o w)
    BY ConcatAssociative, SMTT(30)
  <2> QED BY <1>1, <1>2, <2>1
<1>5. buffer' = buffer \o x /\ network' = y
  BY DEF x, y
<1>6. buffer \o x \in Seq(Unit)
  BY <1>1, <1>2, ConcatProperties
<1> QED BY <1>2, <1>3, <1>4, <1>5, <1>6 DEF Rest

(* handle_read: async_read_some has moved units to the buffer.             *)
LEMMA ReadStep ==
  ASSUME ReaderInv, handle_read
  PROVE  ReaderInv'
<1>1. ClientTyped /\ ServerTyped /\ TypeOK /\ WindowCounts /\ AckWithinWindow
      /\ DeliveredInOrder /\ InStep
  BY DEF ReaderInv, handle_read
<1>2. PICK n \in 1 .. Len(network) :
        /\ buffer' = buffer \o SubSeq(network, 1, n)
        /\ network' = SubSeq(network, n + 1, Len(network))
  BY DEF handle_read, Pieces
<1>3. Rest' = Rest /\ buffer' \in Seq(Unit) /\ network' \in Seq(Unit)
  BY <1>1, <1>2, Arrives
<1>4. /\ UNCHANGED clientVars /\ pc' = "parsing"
      /\ UNCHANGED <<delivered, parsing_state, ack, counting, unacked, headerVars, payloadVars>>
  BY DEF handle_read
<1>5. UNCHANGED <<delivered, incomplete, channels, recv_chunk_size, last_message_timestamp,
                  rollover_count, field, header, parsing_state, ack, counting, unacked>>
  BY <1>4 DEF headerVars, payloadVars
<1>6. ClientTyped'
  BY <1>1, <1>3, <1>4, ClientTypedStays
<1>7. ServerTyped' /\ TypeOK' /\ WindowCounts' /\ AckWithinWindow'
  BY <1>1, <1>4, <1>5 DEF ServerTyped, TypeOK, WindowCounts, AckWithinWindow
<1>8. DeliveredInOrder'
  BY <1>1, <1>4, <1>5, SameDelivered
<1>9. InStep'
  <2>1. UNCHANGED serverVars /\ DOMAIN incomplete \subseteq ChunkStreams
    BY <1>1, <1>4 DEF serverVars, TypeOK
  <2> QED BY <1>1, <1>3, <1>4, <2>1, InStepStays
<1> QED BY <1>6, <1>7, <1>8, <1>9 DEF ReaderInv

(* parse returns: the counters keep their types, and the next              *)
(* Acknowledgement is due within a window.                                 *)
Counters ==
  [readed_bytes_count : Nat, win_ack_size : Nat, next_ack_send_size : Nat]

(* next_ack_send_size_ stays within a window, as Return sets it.           *)
LEMMA Returns ==
  ASSUME NEW a \in Counters, NEW k \in Nat, NEW taken \in Nat, Return(a, k, taken),
         a.next_ack_send_size <= a.readed_bytes_count + a.win_ack_size,
         a.next_ack_send_size >= a.win_ack_size, a.win_ack_size > 0,
         k > 0 \/ a.readed_bytes_count < a.next_ack_send_size
  PROVE  /\ ack' \in Counters /\ unacked' \in Nat
         /\ counting' \in [parse : Nat, parse_header : Nat]
         /\ WindowCounts' /\ AckWithinWindow'
<1> DEFINE total == a.readed_bytes_count + k
           due == k > 0 /\ total >= a.next_ack_send_size
           next == IF due THEN total + a.win_ack_size ELSE a.next_ack_send_size
<1>1. /\ ack' = [a EXCEPT !.readed_bytes_count = total, !.next_ack_send_size = next]
      /\ unacked' = IF due THEN 0 ELSE taken
      /\ counting' = [parse |-> 0, parse_header |-> 0]
  BY DEF Return
<1>2. /\ a.readed_bytes_count \in Nat /\ a.win_ack_size \in Nat /\ a.next_ack_send_size \in Nat
  BY DEF Counters
<1>3. total \in Nat /\ next \in Nat
  BY <1>2
<1>4. total < next /\ next <= total + a.win_ack_size /\ next >= a.win_ack_size
  BY <1>2
<1> HIDE DEF total, next, due
<1>5. /\ ack' \in Counters /\ ack'.readed_bytes_count = total /\ ack'.next_ack_send_size = next
      /\ ack'.win_ack_size = a.win_ack_size
  BY <1>1, <1>3 DEF Counters
<1>6. unacked' \in Nat /\ counting' \in [parse : Nat, parse_header : Nat]
  BY <1>1
<1> QED BY <1>4, <1>5, <1>6 DEF WindowCounts, AckWithinWindow
-----------------------------------------------------------------------------
(* The fields of a header.                                                 *)

(* The parser's point depends on what it keeps and has delivered.          *)
LEMMA ServerKept ==
  ASSUME UNCHANGED <<sent, delivered, incomplete, recv_chunk_size>>,
         NEW s \in Point, ServerAt(s), Timed' => Clocks(s)'
  PROVE  ServerAt(s)'
<1>1. \A cs : Received(cs)' = Received(cs)
  BY DEF Received
<1>2. Indices' = Indices
  BY DEF Indices
<1>3. \A info, i, to : Carries(info, i, to) => Carries(info, i, to)'
  BY DEF Carries
<1> QED BY <1>1, <1>2, <1>3 DEF ServerAt

(* And its clocks on what it remembers.                                    *)
LEMMA ServerStays ==
  ASSUME UNCHANGED <<sent, delivered, payloadVars>>, NEW s \in Point, ServerAt(s)
  PROVE  ServerAt(s)'
<1>1. /\ UNCHANGED <<sent, delivered, incomplete, channels, recv_chunk_size>>
      /\ UNCHANGED <<last_message_timestamp, rollover_count>>
  BY DEF payloadVars
<1>2. Indices' = Indices
  BY DEF Indices
<1>3. (Timed' <=> Timed) /\ (Clocks(s)' <=> Clocks(s))
  BY <1>1, <1>2 DEF Timed, SmallSteps, OneStream, Early, Clocks, Tells, CountKept
<1>4. Timed' => Clocks(s)'
  BY <1>3 DEF ServerAt
<1> QED BY <1>1, <1>4, ServerKept

(* A parser with units before it has a chunk under way to take them from.  *)
LEMMA Here ==
  ASSUME ClientTyped, InStep, buffer # <<>>
  PROVE  \E n \in Nat : n > 0 /\
           \E under \in Unders(n), points \in Points(n), at \in Places(n) :
             Path(n, under, points, at) /\ ServerAt(points[1]) /\ Position(n, under, points, at)
<1>a. PICK n \in Nat : \E under \in Unders(n), points \in Points(n), at \in Places(n) :
        Path(n, under, points, at) /\ ServerAt(points[1]) /\ Position(n, under, points, at)
  BY DEF InStep, Unders, Points, Places
<1>1. PICK under \in Unders(n), points \in Points(n), at \in Places(n) :
        Path(n, under, points, at) /\ ServerAt(points[1]) /\ Position(n, under, points, at)
  BY <1>a
<1>2. n > 0
  <2> SUFFICES ASSUME n = 0 PROVE FALSE
    OBVIOUS
  <2>1. at[1] = Len(Rest) /\ BetweenChunks(points[1], at[1])
    BY <1>1 DEF Path, Position
  <2>2. Len(Rest) = 0
    BY <2>1 DEF BetweenChunks
  <2>3. Len(Rest) = Len(buffer) + Len(network) /\ Len(buffer) > 0
        /\ Len(buffer) \in Nat /\ Len(network) \in Nat
    <3>1. buffer \in Seq(Unit) /\ network \in Seq(Unit)
      BY DEF ClientTyped
    <3> QED BY <3>1, EmptySeq, LenProperties, ConcatProperties DEF Rest
  <2>4. \A x, y \in Nat : x > 0 => x + y # 0
    OBVIOUS
  <2> QED BY <2>2, <2>3, <2>4
<1> QED BY <1>1, <1>2

(* The first unit before the parser is the next of the chunk it is in.     *)
LEMMA HeadOfChunk ==
  ASSUME ClientTyped, buffer # <<>>, NEW chunk \in Seq(Unit), NEW h \in Nat, h < Len(chunk),
         NEW a \in Int, a = 0 - h, Fits(chunk, a)
  PROVE  Head(buffer) = chunk[h + 1]
<1>1. buffer \in Seq(Unit) /\ network \in Seq(Unit) /\ Len(chunk) \in Nat
  BY LenProperties DEF ClientTyped
<1>2. Len(buffer) >= 1 /\ Head(buffer) = buffer[1]
  BY <1>1
<1>3. Rest[1] = buffer[1]
  BY <1>1, <1>2, ConcatProperties DEF Rest
<1>4. h + 1 \in 1 .. Len(chunk) /\ a + (h + 1) = 1
  BY <1>1
<1>5. Rest[1] = chunk[h + 1]
  BY <1>4 DEF Fits
<1> QED BY <1>2, <1>3, <1>5

(* The parser goes on in the chunk it is in.                               *)
LEMMA InStepMoved ==
  ASSUME ClientTyped, NEW c \in 0 .. Len(buffer), buffer' = Left(buffer, c), network' = network,
         UNCHANGED <<clientVars, delivered, payloadVars>>,
         NEW n \in Nat, n > 0, NEW under \in Unders(n), NEW points \in Points(n),
         NEW at \in Places(n), Path(n, under, points, at), ServerAt(points[1]),
         NEW a, a = at[1] - c, NEW s, s = points[1], NEW i, i = under[1], InChunk(s, i, a)'
  PROVE  InStep'
<1> DEFINE near == [k \in 1 .. n + 1 |-> at[k] - c]
<1>1. Path(n, under, points, near)'
  BY PathTaken
<1>2. near \in Places(n) /\ near[1] = a
  BY DEF Places
<1>3. under \in Unders(n)'
  BY ClientStays DEF Unders
<1>4. ServerAt(points[1])'
  BY ServerStays DEF Points, clientVars
<1> HIDE DEF near
<1>5. Position(n, under, points, near)'
  BY <1>2 DEF Position
<1> QED BY <1>1, <1>2, <1>3, <1>4, <1>5, IntoStep

(* What a field leaves alone.                                              *)
LEMMA FieldTaken ==
  ASSUME ReaderInv, NEW f, AtField(f), NEW k \in Nat, NEW g, NextField(k, g),
         g \in {"message", "extended", "complete"},
         header' \in HeaderType
  PROVE  /\ ClientTyped' /\ ServerTyped' /\ TypeOK' /\ WindowCounts' /\ AckWithinWindow'
         /\ DeliveredInOrder'
         /\ 1 \in 0 .. Len(buffer) /\ buffer' = Left(buffer, 1)
         /\ UNCHANGED clientVars /\ UNCHANGED <<delivered, payloadVars>>
         /\ UNCHANGED <<network, channels>>
         /\ parsing_state' = IF g = "complete" THEN "payload" ELSE "header"
         /\ field' = IF g = "complete" THEN "basic" ELSE g
<1>1. /\ ClientTyped /\ ServerTyped /\ TypeOK /\ WindowCounts /\ AckWithinWindow
      /\ DeliveredInOrder
  BY DEF ReaderInv
<1>2. pc = "parsing" /\ parsing_state = "header" /\ field = f /\ buffer # <<>>
  BY DEF AtField
<1>3. buffer \in Seq(Unit) /\ 1 \in 0 .. Len(buffer)
  <2>1. buffer \in Seq(Unit)
    BY <1>1 DEF ClientTyped
  <2> QED BY <1>2, <2>1
<1>4. /\ buffer' = Left(buffer, 1) /\ UNCHANGED <<clientVars, payloadVars>>
      /\ UNCHANGED <<network, pc, delivered, ack, incomplete, channels, recv_chunk_size,
                     last_message_timestamp, rollover_count>>
  BY DEF NextField, Take, Left, payloadVars
<1>5. /\ parsing_state' = IF g = "complete" THEN "payload" ELSE "header"
      /\ field' = IF g = "complete" THEN "basic" ELSE g
      /\ unacked' = unacked + k
  BY <1>2 DEF NextField
<1>6. counting' \in [parse : Nat, parse_header : Nat]
  <2>1. counting.parse \in Nat /\ counting.parse_header \in Nat
        /\ counting \in [parse : Nat, parse_header : Nat]
    BY <1>1 DEF TypeOK, HeaderType
  <2>2. CASE g = "complete"
    <3>1. counting' = [parse |-> counting.parse + counting.parse_header + k, parse_header |-> 0]
      BY <2>2 DEF NextField
    <3> QED BY <2>1, <3>1
  <2>3. CASE g # "complete"
    <3>1. counting' = [counting EXCEPT !.parse_header = @ + k]
      BY <2>3 DEF NextField
    <3> QED BY <2>1, <3>1
  <2> QED BY <2>2, <2>3
<1>7. ClientTyped'
  <2>1. network' \in Seq(Unit)
    BY <1>1, <1>4 DEF ClientTyped
  <2>2. buffer' \in Seq(Unit)
    BY <1>1, <1>3, <1>4, RestTaken
  <2> QED BY <1>1, <1>4, <2>1, <2>2, ClientTypedStays
<1>8. ServerTyped' /\ WindowCounts' /\ AckWithinWindow'
  BY <1>1, <1>4 DEF ServerTyped, WindowCounts, AckWithinWindow
<1>9. DeliveredInOrder'
  BY <1>1, <1>4, SameDelivered
<1>10. TypeOK'
  BY <1>1, <1>4, <1>5, <1>6 DEF TypeOK, HeaderType
<1> QED BY <1>3, <1>4, <1>5, <1>7, <1>8, <1>9, <1>10

(* The parser is in the header of the chunk it is in.                      *)
LEMMA HeaderPosition ==
  ASSUME NEW n \in Nat, NEW under, NEW points, NEW at, Position(n, under, points, at),
         parsing_state = "header"
  PROVE  IF field = "basic" THEN BetweenChunks(points[1], at[1])
         ELSE n > 0 /\ InChunk(points[1], under[1], at[1])
BY DEF Position, BetweenChunks, InChunk, HeaderRead

(* parse_basic_header_1byte enters the next chunk.                         *)
LEMMA BasicStep ==
  ASSUME ReaderInv, parse_basic_header_1byte
  PROVE  ReaderInv'
<1>1. ClientTyped /\ TypeOK /\ InStep /\ AtField("basic")
  BY DEF ReaderInv, parse_basic_header_1byte, AtField
<1>2. buffer # <<>> /\ parsing_state = "header" /\ field = "basic" /\ pc = "parsing"
  BY <1>1 DEF AtField
<1>a. PICK n \in Nat : n > 0 /\
           \E under \in Unders(n), points \in Points(n), at \in Places(n) :
             Path(n, under, points, at) /\ ServerAt(points[1]) /\ Position(n, under, points, at)
  BY <1>1, <1>2, Here
<1>3. PICK under \in Unders(n), points \in Points(n), at \in Places(n) :
        Path(n, under, points, at) /\ ServerAt(points[1]) /\ Position(n, under, points, at)
  BY <1>a
<1>4. PICK s, i : s = points[1] /\ i = under[1]
  OBVIOUS
<1>5. s \in Point /\ i \in Indices /\ at[1] \in Int
  BY <1>a, <1>4 DEF Points, Unders, Places
<1>6. BetweenChunks(s, at[1]) /\ at[1] = 0
  BY <1>2, <1>3, <1>4, HeaderPosition DEF BetweenChunks
<1>7. Link(i, s, points[2], at[1], at[2])
  BY <1>a, <1>3, <1>4 DEF Path
<1> PICK m : m = sent[i]
  OBVIOUS
<1>8. /\ i \in Nat /\ m \in Message /\ From(s, m) \in Nat /\ From(s, m) <= m.length
      /\ NextChunk(s, i, m) \in Seq(Unit) /\ Len(NextChunk(s, i, m)) \in Nat
  BY <1>1, <1>5, <1>7, LinkFacts
<1>9. /\ Headers(s, m) \in 1 .. 3
      /\ Len(NextChunk(s, i, m)) = Headers(s, m) + (To(s, m) - From(s, m))
      /\ NextChunk(s, i, m)[1] =
           [field |-> "basic", bytes |-> 1, fmt |-> Format(s, m), cs |-> m.cs]
  <2>1. s \in Point /\ i \in Nat /\ m \in Message /\ From(s, m) <= m.length
    BY <1>5, <1>8
  <2> QED BY <2>1, ChunkFacts, ZenonT(60)
<1>10. Head(buffer).fmt = Format(s, m) /\ Head(buffer).cs = m.cs
  <2>1. Fits(NextChunk(s, i, m), 0)
    BY <1>6, <1>7 DEF Link
  <2>2. To(s, m) \in Nat /\ From(s, m) <= To(s, m)
    BY <1>5, <1>8, ToFacts
  <2>3. 0 < Len(NextChunk(s, i, m))
    BY <1>8, <1>9, <2>2
  <2>4. Head(buffer) = NextChunk(s, i, m)[0 + 1]
    BY <1>1, <1>2, <1>8, <2>1, <2>3, HeadOfChunk
  <2> QED BY <1>9, <2>4
<1>11. Format(s, m) \in 0 .. 3 /\ m.cs \in ChunkStreams
  BY <1>8 DEF Format, Message, CONTINUATION
<1>12. header' = [header EXCEPT !.format_type = Format(s, m), !.chunk_stream_id = m.cs]
  BY <1>10 DEF parse_basic_header_1byte
<1>13. PICK g \in {"message", "complete"} :
         /\ g = (IF Format(s, m) = CONTINUATION THEN "complete" ELSE "message")
         /\ NextField(1, g)
  BY <1>10 DEF parse_basic_header_1byte
<1>14. header' \in HeaderType
       /\ header'.format_type = Format(s, m) /\ header'.chunk_stream_id = m.cs
  BY <1>1, <1>11, <1>12 DEF TypeOK, HeaderType
<1>15. /\ ClientTyped' /\ ServerTyped' /\ TypeOK' /\ WindowCounts' /\ AckWithinWindow'
       /\ DeliveredInOrder'
       /\ 1 \in 0 .. Len(buffer) /\ buffer' = Left(buffer, 1)
       /\ UNCHANGED clientVars /\ UNCHANGED <<delivered, payloadVars>>
       /\ UNCHANGED <<network, channels>>
       /\ parsing_state' = IF g = "complete" THEN "payload" ELSE "header"
       /\ field' = IF g = "complete" THEN "basic" ELSE g
  BY <1>1, <1>13, <1>14, FieldTaken
<1>16. sent' = sent
  BY <1>15 DEF clientVars
<1>17. Headers(s, m) > 1 <=> Format(s, m) # CONTINUATION
  <2>1. m.fmt = CONTINUATION <=> Len(MessageHeader(m)) = 0
    BY <1>8, HeaderFacts
  <2>2. Len(MessageHeader(m)) \in Nat
    BY <1>8, HeaderFacts, LenProperties
  <2> QED BY <1>8, <2>1, <2>2 DEF Headers, Format
<1>18. HeaderRead(s, m, 1)'
  <2>1. BasicRead(s, m)'
    BY <1>14 DEF BasicRead, Cs
  <2>2. CASE Format(s, m) = CONTINUATION
    <3>1. MessageRead(m)' /\ TimeRead(m)'
      BY <1>14, <2>2
         DEF MessageRead, TimeRead, CONTINUATION, FULL, SAME_STREAM, SAME_LENGTH_AND_STREAM
    <3>2. Headers(s, m) = 1
      BY <1>9, <1>17, <2>2
    <3>3. parsing_state' = "payload" /\ field' = "basic"
      BY <1>13, <1>15, <2>2
    <3> QED BY <2>1, <3>1, <3>2, <3>3 DEF HeaderRead
  <2>3. CASE Format(s, m) # CONTINUATION
    <3>1. parsing_state' = "header" /\ field' = "message"
      BY <1>13, <1>15, <2>3
    <3> QED BY <1>17, <2>1, <2>3, <3>1 DEF HeaderRead
  <2> QED BY <2>2, <2>3
<1>19. PICK a : a = at[1] - 1
  OBVIOUS
<1>20. InChunk(s, i, a)'
  <2>1. 0 - a = 1
    <3>1. a \in Int /\ a + 1 = 0
      BY <1>6, <1>19
    <3>2. \A x \in Int : x + 1 = 0 => 0 - x = 1
      OBVIOUS
    <3> QED BY <3>1, <3>2
  <2>2. \A cs \in ChunkStreams : Remembers(cs, s.last[cs])'
    BY <1>6, <1>15, <1>16 DEF BetweenChunks, Remembers
  <2>3. HeaderRead(s, sent[i], 0 - a)'
    BY <1>16, <1>18, <2>1
  <2> QED BY <2>2, <2>3 DEF InChunk
<1>21. InStep'
  BY <1>1, <1>a, <1>3, <1>4, <1>15, <1>19, <1>20, InStepMoved
<1> QED BY <1>15, <1>21 DEF ReaderInv

(* The parser stands in the chunk of message m, the i-th.                  *)
Standing(n, under, points, at, s, i, m) ==
  /\ n > 0 /\ Path(n, under, points, at) /\ ServerAt(s) /\ InChunk(s, i, at[1])
  /\ s = points[1] /\ i = under[1] /\ m = sent[i]
  /\ Link(i, s, points[2], at[1], at[2])

(* A parser within a chunk has a chunk to stand in.                        *)
LEMMA Stands ==
  ASSUME ClientTyped, InStep, buffer # <<>>, parsing_state = "payload" \/ field # "basic"
  PROVE  \E n \in Nat : \E under \in Unders(n), points \in Points(n), at \in Places(n),
           s \in Point, i \in Indices, m \in Message : Standing(n, under, points, at, s, i, m)
<1>a. PICK n \in Nat : n > 0 /\
           \E under \in Unders(n), points \in Points(n), at \in Places(n) :
             Path(n, under, points, at) /\ ServerAt(points[1]) /\ Position(n, under, points, at)
  BY Here
<1>1. PICK under \in Unders(n), points \in Points(n), at \in Places(n) :
        Path(n, under, points, at) /\ ServerAt(points[1]) /\ Position(n, under, points, at)
  BY <1>a
<1>2. points[1] \in Point /\ under[1] \in Indices
  BY <1>a DEF Points, Unders
<1>3. PICK s \in Point, i \in Indices : s = points[1] /\ i = under[1]
  BY <1>2
<1>4. PICK m \in Message : m = sent[i]
  BY DEF ClientTyped, Indices
<1>5. InChunk(s, i, at[1])
  BY <1>1, <1>3 DEF Position, BetweenChunks
<1>6. Link(i, s, points[2], at[1], at[2])
  BY <1>a, <1>1, <1>3 DEF Path
<1>7. Standing(n, under, points, at, s, i, m)
  BY <1>a, <1>1, <1>3, <1>4, <1>5, <1>6 DEF Standing
<1> QED BY <1>7

(* The message of the chunk, the next unit, and the point behind it.       *)
LEMMA StandingFacts ==
  ASSUME ClientTyped, NEW n \in Nat, NEW under \in Unders(n), NEW points \in Points(n),
         NEW at \in Places(n), NEW s \in Point, NEW i \in Indices, NEW m \in Message,
         Standing(n, under, points, at, s, i, m)
  PROVE  /\ From(s, m) \in Nat /\ From(s, m) <= m.length /\ m.length \in Nat
         /\ To(s, m) \in Nat /\ From(s, m) <= To(s, m) /\ To(s, m) <= m.length
         /\ Headers(s, m) \in 1 .. 3 /\ at[1] \in Int
         /\ at[2] = at[1] + (Headers(s, m) + (To(s, m) - From(s, m)))
         /\ \A h \in Nat : buffer # <<>> /\ at[1] = 0 - h /\ h < Headers(s, m) =>
              Head(buffer) = NextChunk(s, i, m)[h + 1]
         /\ Headers(s, m) > 1 =>
              From(s, m) = 0 /\ NextChunk(s, i, m)[2] = MessageHeader(m)[1]
         /\ Headers(s, m) > 2 => NextChunk(s, i, m)[3] = MessageHeader(m)[2]
         /\ \A j \in 1 .. To(s, m) - From(s, m) :
              NextChunk(s, i, m)[Headers(s, m) + j] =
                [field |-> "data", bytes |-> 1, msg |-> i, at |-> From(s, m) + j]
<1> DEFINE chunk == NextChunk(s, i, m)
<1>1. /\ i \in Nat /\ From(s, m) \in Nat /\ From(s, m) <= m.length
      /\ chunk \in Seq(Unit) /\ Len(chunk) \in Nat
  <2> PICK t, a, b : t = points[2] /\ a = at[1] /\ b = at[2]
    OBVIOUS
  <2>1. Link(i, s, t, a, b) /\ m = sent[i]
    BY DEF Standing
  <2>2. a \in Int
    BY DEF Places
  <2> QED BY <2>1, <2>2, LinkFacts
<1>2. m.length \in Nat
  BY DEF Message
<1>3. To(s, m) \in Nat /\ From(s, m) <= To(s, m) /\ To(s, m) <= m.length
  BY <1>1, ToFacts
<1>4. /\ Headers(s, m) \in 1 .. 3
      /\ Len(chunk) = Headers(s, m) + (To(s, m) - From(s, m))
      /\ Headers(s, m) > 1 => From(s, m) = 0 /\ chunk[2] = MessageHeader(m)[1]
      /\ Headers(s, m) > 2 => chunk[3] = MessageHeader(m)[2]
      /\ \A j \in 1 .. To(s, m) - From(s, m) :
           chunk[Headers(s, m) + j] =
             [field |-> "data", bytes |-> 1, msg |-> i, at |-> From(s, m) + j]
  BY <1>1, ChunkFacts
<1>5. at[1] \in Int /\ Fits(chunk, at[1]) /\ at[2] = at[1] + Len(chunk)
  BY DEF Standing, Link, Places
<1> HIDE DEF chunk
<1>6. ASSUME NEW h \in Nat, buffer # <<>>, at[1] = 0 - h, h < Headers(s, m)
      PROVE  Head(buffer) = chunk[h + 1]
  <2>1. h < Len(chunk)
    BY <1>1, <1>3, <1>4, <1>6
  <2> PICK a \in Int : a = at[1]
    BY <1>5
  <2> QED BY <1>1, <1>5, <1>6, <2>1, HeadOfChunk
<1> QED BY <1>1, <1>2, <1>3, <1>4, <1>5, <1>6 DEF chunk

(* Behind the basic header of a message that begins is its message header. *)
LEMMA AtMessage ==
  ASSUME ClientTyped, TypeOK, AtField("message"),
         NEW n \in Nat, NEW under \in Unders(n), NEW points \in Points(n),
         NEW at \in Places(n), NEW s \in Point, NEW i \in Indices, NEW m \in Message,
         Standing(n, under, points, at, s, i, m)
  PROVE  /\ at[1] = 0 - 1 /\ Len(MessageHeader(m)) \in 1 .. 2
         /\ Headers(s, m) = 1 + Len(MessageHeader(m)) /\ Format(s, m) = m.fmt
         /\ Head(buffer) \in MessageUnit
         /\ Head(buffer).length = m.length /\ Head(buffer).kind = m.kind
         /\ Head(buffer).timestamp = ExtendedMark <=> Len(MessageHeader(m)) = 2
         /\ Len(MessageHeader(m)) = 1 => Head(buffer).timestamp = Stamp(m)
         /\ header.format_type = m.fmt /\ m.fmt \in {FULL, SAME_STREAM, SAME_LENGTH_AND_STREAM}
         /\ Cs = m.cs
<1>1. buffer # <<>> /\ parsing_state = "header" /\ field = "message" /\ pc = "parsing"
  BY DEF AtField
<1>2. /\ n > 0 /\ Path(n, under, points, at) /\ ServerAt(s) /\ InChunk(s, i, at[1])
      /\ s = points[1] /\ i = under[1] /\ m = sent[i]
  BY DEF Standing
<1>3. at[1] \in Int /\ Headers(s, m) \in 1 .. 3
  BY StandingFacts
<1>4. at[1] = 0 - 1 /\ Headers(s, m) > 1 /\ BasicRead(s, m)
  <2>1. 0 - at[1] = 1 /\ Headers(s, m) > 1 /\ BasicRead(s, m)
    BY <1>1, <1>2 DEF InChunk, HeaderRead
  <2>2. \A x \in Int : 0 - x = 1 => x = 0 - 1
    OBVIOUS
  <2> QED BY <1>3, <2>1, <2>2
<1>5. Head(buffer) = MessageHeader(m)[1] /\ From(s, m) = 0
  <2>1. Head(buffer) = NextChunk(s, i, m)[1 + 1]
    BY <1>1, <1>4, StandingFacts
  <2>2. From(s, m) = 0 /\ NextChunk(s, i, m)[2] = MessageHeader(m)[1]
    BY <1>4, StandingFacts
  <2> QED BY <2>1, <2>2
<1>6. Headers(s, m) = 1 + Len(MessageHeader(m)) /\ Format(s, m) = m.fmt
  BY <1>5 DEF Headers, Format
<1>7. m.fmt # CONTINUATION /\ Len(MessageHeader(m)) \in 1 .. 2
  <2>1. m.fmt = CONTINUATION => Len(MessageHeader(m)) = 0
    BY HeaderFacts
  <2>2. m.fmt # CONTINUATION => Len(MessageHeader(m)) \in 1 .. 2
    BY HeaderFacts
  <2> QED BY <1>4, <1>6, <2>1, <2>2
<1>8. /\ MessageHeader(m)[1] \in MessageUnit
      /\ MessageHeader(m)[1].length = m.length /\ MessageHeader(m)[1].kind = m.kind
      /\ MessageHeader(m)[1].timestamp = ExtendedMark <=> Len(MessageHeader(m)) = 2
      /\ Len(MessageHeader(m)) = 1 => MessageHeader(m)[1].timestamp = Stamp(m)
  BY <1>7, HeaderFacts
<1>9. header.format_type = m.fmt /\ m.fmt \in {FULL, SAME_STREAM, SAME_LENGTH_AND_STREAM}
      /\ Cs = m.cs
  BY <1>4, <1>6, <1>7
     DEF BasicRead, Message, FULL, SAME_STREAM, SAME_LENGTH_AND_STREAM, CONTINUATION
<1> QED BY <1>4, <1>5, <1>6, <1>7, <1>8, <1>9

(* The header a message header is read into keeps its types.               *)
LEMMA HeaderFromType ==
  ASSUME TypeOK, NEW u \in MessageUnit,
         header.format_type \in {FULL, SAME_STREAM, SAME_LENGTH_AND_STREAM}
  PROVE  /\ HeaderFrom(u) \in HeaderType
         /\ HeaderFrom(u).format_type = header.format_type
         /\ HeaderFrom(u).chunk_stream_id = Cs
         /\ header.format_type \in {FULL, SAME_STREAM} =>
              HeaderFrom(u).msg_length = u.length /\ HeaderFrom(u).msg_type_id = u.kind
         /\ IF header.format_type = FULL THEN HeaderFrom(u).timestamp = u.timestamp
            ELSE HeaderFrom(u).timestamp_delta = u.timestamp
<1>1. header \in HeaderType
  BY DEF TypeOK, HeaderType
<1>2. u.timestamp \in Numbers /\ u.length \in Nat /\ u.kind \in Types /\ u.sid \in {0, 1}
  BY DEF MessageUnit, Kinds, Sized, Types
<1>3. CASE header.format_type = FULL
  <2>1. HeaderFrom(u) = [header EXCEPT !.timestamp = u.timestamp, !.msg_length = u.length,
                                       !.msg_type_id = u.kind, !.msg_stream_id = u.sid]
    BY <1>3 DEF HeaderFrom, FULL, SAME_STREAM, SAME_LENGTH_AND_STREAM
  <2> QED BY <1>1, <1>2, <1>3, <2>1 DEF HeaderType, Cs
<1>4. CASE header.format_type = SAME_STREAM
  <2>1. HeaderFrom(u) = [header EXCEPT !.timestamp_delta = u.timestamp, !.msg_length = u.length,
                                       !.msg_type_id = u.kind]
    BY <1>4 DEF HeaderFrom, FULL, SAME_STREAM, SAME_LENGTH_AND_STREAM
  <2>2. HeaderFrom(u) \in HeaderType
    BY <1>1, <1>2, <2>1 DEF HeaderType
  <2>3. /\ HeaderFrom(u).format_type = header.format_type /\ HeaderFrom(u).chunk_stream_id = Cs
        /\ HeaderFrom(u).msg_length = u.length /\ HeaderFrom(u).msg_type_id = u.kind
        /\ HeaderFrom(u).timestamp_delta = u.timestamp
    BY <1>1, <2>1 DEF HeaderType, Cs
  <2>4. header.format_type # FULL
    BY <1>4 DEF FULL, SAME_STREAM
  <2> QED BY <2>2, <2>3, <2>4
<1>5. CASE header.format_type = SAME_LENGTH_AND_STREAM
  <2>1. HeaderFrom(u) = [header EXCEPT !.timestamp_delta = u.timestamp]
    BY <1>5 DEF HeaderFrom, FULL, SAME_STREAM, SAME_LENGTH_AND_STREAM
  <2> QED BY <1>1, <1>2, <1>5, <2>1
          DEF HeaderType, Cs, FULL, SAME_STREAM, SAME_LENGTH_AND_STREAM
<1> QED BY <1>3, <1>4, <1>5

(* parse_chunk_header_type0, _type1 and _type2.                            *)
LEMMA MessageStep ==
  ASSUME ReaderInv, parse_chunk_header
  PROVE  ReaderInv'
<1>1. ClientTyped /\ TypeOK /\ InStep /\ AtField("message")
  BY DEF ReaderInv, parse_chunk_header, AtField
<1>2. buffer # <<>> /\ parsing_state = "header" /\ field = "message" /\ pc = "parsing"
  BY <1>1 DEF AtField
<1>a. PICK n \in Nat : \E under \in Unders(n), points \in Points(n), at \in Places(n),
        s \in Point, i \in Indices, m \in Message : Standing(n, under, points, at, s, i, m)
  BY <1>1, <1>2, Stands
<1>3. PICK under \in Unders(n), points \in Points(n), at \in Places(n),
           s \in Point, i \in Indices, m \in Message : Standing(n, under, points, at, s, i, m)
  BY <1>a
<1>4. /\ n > 0 /\ Path(n, under, points, at) /\ ServerAt(s) /\ InChunk(s, i, at[1])
      /\ s = points[1] /\ i = under[1] /\ m = sent[i]
  BY <1>3 DEF Standing
<1>5. at[1] \in Int
  BY DEF Places
<1> PICK u : u = Head(buffer)
  OBVIOUS
<1>6. /\ at[1] = 0 - 1 /\ Len(MessageHeader(m)) \in 1 .. 2
      /\ Headers(s, m) = 1 + Len(MessageHeader(m)) /\ Format(s, m) = m.fmt
      /\ u \in MessageUnit /\ u.length = m.length /\ u.kind = m.kind
      /\ u.timestamp = ExtendedMark <=> Len(MessageHeader(m)) = 2
      /\ Len(MessageHeader(m)) = 1 => u.timestamp = Stamp(m)
      /\ header.format_type = m.fmt /\ m.fmt \in {FULL, SAME_STREAM, SAME_LENGTH_AND_STREAM}
      /\ Cs = m.cs
  BY <1>1, <1>3, AtMessage
<1>7. PICK g \in {"extended", "complete"} :
        /\ g = (IF u.timestamp = ExtendedMark THEN "extended" ELSE "complete")
        /\ NextField(u.bytes, g)
  BY DEF parse_chunk_header
<1>8. /\ header' \in HeaderType
      /\ header'.format_type = m.fmt /\ header'.chunk_stream_id = m.cs
      /\ m.fmt \in {FULL, SAME_STREAM} =>
           header'.msg_length = m.length /\ header'.msg_type_id = m.kind
      /\ IF m.fmt = FULL THEN header'.timestamp = u.timestamp
         ELSE header'.timestamp_delta = u.timestamp
  <2>1. header' = HeaderFrom(u)
    BY DEF parse_chunk_header
  <2> QED BY <1>1, <1>6, <2>1, HeaderFromType
<1>9. /\ ClientTyped' /\ ServerTyped' /\ TypeOK' /\ WindowCounts' /\ AckWithinWindow'
      /\ DeliveredInOrder'
      /\ 1 \in 0 .. Len(buffer) /\ buffer' = Left(buffer, 1)
      /\ UNCHANGED clientVars /\ UNCHANGED <<delivered, payloadVars>>
      /\ UNCHANGED <<network, channels>>
      /\ parsing_state' = IF g = "complete" THEN "payload" ELSE "header"
      /\ field' = IF g = "complete" THEN "basic" ELSE g
  <2>1. u.bytes \in Nat
    BY <1>6 DEF MessageUnit
  <2> QED BY <1>1, <1>7, <1>8, <2>1, FieldTaken
<1>10. sent' = sent
  BY <1>9 DEF clientVars
<1>11. HeaderRead(s, m, 2)'
  <2>1. BasicRead(s, m)'
    BY <1>6, <1>8 DEF BasicRead, Cs
  <2>2. MessageRead(m)'
    BY <1>8 DEF MessageRead
  <2>3. CASE g = "complete"
    <3>1. Len(MessageHeader(m)) = 1
      BY <1>6, <1>7, <2>3
    <3>2. parsing_state' = "payload" /\ field' = "basic" /\ Headers(s, m) = 2
      BY <1>6, <1>9, <2>3, <3>1
    <3>3. TimeRead(m)'
      BY <1>6, <1>8, <3>1 DEF TimeRead, FULL, SAME_STREAM, SAME_LENGTH_AND_STREAM
    <3> QED BY <2>1, <2>2, <3>2, <3>3 DEF HeaderRead
  <2>4. CASE g = "extended"
    <3>1. Len(MessageHeader(m)) = 2
      BY <1>6, <1>7, <2>4
    <3>2. parsing_state' = "header" /\ field' = "extended" /\ Headers(s, m) > 2
      BY <1>6, <1>9, <2>4, <3>1
    <3> QED BY <2>1, <2>2, <3>2 DEF HeaderRead
  <2> QED BY <2>3, <2>4
<1>12. PICK a \in Int : a = at[1] - 1
  BY <1>5
<1>13. InChunk(s, i, a)'
  <2>1. 0 - a = 2
    <3>1. \A x, y \in Int : y = 0 - 1 /\ x = y - 1 => 0 - x = 2
      OBVIOUS
    <3> QED BY <1>5, <1>6, <1>12, <3>1
  <2>2. \A cs \in ChunkStreams : Remembers(cs, s.last[cs])'
    BY <1>2, <1>4, <1>9, <1>10 DEF InChunk, Remembers
  <2>3. HeaderRead(s, sent[i], 0 - a)'
    BY <1>4, <1>10, <1>11, <2>1
  <2> QED BY <2>2, <2>3 DEF InChunk
<1>14. InStep'
  BY <1>1, <1>4, <1>9, <1>12, <1>13, InStepMoved
<1> QED BY <1>9, <1>14 DEF ReaderInv

(* Behind the mark in a message header is the extended timestamp.          *)
LEMMA AtExtended ==
  ASSUME ClientTyped, AtField("extended"),
         NEW n \in Nat, NEW under \in Unders(n), NEW points \in Points(n),
         NEW at \in Places(n), NEW s \in Point, NEW i \in Indices, NEW m \in Message,
         Standing(n, under, points, at, s, i, m)
  PROVE  /\ at[1] \in Int /\ at[1] = 0 - 2 /\ Headers(s, m) = 3
         /\ BasicRead(s, m) /\ MessageRead(m) /\ header.format_type = m.fmt
         /\ m.fmt # CONTINUATION
         /\ Head(buffer) \in ExtendedUnit /\ Head(buffer).timestamp = Stamp(m)
<1>1. buffer # <<>> /\ parsing_state = "header" /\ field = "extended"
  BY DEF AtField
<1>2. InChunk(s, i, at[1]) /\ m = sent[i]
  BY DEF Standing
<1>3. at[1] \in Int /\ Headers(s, m) \in 1 .. 3
  BY StandingFacts
<1>4. at[1] = 0 - 2 /\ Headers(s, m) = 3 /\ BasicRead(s, m) /\ MessageRead(m)
  <2>1. 0 - at[1] = 2 /\ Headers(s, m) > 2 /\ BasicRead(s, m) /\ MessageRead(m)
    BY <1>1, <1>2 DEF InChunk, HeaderRead
  <2>2. \A x \in Int : 0 - x = 2 => x = 0 - 2
    OBVIOUS
  <2> QED BY <1>3, <2>1, <2>2
<1>5. Head(buffer) = MessageHeader(m)[2] /\ From(s, m) = 0
  <2>1. Head(buffer) = NextChunk(s, i, m)[2 + 1]
    BY <1>1, <1>4, StandingFacts
  <2>2. From(s, m) = 0 /\ NextChunk(s, i, m)[3] = MessageHeader(m)[2]
    BY <1>4, StandingFacts
  <2> QED BY <2>1, <2>2
<1>6. Len(MessageHeader(m)) = 2 /\ m.fmt # CONTINUATION
  <2>1. Headers(s, m) = 1 + Len(MessageHeader(m))
    BY <1>5 DEF Headers
  <2>2. m.fmt = CONTINUATION => Len(MessageHeader(m)) = 0
    BY HeaderFacts
  <2>3. m.fmt # CONTINUATION => Len(MessageHeader(m)) \in 1 .. 2
    BY HeaderFacts
  <2>4. 1 + Len(MessageHeader(m)) = 3
    BY <1>4, <2>1
  <2>5. CASE m.fmt = CONTINUATION
    BY <2>2, <2>4, <2>5
  <2>6. CASE m.fmt # CONTINUATION
    <3>1. \A x \in 1 .. 2 : 1 + x = 3 => x = 2
      OBVIOUS
    <3> QED BY <2>3, <2>4, <2>6, <3>1
  <2> QED BY <2>5, <2>6
<1>7. MessageHeader(m)[2] \in ExtendedUnit /\ MessageHeader(m)[2].timestamp = Stamp(m)
  BY <1>6, HeaderFacts
<1>8. header.format_type = m.fmt
  BY <1>4, <1>5 DEF BasicRead, Format
<1> QED BY <1>3, <1>4, <1>5, <1>6, <1>7, <1>8

(* parse_extended_timestamp.                                               *)
LEMMA ExtendedStep ==
  ASSUME ReaderInv, parse_extended_timestamp
  PROVE  ReaderInv'
<1>1. ClientTyped /\ TypeOK /\ InStep /\ AtField("extended")
  BY DEF ReaderInv, parse_extended_timestamp, AtField
<1>2. buffer # <<>> /\ parsing_state = "header" /\ field = "extended" /\ pc = "parsing"
  BY <1>1 DEF AtField
<1>a. PICK n \in Nat : \E under \in Unders(n), points \in Points(n), at \in Places(n),
        s \in Point, i \in Indices, m \in Message : Standing(n, under, points, at, s, i, m)
  BY <1>1, <1>2, Stands
<1>3. PICK under \in Unders(n), points \in Points(n), at \in Places(n),
           s \in Point, i \in Indices, m \in Message : Standing(n, under, points, at, s, i, m)
  BY <1>a
<1>4. /\ n > 0 /\ Path(n, under, points, at) /\ ServerAt(s) /\ InChunk(s, i, at[1])
      /\ s = points[1] /\ i = under[1] /\ m = sent[i]
  BY <1>3 DEF Standing
<1>5. /\ at[1] \in Int /\ at[1] = 0 - 2 /\ Headers(s, m) = 3
      /\ BasicRead(s, m) /\ MessageRead(m) /\ header.format_type = m.fmt
      /\ m.fmt # CONTINUATION
      /\ Head(buffer) \in ExtendedUnit /\ Head(buffer).timestamp = Stamp(m)
  BY <1>1, <1>3, AtExtended
<1> PICK stamp \in Numbers : stamp = Head(buffer).timestamp
  BY <1>5 DEF ExtendedUnit
<1>6. /\ header' = IF header.format_type = FULL THEN [header EXCEPT !.timestamp = stamp]
                   ELSE [header EXCEPT !.timestamp_delta = stamp]
      /\ NextField(4, "complete")
  BY DEF parse_extended_timestamp
<1>7. /\ header' \in HeaderType
      /\ header'.format_type = header.format_type
      /\ header'.chunk_stream_id = header.chunk_stream_id
      /\ header'.msg_length = header.msg_length /\ header'.msg_type_id = header.msg_type_id
      /\ IF header.format_type = FULL THEN header'.timestamp = stamp
         ELSE header'.timestamp_delta = stamp
  <2>1. header \in HeaderType
    BY <1>1 DEF TypeOK, HeaderType
  <2>2. CASE header.format_type = FULL
    BY <1>6, <2>1, <2>2 DEF HeaderType
  <2>3. CASE header.format_type # FULL
    BY <1>6, <2>1, <2>3 DEF HeaderType
  <2> QED BY <2>2, <2>3
<1>8. /\ ClientTyped' /\ ServerTyped' /\ TypeOK' /\ WindowCounts' /\ AckWithinWindow'
      /\ DeliveredInOrder'
      /\ 1 \in 0 .. Len(buffer) /\ buffer' = Left(buffer, 1)
      /\ UNCHANGED clientVars /\ UNCHANGED <<delivered, payloadVars>>
      /\ UNCHANGED <<network, channels>>
      /\ parsing_state' = "payload" /\ field' = "basic"
  BY <1>1, <1>6, <1>7, FieldTaken
<1>9. sent' = sent
  BY <1>8 DEF clientVars
<1>10. HeaderRead(s, m, 3)'
  <2>1. BasicRead(s, m)' /\ MessageRead(m)'
    BY <1>5, <1>7 DEF BasicRead, MessageRead, Cs
  <2>2. TimeRead(m)'
    BY <1>5, <1>7 DEF TimeRead, FULL, SAME_STREAM, SAME_LENGTH_AND_STREAM
  <2> QED BY <1>5, <1>8, <2>1, <2>2 DEF HeaderRead
<1>11. PICK a \in Int : a = at[1] - 1
  BY <1>5
<1>12. InChunk(s, i, a)'
  <2>1. 0 - a = 3
    <3>1. \A x, y \in Int : y = 0 - 2 /\ x = y - 1 => 0 - x = 3
      OBVIOUS
    <3> QED BY <1>5, <1>11, <3>1
  <2>2. \A cs \in ChunkStreams : Remembers(cs, s.last[cs])'
    BY <1>2, <1>4, <1>8, <1>9 DEF InChunk, Remembers
  <2>3. HeaderRead(s, sent[i], 0 - a)'
    BY <1>4, <1>9, <1>10, <2>1
  <2> QED BY <2>2, <2>3 DEF InChunk
<1>13. InStep'
  BY <1>1, <1>4, <1>8, <1>11, <1>12, InStepMoved
<1> QED BY <1>8, <1>13 DEF ReaderInv

(* The counters as parse finds them.                                       *)
LEMMA CountersHere ==
  ASSUME ReaderInv
  PROVE  /\ ack \in Counters /\ counting.parse \in Nat /\ unacked \in Nat
         /\ ack.next_ack_send_size <= ack.readed_bytes_count + ack.win_ack_size
         /\ ack.next_ack_send_size >= ack.win_ack_size /\ ack.win_ack_size > 0
         /\ ack.readed_bytes_count < ack.next_ack_send_size
<1>1. ack \in Counters /\ counting.parse \in Nat /\ unacked \in Nat
  BY DEF ReaderInv, TypeOK, Counters
<1>2. /\ ack.next_ack_send_size <= ack.readed_bytes_count + ack.win_ack_size
      /\ ack.next_ack_send_size >= ack.win_ack_size
      /\ ack.readed_bytes_count < ack.next_ack_send_size
  BY DEF ReaderInv, AckWithinWindow, WindowCounts
<1>3. ack.readed_bytes_count \in Nat /\ ack.win_ack_size \in Nat /\ ack.next_ack_send_size \in Nat
  BY <1>1 DEF Counters
<1> QED BY <1>1, <1>2, <1>3

(* parse returns indeterminate with an empty buffer.                       *)
LEMMA NeedsMoreStep ==
  ASSUME ReaderInv, NeedsMore
  PROVE  ReaderInv'
<1>1. /\ ClientTyped /\ ServerTyped /\ TypeOK /\ DeliveredInOrder /\ InStep
  BY DEF ReaderInv, NeedsMore
<1>2. /\ UNCHANGED clientVars /\ pc' = "reading" /\ Return(ack, counting.parse, unacked)
      /\ UNCHANGED <<network, buffer, delivered, parsing_state, headerVars, payloadVars>>
  BY DEF NeedsMore
<1>3. UNCHANGED <<delivered, incomplete, channels, recv_chunk_size, last_message_timestamp,
                  rollover_count, field, header, parsing_state>>
  BY <1>2 DEF headerVars, payloadVars
<1>4. /\ ack' \in Counters /\ unacked' \in Nat
      /\ counting' \in [parse : Nat, parse_header : Nat]
      /\ WindowCounts' /\ AckWithinWindow'
  BY <1>2, CountersHere, Returns
<1>5. ClientTyped'
  <2>1. buffer' \in Seq(Unit) /\ network' \in Seq(Unit)
    BY <1>1, <1>2 DEF ClientTyped
  <2> QED BY <1>1, <1>2, <2>1, ClientTypedStays
<1>6. ServerTyped' /\ TypeOK'
  BY <1>1, <1>2, <1>3, <1>4 DEF ServerTyped, TypeOK, Counters
<1>7. DeliveredInOrder'
  BY <1>1, <1>2, <1>3, SameDelivered
<1>8. InStep'
  <2>1. UNCHANGED serverVars /\ DOMAIN incomplete \subseteq ChunkStreams /\ Rest' = Rest
    BY <1>1, <1>2 DEF serverVars, TypeOK, Rest
  <2> QED BY <1>1, <1>2, <2>1, InStepStays
<1> QED BY <1>4, <1>5, <1>6, <1>7, <1>8 DEF ReaderInv

(* parse fails on a message type it does not know.                         *)
LEMMA UnknownTypeStep ==
  ASSUME ReaderInv, UnknownType
  PROVE  ReaderInv'
<1>1. /\ ClientTyped /\ ServerTyped /\ TypeOK /\ DeliveredInOrder /\ InStep /\ AtField("message")
  BY DEF ReaderInv, UnknownType, AtField
<1>2. buffer # <<>> /\ parsing_state = "header" /\ field = "message" /\ pc = "parsing"
  BY <1>1 DEF AtField
<1>a. PICK n \in Nat : \E under \in Unders(n), points \in Points(n), at \in Places(n),
        s \in Point, i \in Indices, m \in Message : Standing(n, under, points, at, s, i, m)
  BY <1>1, <1>2, Stands
<1>3. PICK under \in Unders(n), points \in Points(n), at \in Places(n),
           s \in Point, i \in Indices, m \in Message : Standing(n, under, points, at, s, i, m)
  BY <1>a
<1> PICK u : u = Head(buffer)
  OBVIOUS
<1>4. /\ u \in MessageUnit
      /\ header.format_type \in {FULL, SAME_STREAM, SAME_LENGTH_AND_STREAM}
  BY <1>1, <1>3, AtMessage
<1>5. /\ header' = HeaderFrom(u) /\ field' \in {"extended", "basic"}
      /\ buffer' = Left(buffer, 1) /\ Fails(u.bytes) /\ UNCHANGED clientVars
      /\ UNCHANGED <<network, delivered, parsing_state, payloadVars>>
  BY DEF UnknownType, Take, Left
<1>6. UNCHANGED <<delivered, incomplete, channels, recv_chunk_size, last_message_timestamp,
                  rollover_count, parsing_state>>
  BY <1>5 DEF payloadVars
<1>7. pc' = "closed" /\ Return(ack, counting.parse, unacked + u.bytes)
  BY <1>5 DEF Fails
<1>8. /\ ack' \in Counters /\ unacked' \in Nat
      /\ counting' \in [parse : Nat, parse_header : Nat]
      /\ WindowCounts' /\ AckWithinWindow'
  <2>1. unacked + u.bytes \in Nat
    BY <1>4, CountersHere DEF MessageUnit
  <2> QED BY <1>7, <2>1, CountersHere, Returns
<1>9. ClientTyped'
  <2>1. 1 \in 0 .. Len(buffer)
    BY <1>1, <1>2 DEF ClientTyped
  <2>2. network' = network /\ network' \in Seq(Unit)
    BY <1>1, <1>5 DEF ClientTyped
  <2>3. buffer' \in Seq(Unit)
    BY <1>1, <1>5, <2>1, <2>2, RestTaken
  <2> QED BY <1>1, <1>5, <2>2, <2>3, ClientTypedStays
<1>10. header' \in HeaderType
  BY <1>1, <1>4, <1>5, HeaderFromType
<1>11. ServerTyped' /\ TypeOK'
  BY <1>1, <1>5, <1>6, <1>7, <1>8, <1>10 DEF ServerTyped, TypeOK, Counters, HeaderType
<1>12. DeliveredInOrder'
  BY <1>1, <1>5, <1>6, SameDelivered
<1> QED BY <1>7, <1>8, <1>9, <1>11, <1>12 DEF ReaderInv
-----------------------------------------------------------------------------
(* The payload.                                                            *)
ChannelType ==
  [last_msg_len : Nat, last_msg_type_id : Types, last_msg_timestamp : Numbers,
   last_msg_timestamp_delta : Numbers]

(* The timestamp of a chunk stays on the circle, and the count a number.   *)
LEMMA NumberTypes ==
  ASSUME TypeOK
  PROVE  /\ Number \in Numbers /\ Count \in Nat /\ unroll(Number, Count) \in Nat
         /\ Channel \in ChannelType /\ Cs \in ChunkStreams /\ channels[Cs] \in ChannelType
         /\ header \in HeaderType
<1>1. /\ header \in HeaderType /\ Cs \in ChunkStreams /\ channels[Cs] \in ChannelType
      /\ rollover_count \in Nat
  BY DEF TypeOK, HeaderType, ChannelType, Cs
<1>2. divisor \in Nat /\ divisor > 0
  BY HalfDivisorAssumption DEF divisor
<1>3. \A x \in Int : x % divisor \in 0 .. divisor - 1
  BY <1>2
<1>4. /\ header.timestamp \in Numbers /\ header.timestamp_delta \in Numbers
      /\ channels[Cs].last_msg_timestamp \in Numbers
      /\ channels[Cs].last_msg_timestamp_delta \in Numbers
  BY <1>1 DEF HeaderType, ChannelType
<1>5. StepDelta \in Numbers
  BY <1>4 DEF StepDelta
<1>6. Number \in Numbers
  <2>1. channels[Cs].last_msg_timestamp + StepDelta \in Int
    BY <1>2, <1>4, <1>5 DEF Numbers
  <2>2. add(channels[Cs].last_msg_timestamp, StepDelta) \in Numbers
    BY <1>3, <2>1 DEF add, serialnumber, Numbers
  <2> QED BY <1>4, <2>2 DEF Number
<1>7. Count \in Nat
  BY <1>1 DEF Count, counted
<1>8. unroll(Number, Count) \in Nat
  <2>1. ASSUME NEW d \in Nat, NEW x \in Nat, NEW y \in Nat PROVE d * x + y \in Nat
    BY <2>1
  <2>2. Number \in Nat
    BY <1>2, <1>6 DEF Numbers
  <2> QED BY <1>2, <1>7, <2>1, <2>2 DEF unroll
<1>9. Channel \in ChannelType
  <2>1. /\ header.msg_length \in Nat /\ header.msg_type_id \in Types
        /\ channels[Cs].last_msg_len \in Nat /\ channels[Cs].last_msg_type_id \in Types
    BY <1>1 DEF HeaderType, ChannelType
  <2> QED BY <1>4, <1>6, <2>1 DEF Channel, ChannelType
<1> QED BY <1>1, <1>6, <1>7, <1>8, <1>9

(* What the parser has of the message of the chunk it is in.               *)
LEMMA InPayload ==
  ASSUME ClientTyped, ServerTyped, TypeOK, parsing_state = "payload",
         NEW n \in Nat, NEW under \in Unders(n), NEW points \in Points(n),
         NEW at \in Places(n), NEW s \in Point, NEW i \in Indices, NEW m \in Message,
         Standing(n, under, points, at, s, i, m)
  PROVE  /\ at[1] = 0 - Headers(s, m) /\ field = "basic" /\ Cs = m.cs
         /\ Fresh <=> From(s, m) = 0
         /\ Info \in Entry /\ Info.kind = m.kind /\ Info.msg_length = m.length
         /\ Info.recv_buf = Payload(i, 0, From(s, m)) /\ Len(Info.recv_buf) = From(s, m)
         /\ need_size = m.length - From(s, m) /\ this_msg_size = To(s, m) - From(s, m)
         /\ Fresh => Channel.last_msg_len = m.length /\ Channel.last_msg_type_id = m.kind
<1>1. /\ n > 0 /\ ServerAt(s) /\ InChunk(s, i, at[1]) /\ Comes(s, i) /\ m = sent[i]
  BY DEF Standing, Link
<1>2. /\ From(s, m) \in Nat /\ From(s, m) <= m.length /\ m.length \in Nat
      /\ To(s, m) \in Nat /\ From(s, m) <= To(s, m) /\ at[1] \in Int
      /\ Headers(s, m) \in 1 .. 3
  BY StandingFacts
<1>3. /\ 0 - at[1] = Headers(s, m) /\ field = "basic" /\ BasicRead(s, m) /\ MessageRead(m)
  BY <1>1 DEF InChunk, HeaderRead
<1>4. at[1] = 0 - Headers(s, m)
  <2>1. \A x, y \in Int : 0 - x = y => x = 0 - y
    OBVIOUS
  <2> QED BY <1>2, <1>3, <2>1
<1>5. Cs = m.cs /\ header.format_type = Format(s, m) /\ Cs \in ChunkStreams /\ i \in Nat
  BY <1>3, NumberTypes DEF BasicRead, Indices
<1>6. From(s, m) = Received(Cs)
  BY <1>1, <1>5 DEF ServerAt, From
<1>7. ~Fresh => /\ From(s, m) > 0 /\ i = s.last[Cs] /\ incomplete[Cs] \in Entry
                /\ Carries(incomplete[Cs], i, From(s, m))
  <2> SUFFICES ASSUME Cs \in DOMAIN incomplete
               PROVE  /\ From(s, m) > 0 /\ i = s.last[Cs] /\ incomplete[Cs] \in Entry
                      /\ Carries(incomplete[Cs], i, From(s, m))
    BY DEF Fresh
  <2>1. /\ Received(Cs) \in 1 .. sent[s.last[Cs]].length - 1
        /\ Carries(incomplete[Cs], s.last[Cs], Received(Cs))
    BY <1>1 DEF ServerAt
  <2>2. From(s, m) > 0
    BY <1>2, <1>6, <2>1
  <2>3. i = s.last[Cs]
    BY <1>1, <1>5, <2>2 DEF Comes
  <2>4. incomplete[Cs] \in Entry
    BY DEF ServerTyped
  <2> QED BY <1>6, <2>1, <2>2, <2>3, <2>4
<1>8. Fresh => From(s, m) = 0
  BY <1>6 DEF Fresh, Received
<1>9. Fresh => Channel.last_msg_len = m.length /\ Channel.last_msg_type_id = m.kind
  <2> SUFFICES ASSUME Fresh
               PROVE  Channel.last_msg_len = m.length /\ Channel.last_msg_type_id = m.kind
    OBVIOUS
  <2>1. header.format_type = m.fmt
    BY <1>2, <1>5, <1>8 DEF Format
  <2>2. CASE m.fmt \in {FULL, SAME_STREAM}
    BY <1>3, <2>1, <2>2 DEF Channel, MessageRead
  <2>3. CASE m.fmt \notin {FULL, SAME_STREAM}
    <3>1. m.fmt \in {SAME_LENGTH_AND_STREAM, CONTINUATION}
      BY <2>3 DEF Message, FULL, SAME_STREAM, SAME_LENGTH_AND_STREAM, CONTINUATION
    <3>2. s.last[Cs] \in Indices /\ Inherits(m, sent[s.last[Cs]])
      <4>1. Follows(m, s.last[Cs]) /\ m.fmt # FULL /\ m.fmt # SAME_STREAM
        BY <1>1, <1>2, <1>5, <1>8, <3>1
           DEF Comes, FULL, SAME_STREAM, SAME_LENGTH_AND_STREAM, CONTINUATION
      <4> QED BY <4>1 DEF Follows, MayFollow, Inherits
    <3>3. Remembers(Cs, s.last[Cs]) \/ Remembers(Cs, i)
      BY <1>1, <1>5 DEF InChunk
    <3>4. channels[Cs].last_msg_len = m.length /\ channels[Cs].last_msg_type_id = m.kind
      BY <1>1, <3>2, <3>3 DEF Remembers, Inherits, Indices
    <3> QED BY <2>1, <2>3, <3>4 DEF Channel
  <2> QED BY <2>2, <2>3
<1>10. /\ Info \in Entry /\ Info.kind = m.kind /\ Info.msg_length = m.length
       /\ Info.recv_buf = Payload(i, 0, From(s, m))
  <2>1. CASE Fresh
    <3>1. Info = [kind |-> Channel.last_msg_type_id, msg_length |-> Channel.last_msg_len,
                  timestamp |-> Number, abs_timestamp |-> unroll(Number, Count),
                  msg_stream_id |-> header.msg_stream_id, recv_buf |-> <<>>]
      BY <2>1 DEF Info
    <3>2. header.msg_stream_id \in {0, 1} /\ Number \in Numbers /\ unroll(Number, Count) \in Nat
      BY NumberTypes DEF HeaderType
    <3>3. Channel.last_msg_type_id \in Types /\ Channel.last_msg_len \in Nat
      BY NumberTypes DEF ChannelType
    <3>4. <<>> \in Seq(Unit) /\ Payload(i, 0, 0) = <<>>
      BY DEF Payload
    <3> QED BY <1>8, <1>9, <2>1, <3>1, <3>2, <3>3, <3>4 DEF Entry
  <2>2. CASE ~Fresh
    BY <1>1, <1>7, <2>2 DEF Info, Carries
  <2> QED BY <2>1, <2>2
<1>11. Len(Info.recv_buf) = From(s, m)
  <2>1. Len(Payload(i, 0, From(s, m))) = From(s, m)
    BY <1>2, <1>5, PayloadFrom
  <2> QED BY <1>2, <1>10, <2>1
<1>12. need_size = m.length - From(s, m)
  BY <1>10, <1>11 DEF need_size
<1>13. this_msg_size = To(s, m) - From(s, m)
  <2>1. recv_chunk_size = s.size /\ s.size \in Nat \ {0}
    BY <1>1 DEF ServerAt, Point
  <2>2. this_msg_size = IF need_size <= s.size THEN need_size ELSE s.size
    BY <1>2, <1>12, <2>1, MinOf DEF this_msg_size
  <2> QED BY <1>2, <1>12, <2>1, <2>2 DEF To
<1>14. Fresh <=> From(s, m) = 0
  BY <1>7, <1>8
<1> QED BY <1>3, <1>4, <1>5, <1>9, <1>10, <1>11, <1>12, <1>13, <1>14

(* What a fresh chunk leaves in the channels.                              *)
LEMMA Remembered ==
  ASSUME TypeOK, Remember
  PROVE  /\ channels' \in [ChunkStreams -> ChannelType]
         /\ last_message_timestamp' \in Numbers /\ rollover_count' \in Nat
         /\ \A cs \in ChunkStreams \ {Cs} : channels'[cs] = channels[cs]
         /\ channels'[Cs] = IF Fresh THEN Channel ELSE channels[Cs]
         /\ last_message_timestamp' = IF Fresh THEN Number ELSE last_message_timestamp
         /\ rollover_count' = IF Fresh THEN Count ELSE rollover_count
<1>1. /\ Number \in Numbers /\ Count \in Nat /\ Channel \in ChannelType /\ Cs \in ChunkStreams
  BY NumberTypes
<1>2. /\ channels \in [ChunkStreams -> ChannelType] /\ last_message_timestamp \in Numbers
      /\ rollover_count \in Nat
  BY DEF TypeOK, ChannelType
<1>3. CASE Fresh
  BY <1>1, <1>2, <1>3 DEF Remember
<1>4. CASE ~Fresh
  BY <1>1, <1>2, <1>4 DEF Remember
<1> QED BY <1>3, <1>4

-----------------------------------------------------------------------------
(* The time of the message of the chunk the parser is in.                  *)

(* A number of the circle is a time of the first lap.                      *)
LEMMA FirstLap ==
  ASSUME NEW t \in Nat, t < divisor
  PROVE  serialnumber(t) = t /\ Laps(t) = 0
<1>1. \A d \in Nat : d * 0 + t = t
  OBVIOUS
<1>2. divisor * 0 + t = t
  BY <1>1, DivisorType
<1> QED BY <1>2, UniqueLaps

(* What the parser knows of the time of a message that begins: the field   *)
(* of its header, and what its chunk stream remembers.                     *)
LEMMA FreshHere ==
  ASSUME ClientTyped, ServerTyped, TypeOK, parsing_state = "payload", Timed, Fresh,
         NEW n \in Nat, NEW under \in Unders(n), NEW points \in Points(n),
         NEW at \in Places(n), NEW s \in Point, NEW i \in Indices, NEW m \in Message,
         Standing(n, under, points, at, s, i, m)
  PROVE  /\ m = sent[i] /\ m.time \in Nat /\ Cs = m.cs /\ Cs \in ChunkStreams
         /\ header.format_type = m.fmt /\ TimeRead(m)
         /\ Follows(m, s.last[Cs]) /\ Clocks(s)
         /\ s.last[Cs] # 0 =>
              /\ s.last[Cs] \in Indices /\ sent[s.last[Cs]] \in Message
              /\ Tells(Cs, s.last[Cs]) /\ MayFollow(m, sent[s.last[Cs]])
              /\ addable(m.delta) /\ m.time = sent[s.last[Cs]].time + m.delta
<1>1. ServerAt(s) /\ InChunk(s, i, at[1]) /\ Comes(s, i) /\ m = sent[i]
  BY DEF Standing, Link
<1>2. Cs = m.cs /\ From(s, m) = 0 /\ Cs \in ChunkStreams
  BY InPayload, NumberTypes
<1>3. header.format_type = m.fmt /\ TimeRead(m)
  BY <1>1, <1>2 DEF InChunk, HeaderRead, BasicRead, Format
<1>4. Follows(m, s.last[Cs]) /\ Clocks(s)
  BY <1>1, <1>2 DEF Comes, ServerAt
<1>5. ASSUME s.last[Cs] # 0
      PROVE  /\ s.last[Cs] \in Indices /\ sent[s.last[Cs]] \in Message
             /\ Tells(Cs, s.last[Cs]) /\ MayFollow(m, sent[s.last[Cs]])
             /\ addable(m.delta) /\ m.time = sent[s.last[Cs]].time + m.delta
  <2>1. /\ s.last[Cs] \in Indices /\ MayFollow(m, sent[s.last[Cs]])
        /\ m.time = sent[s.last[Cs]].time + m.delta
    BY <1>4, <1>5 DEF Follows
  <2>2. addable(m.delta)
    BY <1>1 DEF Timed, SmallSteps
  <2>3. sent[s.last[Cs]] \in Message
    BY <2>1 DEF ClientTyped, Indices
  <2>4. Tells(Cs, s.last[Cs])
    BY <1>2, <1>4, <1>5 DEF Clocks
  <2> QED BY <2>1, <2>2, <2>3, <2>4
<1>6. m.time \in Nat
  BY DEF Message
<1> QED BY <1>1, <1>2, <1>3, <1>4, <1>5, <1>6

(* A type 0 chunk gives the message's point of the circle; types 1, 2 and  *)
(* 3 add the message's delta to the last message of the chunk stream.      *)
LEMMA FreshNumber ==
  ASSUME ClientTyped, ServerTyped, TypeOK, parsing_state = "payload", Timed, Fresh,
         NEW n \in Nat, NEW under \in Unders(n), NEW points \in Points(n),
         NEW at \in Places(n), NEW s \in Point, NEW i \in Indices, NEW m \in Message,
         Standing(n, under, points, at, s, i, m)
  PROVE  /\ Number = serialnumber(m.time)
         /\ m.fmt # FULL => StepDelta = m.delta /\ s.last[Cs] # 0
<1>1. /\ m.time \in Nat /\ header.format_type = m.fmt /\ TimeRead(m)
      /\ Follows(m, s.last[Cs])
      /\ s.last[Cs] # 0 =>
           /\ s.last[Cs] \in Indices /\ sent[s.last[Cs]] \in Message
           /\ Tells(Cs, s.last[Cs]) /\ MayFollow(m, sent[s.last[Cs]])
           /\ addable(m.delta) /\ m.time = sent[s.last[Cs]].time + m.delta
  BY FreshHere
<1>2. CASE m.fmt = FULL
  BY <1>1, <1>2 DEF Number, TimeRead, Stamp
<1>3. CASE m.fmt # FULL
  <2> PICK p, q : p = s.last[Cs] /\ q = sent[s.last[Cs]]
    OBVIOUS
  <2>1. p # 0
    BY <1>1, <1>3 DEF Follows
  <2>2. /\ q \in Message /\ Tells(Cs, p) /\ MayFollow(m, q) /\ addable(m.delta)
        /\ m.time = q.time + m.delta
    BY <1>1, <2>1
  <2>3. StepDelta = m.delta
    <3>1. CASE m.fmt = CONTINUATION
      <4>1. q.fmt # FULL /\ m.delta = q.delta
        BY <1>3, <2>2, <3>1 DEF MayFollow, Timed, TimelyClient
      <4>2. channels[Cs].last_msg_timestamp_delta = q.delta
        BY <2>2, <4>1 DEF Tells
      <4> QED BY <1>1, <3>1, <4>1, <4>2 DEF StepDelta
    <3>2. CASE m.fmt # CONTINUATION
      <4>1. m.fmt \in {SAME_STREAM, SAME_LENGTH_AND_STREAM}
        BY <1>3, <3>2 DEF Message, FULL, SAME_STREAM, SAME_LENGTH_AND_STREAM, CONTINUATION
      <4>2. header.timestamp_delta = m.delta
        BY <1>1, <1>3, <4>1 DEF TimeRead, Stamp
      <4> QED BY <1>1, <3>2, <4>2 DEF StepDelta
    <3> QED BY <3>1, <3>2
  <2>4. channels[Cs].last_msg_timestamp = serialnumber(q.time)
    BY <2>2 DEF Tells
  <2>5. Number = add(serialnumber(q.time), m.delta)
    BY <1>1, <1>3, <2>3, <2>4 DEF Number
  <2>6. q.time \in Nat
    BY <2>2 DEF Message
  <2>7. add(serialnumber(q.time), m.delta) = serialnumber(q.time + m.delta)
    BY <2>2, <2>6, AddIsExact
  <2> QED BY <2>1, <2>2, <2>3, <2>5, <2>7
<1> QED BY <1>2, <1>3

(* The client's epoch is a point of the circle.                            *)
LEMMA EpochType == PeerEpoch \in Nat /\ PeerEpoch \in Numbers
<1>1. PeerEpoch \in Numbers
  BY ParameterAssumption
<1> QED BY <1>1, DivisorType DEF Numbers

(* With one chunk stream the count is that of its last message, and a step *)
(* of less than half the circle keeps it so.                               *)
LEMMA CountOfOne ==
  ASSUME ClientTyped, ServerTyped, TypeOK, parsing_state = "payload", Timed, Fresh, OneStream,
         NEW n \in Nat, NEW under \in Unders(n), NEW points \in Points(n),
         NEW at \in Places(n), NEW s \in Point, NEW i \in Indices, NEW m \in Message,
         Standing(n, under, points, at, s, i, m)
  PROVE  Count = Laps(m.time)
<1>1. /\ m = sent[i] /\ m.time \in Nat /\ Cs = m.cs /\ Cs \in ChunkStreams
      /\ header.format_type = m.fmt /\ Follows(m, s.last[Cs]) /\ Clocks(s)
      /\ s.last[Cs] # 0 =>
           /\ s.last[Cs] \in Indices /\ sent[s.last[Cs]] \in Message
           /\ Tells(Cs, s.last[Cs]) /\ MayFollow(m, sent[s.last[Cs]])
           /\ addable(m.delta) /\ m.time = sent[s.last[Cs]].time + m.delta
  BY FreshHere
<1>2. Number = serialnumber(m.time)
  BY FreshNumber
<1> PICK p, q : p = s.last[Cs] /\ q = sent[s.last[Cs]]
  OBVIOUS
<1>3. CASE p # 0
  <2>1. /\ q \in Message /\ Tells(Cs, p) /\ addable(m.delta) /\ m.time = q.time + m.delta
    BY <1>1, <1>3
  <2>2. last_message_timestamp = serialnumber(q.time) /\ rollover_count = Laps(q.time)
    BY <1>1, <1>3 DEF Clocks, CountKept
  <2>3. channels[Cs].last_msg_timestamp = serialnumber(q.time)
    BY <2>1 DEF Tells
  <2>4. q.time \in Nat /\ q.time <= m.time /\ m.time - q.time < HalfDivisor
    <3>1. q.time \in Nat
      BY <2>1 DEF Message
    <3>2. m.delta \in Nat /\ m.delta < HalfDivisor
      BY <2>1, HalfDivisorAssumption DEF addable, max_add_number
    <3> QED BY <2>1, <3>1, <3>2, HalfDivisorAssumption
  <2>5. counted(serialnumber(q.time), serialnumber(m.time), Laps(q.time)) = Laps(m.time)
    BY <1>1, <2>4, ForwardStep
  <2> QED BY <1>2, <2>2, <2>3, <2>5 DEF Count
<1>4. CASE p = 0
  <2>1. m.fmt = FULL /\ m.time \in StartTimes \cup {0}
    BY <1>1, <1>4 DEF Follows
  <2>2. \A cs \in ChunkStreams : s.last[cs] = 0
    <3> SUFFICES ASSUME NEW cs \in ChunkStreams, s.last[cs] # 0 PROVE FALSE
      OBVIOUS
    <3>1. s.last[cs] \in Indices /\ sent[s.last[cs]].cs = cs
      BY DEF Standing, ServerAt
    <3>2. cs = Cs
      BY <1>1, <3>1 DEF OneStream
    <3> QED BY <1>4, <3>2
  <2>3. last_message_timestamp = PeerEpoch /\ rollover_count = 0
    BY <1>1, <2>2 DEF Clocks, CountKept
  <2>4. m.time < divisor
    <3>1. 0 \in Numbers
      BY DivisorType DEF Numbers
    <3>2. m.time \in Numbers
      BY <2>1, <3>1 DEF Timed, TimelyClient
    <3> QED BY <3>2, DivisorType DEF Numbers
  <2>5. serialnumber(m.time) = m.time /\ Laps(m.time) = 0
    BY <1>1, <2>4, FirstLap
  <2>6. Count = counted(PeerEpoch, m.time, 0)
    BY <1>1, <1>2, <2>1, <2>3, <2>5 DEF Count
  <2>7. ~is_rolled_over(PeerEpoch, m.time)
    BY <1>1, EpochType, HalfDivisorAssumption DEF Timed, is_rolled_over, gt
  <2> QED BY <2>5, <2>6, <2>7 DEF counted
<1> QED BY <1>3, <1>4

(* While no message is past half the circle nothing is taken for a         *)
(* rollover, whatever the chunk stream of the message before.              *)
LEMMA CountOfEarly ==
  ASSUME ClientTyped, ServerTyped, TypeOK, parsing_state = "payload", Timed, Fresh, Early,
         NEW n \in Nat, NEW under \in Unders(n), NEW points \in Points(n),
         NEW at \in Places(n), NEW s \in Point, NEW i \in Indices, NEW m \in Message,
         Standing(n, under, points, at, s, i, m)
  PROVE  Number <= HalfDivisor /\ Count = 0 /\ Laps(m.time) = 0
<1>1. /\ m = sent[i] /\ m.time \in Nat /\ Cs = m.cs /\ Cs \in ChunkStreams
      /\ header.format_type = m.fmt /\ Clocks(s)
      /\ s.last[Cs] # 0 =>
           /\ s.last[Cs] \in Indices /\ sent[s.last[Cs]] \in Message
           /\ Tells(Cs, s.last[Cs]) /\ MayFollow(m, sent[s.last[Cs]])
           /\ addable(m.delta) /\ m.time = sent[s.last[Cs]].time + m.delta
  BY FreshHere
<1>2. /\ Number = serialnumber(m.time)
      /\ m.fmt # FULL => StepDelta = m.delta /\ s.last[Cs] # 0
  BY FreshNumber
<1>3. ASSUME NEW x \in Nat, x <= HalfDivisor
      PROVE  serialnumber(x) = x /\ Laps(x) = 0
  <2>1. x < divisor
    BY <1>3, HalfDivisorAssumption DEF divisor
  <2> QED BY <2>1, FirstLap
<1>4. m.time <= HalfDivisor
  BY <1>1 DEF Early
<1>5. serialnumber(m.time) = m.time /\ Laps(m.time) = 0
  BY <1>1, <1>3, <1>4
<1>6. last_message_timestamp \in Nat /\ last_message_timestamp <= HalfDivisor /\ rollover_count = 0
  <2>1. last_message_timestamp \in Nat
    BY DivisorType DEF TypeOK, Numbers
  <2> QED BY <1>1, <2>1 DEF Clocks, CountKept
<1>7. PICK pre \in Nat :
        /\ pre <= HalfDivisor
        /\ pre = IF header.format_type = FULL THEN last_message_timestamp
                 ELSE channels[Cs].last_msg_timestamp
  <2>1. CASE m.fmt = FULL
    BY <1>1, <1>6, <2>1
  <2>2. CASE m.fmt # FULL
    <3> PICK q : q = sent[s.last[Cs]]
      OBVIOUS
    <3>1. /\ q.time \in Nat /\ q.time <= HalfDivisor
          /\ channels[Cs].last_msg_timestamp = serialnumber(q.time)
      BY <1>1, <1>2, <2>2 DEF Tells, Early, Message
    <3>2. channels[Cs].last_msg_timestamp = q.time
      BY <1>3, <3>1
    <3> QED BY <1>1, <2>2, <3>1, <3>2
  <2> QED BY <2>1, <2>2
<1>8. Count = counted(pre, m.time, 0)
  BY <1>2, <1>5, <1>6, <1>7 DEF Count
<1>9. ~is_rolled_over(pre, m.time)
  BY <1>1, <1>7, HalfDivisorAssumption DEF is_rolled_over, gt
<1> QED BY <1>2, <1>4, <1>5, <1>8, <1>9 DEF counted

(* So the entry of the message holds its time.                             *)
LEMMA InfoTime ==
  ASSUME ClientTyped, ServerTyped, TypeOK, parsing_state = "payload", Timed,
         NEW n \in Nat, NEW under \in Unders(n), NEW points \in Points(n),
         NEW at \in Places(n), NEW s \in Point, NEW i \in Indices, NEW m \in Message,
         Standing(n, under, points, at, s, i, m)
  PROVE  Info.abs_timestamp = m.time
<1>1. CASE Fresh
  <2>1. Number = serialnumber(m.time) /\ m.time \in Nat
    BY <1>1, FreshNumber, FreshHere
  <2>2. Count = Laps(m.time)
    <3>1. CASE OneStream
      BY <1>1, <3>1, CountOfOne
    <3>2. CASE Early
      BY <1>1, <3>2, CountOfEarly
    <3> QED BY <3>1, <3>2 DEF Timed
  <2>3. unroll(Number, Count) = m.time
    BY <2>1, <2>2, UnrollLaps
  <2> QED BY <1>1, <2>3 DEF Info
<1>2. CASE ~Fresh
  <2>1. ServerAt(s) /\ Comes(s, i) /\ m = sent[i]
    BY DEF Standing, Link
  <2>2. Cs = m.cs /\ From(s, m) > 0
    <3>1. From(s, m) \in Nat
      BY StandingFacts
    <3> QED BY <1>2, <3>1, InPayload
  <2>3. i = s.last[Cs]
    BY <2>1, <2>2 DEF Comes
  <2>4. incomplete[Cs].abs_timestamp = m.time
    BY <1>2, <2>1, <2>3 DEF ServerAt, Clocks, Fresh
  <2> QED BY <1>2, <2>4 DEF Info
<1> QED BY <1>1, <1>2

(* Nor does a chunk's payload change the time its message has got.         *)
LEMMA ExtendedTime ==
  ASSUME ClientTyped, ServerTyped, TypeOK, parsing_state = "payload", Timed,
         NEW n \in Nat, NEW under \in Unders(n), NEW points \in Points(n),
         NEW at \in Places(n), NEW s \in Point, NEW i \in Indices, NEW m \in Message,
         Standing(n, under, points, at, s, i, m)
  PROVE  Extended.abs_timestamp = m.time
<1>1. Info \in Entry /\ Info.abs_timestamp = m.time
  BY InPayload, InfoTime
<1> PICK bytes : bytes = Info.recv_buf \o SubSeq(buffer, 1, this_msg_size)
  OBVIOUS
<1>2. Extended = [Info EXCEPT !.recv_buf = bytes]
  BY DEF Extended
<1> QED BY <1>1, <1>2 DEF Entry

(* Behind the chunk the clocks tell the times of the next point.           *)
LEMMA ClocksNext ==
  ASSUME ClientTyped, ServerTyped, TypeOK, parsing_state = "payload", Remember, sent' = sent,
         Timed,
         NEW n \in Nat, NEW under \in Unders(n), NEW points \in Points(n),
         NEW at \in Places(n), NEW s \in Point, NEW i \in Indices, NEW m \in Message,
         Standing(n, under, points, at, s, i, m), NEW t, t = After(s, i, m),
         \A cs \in DOMAIN incomplete' :
           IF cs = m.cs THEN incomplete'[cs].abs_timestamp = m.time
           ELSE cs \in DOMAIN incomplete /\ incomplete'[cs] = incomplete[cs]
  PROVE  Clocks(t)'
<1>1. ServerAt(s) /\ Clocks(s) /\ Comes(s, i) /\ m = sent[i] /\ i # 0
  BY DEF Standing, Link, ServerAt, Indices
<1>2. Cs = m.cs /\ Cs \in ChunkStreams /\ (Fresh <=> From(s, m) = 0)
  BY InPayload, NumberTypes
<1>3. /\ \A cs \in ChunkStreams \ {Cs} : channels'[cs] = channels[cs]
      /\ channels'[Cs] = IF Fresh THEN Channel ELSE channels[Cs]
      /\ last_message_timestamp' = IF Fresh THEN Number ELSE last_message_timestamp
      /\ rollover_count' = IF Fresh THEN Count ELSE rollover_count
  BY Remembered
<1>4. /\ t.last[Cs] = i
      /\ \A cs \in ChunkStreams \ {Cs} : t.last[cs] = s.last[cs]
  BY <1>2 DEF After, Point
<1>5. ~Fresh => i = s.last[Cs]
  <2>1. From(s, m) \in Nat
    BY StandingFacts
  <2> QED BY <1>1, <1>2, <2>1 DEF Comes
<1>6. /\ Indices' = Indices /\ (OneStream' <=> OneStream) /\ (Early' <=> Early)
  BY DEF Indices, OneStream, Early
<1> PICK c : c = Cs
  OBVIOUS
<1>7. Tells(c, i)'
  <2>1. CASE Fresh
    <3>1. /\ Number = serialnumber(m.time)
          /\ m.fmt # FULL => StepDelta = m.delta
      BY <2>1, FreshNumber
    <3>2. /\ Channel.last_msg_timestamp = Number
          /\ Channel.last_msg_timestamp_delta = StepDelta
      BY DEF Channel, StepDelta
    <3> QED BY <1>1, <1>3, <2>1, <3>1, <3>2 DEF Tells
  <2>2. CASE ~Fresh
    <3>1. Tells(c, i)
      BY <1>1, <1>2, <1>5, <2>2 DEF Clocks
    <3> QED BY <1>3, <2>2, <3>1 DEF Tells
  <2> QED BY <2>1, <2>2
<1>8. ASSUME NEW cs \in ChunkStreams, t.last[cs] # 0
      PROVE  Tells(cs, t.last[cs])'
  <2>1. CASE cs = c
    BY <1>4, <1>7, <2>1
  <2>2. CASE cs # c
    <3>1. Tells(cs, s.last[cs]) /\ t.last[cs] = s.last[cs] /\ channels'[cs] = channels[cs]
      BY <1>1, <1>3, <1>4, <1>8, <2>2 DEF Clocks
    <3> QED BY <3>1 DEF Tells
  <2> QED BY <2>1, <2>2
<1>9. ASSUME NEW cs \in DOMAIN incomplete'
      PROVE  incomplete'[cs].abs_timestamp = sent'[t.last[cs]].time
  <2>1. CASE cs = c
    BY <1>1, <1>2, <1>4, <2>1
  <2>2. CASE cs # c
    <3>1. cs \in DOMAIN incomplete /\ incomplete'[cs] = incomplete[cs] /\ cs \in ChunkStreams
      BY <1>2, <2>2 DEF TypeOK
    <3> QED BY <1>1, <1>4, <2>2, <3>1 DEF Clocks
  <2> QED BY <2>1, <2>2
<1>10. Early => last_message_timestamp' <= HalfDivisor /\ rollover_count' = 0
  <2>1. CASE Fresh
    BY <1>3, <2>1, CountOfEarly
  <2>2. CASE ~Fresh
    BY <1>1, <1>3, <2>2 DEF Clocks, CountKept
  <2> QED BY <2>1, <2>2
<1>11. ASSUME OneStream, NEW cs \in ChunkStreams, t.last[cs] # 0
       PROVE  /\ last_message_timestamp' = serialnumber(sent[t.last[cs]].time)
              /\ rollover_count' = Laps(sent[t.last[cs]].time)
  <2>1. cs = c
    <3> SUFFICES ASSUME cs # c PROVE FALSE
      OBVIOUS
    <3>1. s.last[cs] \in Indices /\ sent[s.last[cs]].cs = cs
      BY <1>1, <1>4, <1>11 DEF ServerAt
    <3> QED BY <1>1, <1>2, <1>11, <3>1 DEF OneStream
  <2>2. CASE Fresh
    <3>1. Number = serialnumber(m.time) /\ Count = Laps(m.time)
      BY <1>11, <2>2, FreshNumber, CountOfOne
    <3> QED BY <1>1, <1>3, <1>4, <2>1, <2>2, <3>1
  <2>3. CASE ~Fresh
    <3>1. /\ last_message_timestamp = serialnumber(sent[i].time)
          /\ rollover_count = Laps(sent[i].time)
      BY <1>1, <1>2, <1>5, <1>11, <2>3 DEF Clocks, CountKept
    <3> QED BY <1>3, <1>4, <2>1, <2>3, <3>1
  <2> QED BY <2>2, <2>3
<1>12. CountKept(t)'
  <2>1. ~(\A cs \in ChunkStreams : t.last[cs] = 0)
    BY <1>1, <1>2, <1>4
  <2> QED BY <1>6, <1>10, <1>11, <2>1 DEF CountKept
<1> QED BY <1>8, <1>9, <1>12 DEF Clocks

-----------------------------------------------------------------------------
(* What the parser makes of a chunk's payload.                             *)

(* The payload of a chunk that arrived whole is not waited for.            *)
LEMMA NothingAwaited ==
  ASSUME ClientTyped, ServerTyped, TypeOK, parsing_state = "payload", WholeChunks, ~SplitChunks,
         NEW n \in Nat, NEW under \in Unders(n), NEW points \in Points(n),
         NEW at \in Places(n), NEW s \in Point, NEW i \in Indices, NEW m \in Message,
         Standing(n, under, points, at, s, i, m)
  PROVE  Len(buffer) >= this_msg_size
<1> PICK from, to, h, chunk, b : /\ from = From(s, m) /\ to = To(s, m) /\ h = Headers(s, m)
                                 /\ chunk = NextChunk(s, i, m) /\ b = Len(buffer)
  OBVIOUS
<1>1. /\ from \in Nat /\ to \in Nat /\ from <= to /\ from <= m.length /\ h \in 1 .. 3
      /\ at[1] \in Int /\ at[1] = 0 - h /\ this_msg_size = to - from
      /\ \A j \in 1 .. to - from :
           chunk[h + j] = [field |-> "data", bytes |-> 1, msg |-> i, at |-> from + j]
  BY StandingFacts, InPayload
<1>2. buffer \in Seq(Unit) /\ network \in Seq(Unit) /\ b \in Nat /\ Len(network) \in Nat
  BY LenProperties DEF ClientTyped
<1> SUFFICES ASSUME b < to - from PROVE FALSE
  BY <1>1, <1>2
<1>3. Fits(chunk, at[1]) /\ Len(chunk) = h + (to - from)
  <2>1. Link(i, s, points[2], at[1], at[2]) /\ m = sent[i] /\ i \in Nat
    BY DEF Standing, Indices
  <2> QED BY <1>1, <2>1, ChunkFacts DEF Link
<1> PICK a \in Int : a = at[1]
  BY <1>1
<1>4. b + 1 \in 1 .. to - from /\ h + (b + 1) \in 1 .. Len(chunk) /\ a + (h + (b + 1)) = b + 1
  <2>1. h \in Nat /\ to - from \in Nat /\ h >= 1
    BY <1>1
  <2>2. ASSUME NEW x \in Nat, NEW y \in Nat, NEW z \in Nat, y >= 1, x < z
        PROVE  x + 1 \in 1 .. z /\ y + (x + 1) \in 1 .. y + z /\ (0 - y) + (y + (x + 1)) = x + 1
    BY <2>2
  <2> PICK k \in Nat : k = to - from
    BY <2>1
  <2>3. b + 1 \in 1 .. k /\ h + (b + 1) \in 1 .. h + k /\ (0 - h) + (h + (b + 1)) = b + 1
    <3>1. b \in Nat /\ b < k
      BY <1>2
    <3> QED BY <2>1, <2>2, <3>1
  <2>4. Len(chunk) = h + k /\ a = 0 - h
    <3>1. at[1] = 0 - h
      BY <1>1, Zenon
    <3> QED BY <1>3, <3>1
  <2> QED BY <2>3, <2>4
<1>5. b + 1 <= Len(Rest) /\ Rest[b + 1] = chunk[h + (b + 1)]
  <2>1. Fits(chunk, a) /\ b + 1 >= 1
    BY <1>2, <1>3
  <2> QED BY <1>4, <2>1 DEF Fits
<1>6. Rest[b + 1].field = "data"
  <2> PICK j \in 1 .. to - from : j = b + 1
    BY <1>4
  <2>1. chunk[h + j] = [field |-> "data", bytes |-> 1, msg |-> i, at |-> from + j]
    BY <1>1
  <2>2. chunk[h + j].field = "data"
    BY <2>1
  <2> QED BY <1>5, <2>2
<1>7. network # <<>> /\ Rest[b + 1] = network[1]
  <2>1. Len(Rest) = b + Len(network)
    BY <1>2, ConcatProperties DEF Rest
  <2>2. Len(network) >= 1
    BY <1>2, <1>5, <2>1
  <2>3. (b + 1) \in 1 .. b + Len(network) /\ ~(b + 1 <= b) /\ (b + 1) - b = 1
    BY <1>2, <2>2
  <2>4. Rest[b + 1] = network[(b + 1) - b]
    BY <1>2, <2>3, ConcatProperties DEF Rest
  <2> QED BY <1>2, <2>2, <2>3, <2>4
<1> QED BY <1>6, <1>7 DEF WholeChunks

(* WAITING_MORE_PAYLOAD_DATA: only the channel changes, to the chunk's     *)
(* message.                                                                *)
LEMMA AwaitStep ==
  ASSUME ReaderInv, WholeChunks, AwaitPayload
  PROVE  ReaderInv'
<1>1. /\ ClientTyped /\ ServerTyped /\ TypeOK /\ DeliveredInOrder /\ InStep
      /\ pc = "parsing" /\ parsing_state = "payload" /\ buffer # <<>> /\ Remember
  BY DEF ReaderInv, AwaitPayload, AtPayload
<1>a. PICK n \in Nat : \E under \in Unders(n), points \in Points(n), at \in Places(n),
        s \in Point, i \in Indices, m \in Message : Standing(n, under, points, at, s, i, m)
  BY <1>1, Stands
<1>2. PICK under \in Unders(n), points \in Points(n), at \in Places(n),
           s \in Point, i \in Indices, m \in Message : Standing(n, under, points, at, s, i, m)
  BY <1>a
<1>3. /\ n > 0 /\ Path(n, under, points, at) /\ ServerAt(s) /\ InChunk(s, i, at[1])
      /\ s = points[1] /\ i = under[1] /\ m = sent[i]
  BY <1>2 DEF Standing
<1>4. /\ UNCHANGED clientVars /\ pc' = "reading" /\ Return(ack, counting.parse, unacked)
      /\ UNCHANGED <<network, buffer, delivered, parsing_state, headerVars, incomplete,
                     recv_chunk_size>>
  BY DEF AwaitPayload
<1>5. UNCHANGED <<field, header>> /\ Cs' = Cs /\ sent' = sent
  BY <1>4 DEF headerVars, clientVars, Cs
<1>6. /\ ack' \in Counters /\ unacked' \in Nat
      /\ counting' \in [parse : Nat, parse_header : Nat]
      /\ WindowCounts' /\ AckWithinWindow'
  BY <1>4, CountersHere, Returns
<1>7. ClientTyped'
  <2>1. buffer' \in Seq(Unit) /\ network' \in Seq(Unit)
    BY <1>1, <1>4 DEF ClientTyped
  <2> QED BY <1>1, <1>4, <2>1, ClientTypedStays
<1>8. /\ channels' \in [ChunkStreams -> ChannelType]
      /\ last_message_timestamp' \in Numbers /\ rollover_count' \in Nat
      /\ \A cs \in ChunkStreams \ {Cs} : channels'[cs] = channels[cs]
      /\ channels'[Cs] = IF Fresh THEN Channel ELSE channels[Cs]
  BY <1>1, Remembered
<1>9. ServerTyped' /\ TypeOK'
  BY <1>1, <1>4, <1>5, <1>6, <1>8 DEF ServerTyped, TypeOK, Counters, ChannelType
<1>10. DeliveredInOrder'
  BY <1>1, <1>4, SameDelivered
<1>11. InStep'
  <2>1. Path(n, under, points, at)'
    BY <1>3, <1>4, PathStays DEF Rest
  <2>2. under \in Unders(n)'
    BY <1>4, ClientStays DEF Unders
  <2>3. ServerAt(s)'
    <3>1. Len(buffer) < this_msg_size
      BY DEF AwaitPayload
    <3>2. Len(buffer) \in Nat /\ this_msg_size \in Int
      <4>1. this_msg_size = To(s, m) - From(s, m)
        BY <1>1, <1>2, InPayload
      <4>2. To(s, m) \in Nat /\ From(s, m) \in Nat
        BY <1>1, <1>2, StandingFacts
      <4> QED BY <1>1, <4>1, <4>2, LenProperties DEF ClientTyped
    <3>3. SplitChunks \/ Len(buffer) >= this_msg_size
      BY <1>1, <1>2, NothingAwaited
    <3>4. ~Timed'
      BY <3>1, <3>2, <3>3 DEF Timed, TimelyClient
    <3> QED BY <1>3, <1>4, <1>5, <3>4, ServerKept
  <2> PICK a : a = at[1]
    OBVIOUS
  <2>4. InChunk(s, i, a)'
    <3>1. HeaderRead(s, sent[i], 0 - a) /\ Cs = m.cs
      BY <1>3, <1>1, <1>2, InPayload DEF InChunk
    <3>2. HeaderRead(s, sent[i], 0 - a)'
      BY <1>4, <1>5, <3>1 DEF HeaderRead, BasicRead, MessageRead, TimeRead
    <3>3. ASSUME NEW cs \in ChunkStreams
          PROVE  \/ Remembers(cs, s.last[cs])'
                 \/ parsing_state' = "payload" /\ cs = Cs' /\ Remembers(cs, i)'
      <4>1. CASE cs = Cs /\ Fresh
        <5>1. Channel.last_msg_len = m.length /\ Channel.last_msg_type_id = m.kind
          BY <1>1, <1>2, <4>1, InPayload
        <5> QED BY <1>1, <1>3, <1>4, <1>5, <1>8, <4>1, <5>1 DEF Remembers
      <4>2. CASE ~(cs = Cs /\ Fresh)
        <5>1. channels'[cs] = channels[cs]
          BY <1>8, <4>2
        <5>2. \/ Remembers(cs, s.last[cs])
              \/ parsing_state = "payload" /\ cs = Cs /\ Remembers(cs, i)
          BY <1>3 DEF InChunk
        <5> QED BY <1>4, <1>5, <5>1, <5>2 DEF Remembers
      <4> QED BY <4>1, <4>2
    <3> QED BY <3>2, <3>3 DEF InChunk
  <2>5. Position(n, under, points, at)' /\ ServerAt(points[1])'
    BY <1>3, <2>3, <2>4 DEF Position
  <2> QED BY <2>1, <2>2, <2>5, IntoStep
<1> QED BY <1>6, <1>7, <1>9, <1>10, <1>11 DEF ReaderInv

(* A delta of half the circle or more: the connection ends.                *)
LEMMA OverflowStep ==
  ASSUME ReaderInv, Overflows
  PROVE  ReaderInv'
<1>1. /\ ClientTyped /\ ServerTyped /\ TypeOK /\ DeliveredInOrder
      /\ WindowCounts /\ AckWithinWindow
  BY DEF ReaderInv
<1>2. /\ UNCHANGED clientVars /\ pc' = "closed"
      /\ UNCHANGED <<network, buffer, delivered, parsing_state, ack, counting, unacked,
                     headerVars, payloadVars>>
  BY DEF Overflows
<1>3. UNCHANGED <<delivered, incomplete, channels, recv_chunk_size, last_message_timestamp,
                  rollover_count, field, header>>
  BY <1>2 DEF headerVars, payloadVars
<1>4. ClientTyped'
  <2>1. buffer' \in Seq(Unit) /\ network' \in Seq(Unit)
    BY <1>1, <1>2 DEF ClientTyped
  <2> QED BY <1>1, <1>2, <2>1, ClientTypedStays
<1>5. ServerTyped' /\ TypeOK' /\ WindowCounts' /\ AckWithinWindow'
  BY <1>1, <1>2, <1>3 DEF ServerTyped, TypeOK, WindowCounts, AckWithinWindow
<1>6. DeliveredInOrder'
  BY <1>1, <1>2, <1>3, SameDelivered
<1> QED BY <1>2, <1>4, <1>5, <1>6 DEF ReaderInv

(* A payload that does not parse is taken, and the connection ends.        *)
LEMMA MalformedStep ==
  ASSUME ReaderInv, MalformedPayload
  PROVE  ReaderInv'
<1>1. /\ ClientTyped /\ ServerTyped /\ TypeOK /\ DeliveredInOrder /\ InStep
      /\ pc = "parsing" /\ parsing_state = "payload" /\ buffer # <<>> /\ Remember
  BY DEF ReaderInv, MalformedPayload, TakesLast, AtPayload
<1>a. PICK n \in Nat : \E under \in Unders(n), points \in Points(n), at \in Places(n),
        s \in Point, i \in Indices, m \in Message : Standing(n, under, points, at, s, i, m)
  BY <1>1, Stands
<1>2. PICK under \in Unders(n), points \in Points(n), at \in Places(n),
           s \in Point, i \in Indices, m \in Message : Standing(n, under, points, at, s, i, m)
  BY <1>a
<1>3. PICK k : k = this_msg_size
  OBVIOUS
<1>4. k \in 0 .. Len(buffer)
  <2>1. k = To(s, m) - From(s, m)
    BY <1>1, <1>2, <1>3, InPayload
  <2>2. From(s, m) \in Nat /\ To(s, m) \in Nat /\ From(s, m) <= To(s, m)
    BY <1>1, <1>2, StandingFacts
  <2>3. Len(buffer) >= k /\ Len(buffer) \in Nat
    BY <1>1, <1>3, LenProperties DEF MalformedPayload, TakesLast, ClientTyped
  <2> QED BY <2>1, <2>2, <2>3
<1>5. /\ UNCHANGED clientVars /\ pc' = "closed" /\ buffer' = Left(buffer, k)
      /\ Return(ack, counting.parse, unacked + k)
      /\ UNCHANGED <<network, delivered, parsing_state, headerVars, incomplete, recv_chunk_size>>
  BY <1>3 DEF MalformedPayload, TakesLast, Take, Left, Fails
<1>6. UNCHANGED <<field, header>>
  BY <1>5 DEF headerVars
<1>7. /\ ack' \in Counters /\ unacked' \in Nat
      /\ counting' \in [parse : Nat, parse_header : Nat]
      /\ WindowCounts' /\ AckWithinWindow'
  <2>1. unacked + k \in Nat
    BY <1>4, CountersHere
  <2> QED BY <1>5, <2>1, CountersHere, Returns
<1>8. ClientTyped'
  <2>1. network' = network /\ network' \in Seq(Unit)
    BY <1>1, <1>5 DEF ClientTyped
  <2>2. buffer' \in Seq(Unit)
    BY <1>1, <1>4, <1>5, <2>1, RestTaken
  <2> QED BY <1>1, <1>5, <2>1, <2>2, ClientTypedStays
<1>9. /\ channels' \in [ChunkStreams -> ChannelType]
      /\ last_message_timestamp' \in Numbers /\ rollover_count' \in Nat
  BY <1>1, Remembered
<1>10. ServerTyped' /\ TypeOK'
  BY <1>1, <1>5, <1>6, <1>7, <1>9 DEF ServerTyped, TypeOK, Counters, ChannelType
<1>11. DeliveredInOrder'
  BY <1>1, <1>5, SameDelivered
<1> QED BY <1>5, <1>7, <1>8, <1>10, <1>11 DEF ReaderInv

(* The payload a chunk brings is the next of its message.                  *)
LEMMA ChunkTaken ==
  ASSUME ClientTyped, ServerTyped, TypeOK, parsing_state = "payload",
         NEW n \in Nat, NEW under \in Unders(n), NEW points \in Points(n),
         NEW at \in Places(n), NEW s \in Point, NEW i \in Indices, NEW m \in Message,
         Standing(n, under, points, at, s, i, m), Len(buffer) >= this_msg_size
  PROVE  /\ this_msg_size \in 0 .. Len(buffer) /\ at[2] = this_msg_size
         /\ Extended \in Entry /\ Extended.kind = m.kind /\ Extended.msg_length = m.length
         /\ Extended.recv_buf = Payload(i, 0, To(s, m))
         /\ Len(Extended.recv_buf) = To(s, m)
<1> PICK from, to, h, k, chunk : /\ from = From(s, m) /\ to = To(s, m) /\ h = Headers(s, m)
                                 /\ k = this_msg_size /\ chunk = NextChunk(s, i, m)
  OBVIOUS
<1>1. /\ from \in Nat /\ to \in Nat /\ from <= to /\ h \in 1 .. 3 /\ at[1] \in Int
      /\ at[2] = at[1] + (h + (to - from))
      /\ \A j \in 1 .. to - from :
           chunk[h + j] = [field |-> "data", bytes |-> 1, msg |-> i, at |-> from + j]
  BY StandingFacts
<1>2. /\ at[1] = 0 - h /\ k = to - from /\ Info \in Entry
      /\ Info.kind = m.kind /\ Info.msg_length = m.length /\ Info.recv_buf = Payload(i, 0, from)
  BY InPayload
<1>3. buffer \in Seq(Unit) /\ network \in Seq(Unit) /\ Len(buffer) \in Nat
  BY LenProperties DEF ClientTyped
<1>4. k \in 0 .. Len(buffer) /\ at[2] = k /\ i \in Nat
  <2>1. k \in Nat /\ k <= Len(buffer)
    BY <1>1, <1>2
  <2>2. h \in Nat /\ at[2] = (0 - h) + (h + k)
    <3>1. h \in Nat
      <4>1. h \in 1 .. 3
        BY <1>1, Zenon
      <4>2. 1 .. 3 \subseteq Nat
        OBVIOUS
      <4> QED BY <4>1, <4>2, Zenon
    <3>2. at[2] = at[1] + (h + (to - from)) /\ at[1] = 0 - h /\ to - from = k
      BY <1>1, <1>2, Zenon
    <3> QED BY <3>1, <3>2, Zenon
  <2>3. at[2] = k
    <3>1. (0 - h) + (h + k) = k
      BY <2>1, <2>2
    <3> QED BY <2>2, <3>1
  <2>4. i \in Nat
    BY DEF Indices
  <2> QED BY <1>3, <2>1, <2>3, <2>4
<1>5. Fits(chunk, at[1]) /\ Len(chunk) = h + k
  <2>1. Link(i, s, points[2], at[1], at[2]) /\ m = sent[i]
    BY DEF Standing
  <2>2. Len(chunk) = h + (to - from)
    <3>1. from <= m.length
      BY StandingFacts
    <3> QED BY <1>4, <3>1, ChunkFacts
  <2> QED BY <1>2, <2>1, <2>2 DEF Link
<1>6. ASSUME NEW j \in 1 .. k
      PROVE  buffer[j] = [field |-> "data", bytes |-> 1, msg |-> i, at |-> from + j]
  <2>a. k \in Nat /\ h \in Nat /\ k <= Len(buffer) /\ Len(buffer) \in Nat
    <3>1. \A x, y \in Int : x \in 0 .. y => x \in Nat /\ x <= y
      OBVIOUS
    <3>2. \A x \in 1 .. 3 : x \in Nat
      OBVIOUS
    <3>3. h \in 1 .. 3
      BY <1>1
    <3> QED BY <1>3, <1>4, <3>1, <3>2, <3>3
  <2>b. at[1] + (h + j) = j
    <3>1. \A x, y, z \in Int : x = 0 - y => x + (y + z) = z
      OBVIOUS
    <3> QED BY <1>1, <1>2, <2>a, <3>1
  <2>1. h + j \in 1 .. Len(chunk) /\ at[1] + (h + j) = j /\ j >= 1 /\ j \in 1 .. Len(buffer)
    BY <1>5, <2>a, <2>b
  <2>2. Rest[j] = chunk[h + j]
    BY <1>5, <2>1 DEF Fits
  <2>3. Rest[j] = buffer[j]
    <3>1. Len(network) \in Nat
      BY <1>3, LenProperties
    <3>2. j \in 1 .. Len(buffer) + Len(network) /\ j <= Len(buffer)
      BY <1>3, <2>1, <3>1
    <3> QED BY <1>3, <3>2, ConcatProperties DEF Rest
  <2> QED BY <1>1, <1>2, <2>2, <2>3
<1>7. SubSeq(buffer, 1, k) = Payload(i, from, to)
  <2>a. /\ Payload(i, from, to) \in Seq(Unit) /\ Len(Payload(i, from, to)) = to - from
        /\ \A j \in 1 .. to - from :
             Payload(i, from, to)[j] = [field |-> "data", bytes |-> 1, msg |-> i, at |-> from + j]
    <3>1. from \in Nat /\ to \in Nat /\ from <= to /\ i \in Nat
      BY <1>1, <1>4
    <3> QED BY <3>1, PayloadFacts, ZenonT(30)
  <2> PICK x, y : x = SubSeq(buffer, 1, k) /\ y = Payload(i, from, to)
    OBVIOUS
  <2>1. /\ y \in Seq(Unit) /\ Len(y) = to - from
        /\ \A j \in 1 .. to - from :
             y[j] = [field |-> "data", bytes |-> 1, msg |-> i, at |-> from + j]
    BY <2>a
  <2>2. x \in Seq(Unit) /\ Len(x) = k /\ \A j \in 1 .. k : x[j] = buffer[j]
    BY <1>3, <1>4
  <2>3. Len(x) = Len(y) /\ \A j \in 1 .. Len(x) : x[j] = y[j]
    BY <1>2, <1>6, <2>1, <2>2
  <2> QED BY <2>1, <2>2, <2>3, SeqEqual
<1>8. Extended = [Info EXCEPT !.recv_buf = Payload(i, 0, to)]
  <2>1. Payload(i, 0, from) \o Payload(i, from, to) = Payload(i, 0, to)
    BY <1>1, <1>4, PayloadJoin
  <2>2. Info.recv_buf \o SubSeq(buffer, 1, this_msg_size) = Payload(i, 0, to)
    BY <1>2, <1>7, <2>1
  <2>3. Extended = [Info EXCEPT !.recv_buf = Info.recv_buf \o SubSeq(buffer, 1, this_msg_size)]
    BY DEF Extended
  <2> QED BY <2>2, <2>3
<1>9. Payload(i, 0, to) \in Seq(Unit) /\ Len(Payload(i, 0, to)) = to
  BY <1>1, <1>4, PayloadFrom
<1>10. /\ Extended \in Entry /\ Extended.kind = m.kind /\ Extended.msg_length = m.length
       /\ Extended.recv_buf = Payload(i, 0, to)
  BY <1>2, <1>8, <1>9 DEF Entry
<1> QED BY <1>4, <1>9, <1>10

(* Behind the last unit of a chunk the parser stands at the next point.    *)
LEMMA InStepNext ==
  ASSUME ClientTyped, NEW c \in 0 .. Len(buffer), buffer' = Left(buffer, c), network' = network,
         UNCHANGED clientVars,
         NEW n \in Nat, n > 0, NEW under \in Unders(n), NEW points \in Points(n),
         NEW at \in Places(n), Path(n, under, points, at), at[2] = c,
         NEW t, t = points[2], ServerAt(t)', BetweenChunks(t, 0)'
  PROVE  InStep'
<1> PICK p \in Nat : p = n - 1
  OBVIOUS
<1>1. /\ Later(under, n - 1) \in Unders(n - 1) /\ Later(points, n) \in Points(n - 1)
      /\ Later(at, n) \in Places(n - 1)
      /\ Path(n - 1, Later(under, n - 1), Later(points, n), Later(at, n))
      /\ Later(points, n)[1] = points[2] /\ Later(at, n)[1] = at[2]
  BY PathNext
<1> PICK under2 \in Unders(p), points2 \in Points(p), at2 \in Places(p) :
       Path(p, under2, points2, at2) /\ points2[1] = t /\ at2[1] = c
  BY <1>1
<1> DEFINE near == [k \in 1 .. p + 1 |-> at2[k] - c]
<1>2. Path(p, under2, points2, near)'
  BY PathTaken
<1>3. near \in Places(p) /\ near[1] = 0
  BY DEF Places
<1>4. under2 \in Unders(p)'
  BY ClientStays DEF Unders
<1> HIDE DEF near
<1>5. Position(p, under2, points2, near)' /\ ServerAt(points2[1])'
  BY <1>3 DEF Position
<1> QED BY <1>2, <1>3, <1>4, <1>5, IntoStep

(* With the payload taken, the channels remember the messages of the next  *)
(* point.                                                                  *)
LEMMA ChannelsNext ==
  ASSUME ClientTyped, ServerTyped, TypeOK, parsing_state = "payload", Remember, sent' = sent,
         NEW n \in Nat, NEW under \in Unders(n), NEW points \in Points(n),
         NEW at \in Places(n), NEW s \in Point, NEW i \in Indices, NEW m \in Message,
         Standing(n, under, points, at, s, i, m), NEW t, t = After(s, i, m)
  PROVE  \A cs \in ChunkStreams : Remembers(cs, t.last[cs])'
<1>1. InChunk(s, i, at[1]) /\ m = sent[i] /\ Comes(s, i)
  BY DEF Standing, Link
<1>2. /\ Cs = m.cs
      /\ Fresh <=> From(s, m) = 0
      /\ Fresh => Channel.last_msg_len = m.length /\ Channel.last_msg_type_id = m.kind
  BY InPayload
<1>3. /\ \A cs \in ChunkStreams \ {Cs} : channels'[cs] = channels[cs]
      /\ channels'[Cs] = IF Fresh THEN Channel ELSE channels[Cs]
  BY Remembered
<1>4. t.last = [s.last EXCEPT ![m.cs] = i] /\ s.last \in [ChunkStreams -> Nat]
  BY DEF After, Point
<1> SUFFICES ASSUME NEW cs \in ChunkStreams
             PROVE  Remembers(cs, t.last[cs])'
  OBVIOUS
<1>5. CASE cs # Cs
  <2>1. t.last[cs] = s.last[cs]
    BY <1>2, <1>4, <1>5
  <2>2. Remembers(cs, s.last[cs])
    BY <1>1, <1>5 DEF InChunk
  <2> QED BY <1>3, <1>5, <2>1, <2>2 DEF Remembers
<1>6. CASE cs = Cs
  <2>1. t.last[cs] = i
    BY <1>2, <1>4, <1>6
  <2>2. CASE Fresh
    BY <1>1, <1>2, <1>3, <1>6, <2>1, <2>2 DEF Remembers
  <2>3. CASE ~Fresh
    <3>1. From(s, m) > 0
      <4>1. From(s, m) \in Nat
        BY StandingFacts
      <4> QED BY <1>2, <2>3, <4>1
    <3>2. i = s.last[Cs]
      BY <1>1, <1>2, <3>1 DEF Comes
    <3>3. Remembers(Cs, i)
      BY <1>1, <1>6, <3>2 DEF InChunk
    <3> QED BY <1>3, <1>6, <2>1, <2>3, <3>3 DEF Remembers
  <2> QED BY <2>2, <2>3
<1> QED BY <1>5, <1>6

(* With the payload taken, the parser stands at the next point.            *)
LEMMA ServerNext ==
  ASSUME ClientTyped, TypeOK, NEW c \in ChunkStreams,
         NEW n \in Nat, NEW under \in Unders(n), NEW points \in Points(n),
         NEW at \in Places(n), NEW s \in Point, NEW i \in Indices, NEW m \in Message,
         Standing(n, under, points, at, s, i, m), c = m.cs,
         NEW t, t = After(s, i, m), sent' = sent,
         recv_chunk_size' = t.size, Len(delivered') = t.done,
         DOMAIN incomplete' = IF IsWhole(s, m) THEN DOMAIN incomplete \ {c}
                              ELSE DOMAIN incomplete \cup {c},
         \A cs \in DOMAIN incomplete \ {c} : incomplete'[cs] = incomplete[cs],
         ~IsWhole(s, m) => /\ Carries(incomplete'[c], i, To(s, m))
                           /\ Len(incomplete'[c].recv_buf) = To(s, m)
                           /\ To(s, m) \in 1 .. m.length - 1,
         Timed => Clocks(t)'
  PROVE  ServerAt(t)'
<1>1. ServerAt(s) /\ m = sent[i] /\ i \in Nat /\ i # 0
  BY DEF Standing, Indices
<1>2. /\ t.progress = [s.progress EXCEPT ![m.cs] = IF IsWhole(s, m) THEN 0 ELSE To(s, m)]
      /\ t.last = [s.last EXCEPT ![m.cs] = i]
      /\ s.last \in [ChunkStreams -> Nat] /\ s.progress \in [ChunkStreams -> Nat]
  BY DEF After, Point
<1>3. /\ s.progress = [cs \in ChunkStreams |-> Received(cs)]
      /\ DOMAIN incomplete \subseteq ChunkStreams
  BY <1>1 DEF ServerAt, TypeOK
<1>4. \A cs \in ChunkStreams \ {c} :
        t.last[cs] = s.last[cs] /\ Received(cs)' = Received(cs)
        /\ (cs \in DOMAIN incomplete' <=> cs \in DOMAIN incomplete)
  BY <1>2 DEF Received
<1>5. t.last[c] = i /\ Received(c)' = IF IsWhole(s, m) THEN 0 ELSE To(s, m)
  BY <1>2 DEF Received
<1>6. t.progress = [cs \in ChunkStreams |-> Received(cs)']
  BY <1>2, <1>3, <1>4, <1>5
<1>7. ASSUME NEW cs \in ChunkStreams, t.last[cs] # 0
      PROVE  t.last[cs] \in Indices' /\ sent'[t.last[cs]].cs = cs
  <2>1. CASE cs = c
    BY <1>1, <1>5, <2>1 DEF Indices
  <2>2. CASE cs # c
    BY <1>1, <1>4, <1>7, <2>2 DEF ServerAt, Indices
  <2> QED BY <2>1, <2>2
<1>8. ASSUME NEW cs \in DOMAIN incomplete'
      PROVE  /\ t.last[cs] # 0
             /\ Received(cs)' \in 1 .. sent'[t.last[cs]].length - 1
             /\ Carries(incomplete[cs], t.last[cs], Received(cs))'
  <2>1. CASE cs = c
    <3>1. ~IsWhole(s, m)
      BY <1>8, <2>1
    <3> QED BY <1>1, <1>5, <2>1, <3>1 DEF Carries
  <2>2. CASE cs # c
    <3>1. cs \in DOMAIN incomplete /\ cs \in ChunkStreams
      BY <1>3, <1>8, <2>2
    <3>2. /\ s.last[cs] # 0
          /\ Received(cs) \in 1 .. sent[s.last[cs]].length - 1
          /\ Carries(incomplete[cs], s.last[cs], Received(cs))
      BY <1>1, <3>1 DEF ServerAt
    <3>3. incomplete'[cs] = incomplete[cs] /\ t.last[cs] = s.last[cs] /\ Received(cs)' = Received(cs)
      BY <1>4, <2>2, <3>1
    <3> QED BY <3>2, <3>3 DEF Carries
  <2> QED BY <2>1, <2>2
<1>9. Timed' => Clocks(t)'
  BY DEF Timed, SmallSteps, OneStream, Early, Indices
<1> QED BY <1>6, <1>7, <1>8, <1>9 DEF ServerAt

(* What the parser keeps of a chunk stream is a part of one message.       *)
LEMMA PartsNext ==
  ASSUME PartOfOneMessage, sent' = sent, NEW c, NEW i \in DOMAIN sent,
         sent[i].cs = c,
         \A cs \in DOMAIN incomplete' \ {c} :
           cs \in DOMAIN incomplete /\ incomplete'[cs] = incomplete[cs],
         c \in DOMAIN incomplete' =>
           /\ Len(incomplete'[c].recv_buf) \in 1 .. sent[i].length - 1
           /\ Carries(incomplete'[c], i, Len(incomplete'[c].recv_buf))
  PROVE  PartOfOneMessage'
<1>1. ASSUME NEW cs \in DOMAIN incomplete'
      PROVE  \E j \in DOMAIN sent' :
               /\ sent'[j].cs = cs
               /\ Len(incomplete'[cs].recv_buf) \in 1 .. sent'[j].length - 1
               /\ Carries(incomplete[cs], j, Len(incomplete[cs].recv_buf))'
  <2>1. CASE cs = c
    <3>1. Carries(incomplete[cs], i, Len(incomplete[cs].recv_buf))'
      BY <1>1, <2>1 DEF Carries
    <3> QED BY <1>1, <2>1, <3>1
  <2>2. CASE cs # c
    <3>1. cs \in DOMAIN incomplete /\ incomplete'[cs] = incomplete[cs]
      BY <1>1, <2>2
    <3>2. PICK j \in DOMAIN sent :
            /\ sent[j].cs = cs
            /\ Len(incomplete[cs].recv_buf) \in 1 .. sent[j].length - 1
            /\ Carries(incomplete[cs], j, Len(incomplete[cs].recv_buf))
      BY <3>1 DEF PartOfOneMessage
    <3>3. Carries(incomplete[cs], j, Len(incomplete[cs].recv_buf))'
      BY <3>1, <3>2 DEF Carries
    <3> QED BY <3>1, <3>2, <3>3
  <2> QED BY <2>1, <2>2
<1> QED BY <1>1 DEF PartOfOneMessage

(* WAITING_NEXT_CHUNK: the parser stands behind the chunk, its message     *)
(* longer.                                                                 *)
LEMMA TakePartStep ==
  ASSUME ReaderInv, TakePart
  PROVE  ReaderInv'
<1>1. /\ ClientTyped /\ ServerTyped /\ TypeOK /\ DeliveredInOrder /\ InStep
      /\ WindowCounts /\ AckWithinWindow
      /\ pc = "parsing" /\ parsing_state = "payload" /\ buffer # <<>> /\ Remember
      /\ Len(buffer) >= this_msg_size /\ this_msg_size < need_size
  BY DEF ReaderInv, TakePart, AtPayload
<1>a. PICK n \in Nat : \E under \in Unders(n), points \in Points(n), at \in Places(n),
        s \in Point, i \in Indices, m \in Message : Standing(n, under, points, at, s, i, m)
  BY <1>1, Stands
<1>2. PICK under \in Unders(n), points \in Points(n), at \in Places(n),
           s \in Point, i \in Indices, m \in Message : Standing(n, under, points, at, s, i, m)
  BY <1>a
<1> PICK k, c, e, t : k = this_msg_size /\ c = Cs /\ e = Extended /\ t = After(s, i, m)
  OBVIOUS
<1>3. /\ n > 0 /\ Path(n, under, points, at) /\ m = sent[i] /\ t = points[2] /\ ServerAt(s)
  BY <1>2 DEF Standing, Link
<1>4. /\ k \in 0 .. Len(buffer) /\ at[2] = k /\ e \in Entry /\ e.kind = m.kind
      /\ e.msg_length = m.length /\ e.recv_buf = Payload(i, 0, To(s, m))
      /\ Len(e.recv_buf) = To(s, m)
  BY <1>1, <1>2, ChunkTaken
<1>5. /\ ~IsWhole(s, m) /\ To(s, m) \in 1 .. m.length - 1
  <2>1. /\ From(s, m) \in Nat /\ From(s, m) <= m.length /\ m.length \in Nat
        /\ To(s, m) \in Nat /\ From(s, m) <= To(s, m) /\ To(s, m) <= m.length
    BY <1>1, <1>2, StandingFacts
  <2>2. To(s, m) - From(s, m) < m.length - From(s, m)
    <3>1. need_size = m.length - From(s, m) /\ this_msg_size = To(s, m) - From(s, m)
      BY <1>1, <1>2, InPayload
    <3> QED BY <1>1, <3>1
  <2>3. From(s, m) < To(s, m)
    BY <2>1, <2>2, ToFacts
  <2> QED BY <2>1, <2>2, <2>3 DEF IsWhole
<1>6. c = m.cs /\ c \in ChunkStreams
  BY <1>1, <1>2, InPayload, NumberTypes
<1>7. /\ UNCHANGED clientVars /\ buffer' = Left(buffer, k)
      /\ incomplete' = [cs \in DOMAIN incomplete \cup {c} |-> IF cs = c THEN e ELSE incomplete[cs]]
      /\ unacked' = unacked + k /\ counting' = [counting EXCEPT !.parse = @ + k]
      /\ parsing_state' = "header"
      /\ UNCHANGED <<network, pc, delivered, ack, headerVars, recv_chunk_size>>
  BY DEF TakePart, Take, Left
<1>8. UNCHANGED <<field, header, sent, completed>>
  BY <1>7 DEF headerVars, clientVars
<1>9. ClientTyped'
  <2>1. network' = network /\ network' \in Seq(Unit)
    BY <1>1, <1>7 DEF ClientTyped
  <2>2. buffer' \in Seq(Unit)
    BY <1>1, <1>4, <1>7, <2>1, RestTaken
  <2> QED BY <1>1, <1>7, <2>1, <2>2, ClientTypedStays
<1>10. /\ channels' \in [ChunkStreams -> ChannelType]
       /\ last_message_timestamp' \in Numbers /\ rollover_count' \in Nat
  BY <1>1, Remembered
<1>11. ServerTyped' /\ DOMAIN incomplete' \subseteq ChunkStreams
  <2>1. incomplete \in [DOMAIN incomplete -> Entry] /\ DOMAIN incomplete \subseteq ChunkStreams
    BY <1>1 DEF ServerTyped, TypeOK
  <2>2. incomplete' \in [DOMAIN incomplete' -> Entry]
    BY <1>4, <1>7, <2>1
  <2> QED BY <1>1, <1>6, <1>7, <2>1, <2>2 DEF ServerTyped
<1>12. WindowCounts' /\ AckWithinWindow'
  BY <1>1, <1>7 DEF WindowCounts, AckWithinWindow
<1>13. TypeOK'
  <2>1. unacked' \in Nat /\ counting' \in [parse : Nat, parse_header : Nat]
    <3>1. unacked \in Nat /\ counting \in [parse : Nat, parse_header : Nat]
      BY <1>1 DEF TypeOK
    <3>2. k \in Nat
      <4>1. Len(buffer) \in Nat
        BY <1>1, LenProperties DEF ClientTyped
      <4> QED BY <1>4, <4>1
    <3> QED BY <1>7, <3>1, <3>2
  <2>2. /\ pc' = pc /\ ack' = ack /\ field' = field /\ header' = header
        /\ recv_chunk_size' = recv_chunk_size /\ parsing_state' = "header"
    BY <1>7, <1>8
  <2> QED BY <1>1, <1>10, <1>11, <2>1, <2>2 DEF TypeOK, ChannelType
<1>14. incomplete'[c] = e /\ Carries(e, i, To(s, m))
  BY <1>3, <1>4, <1>7 DEF Carries
<1>15. DeliveredInOrder'
  <2>1. CompletedAndIntact /\ PartOfOneMessage
    BY <1>1 DEF DeliveredInOrder
  <2>2. CompletedAndIntact'
    BY <1>7, <1>8, <2>1 DEF CompletedAndIntact, Carries
  <2>3. i \in DOMAIN sent
    BY <1>1, LenProperties DEF ClientTyped, Indices
  <2>4. \A cs \in DOMAIN incomplete' \ {c} :
          cs \in DOMAIN incomplete /\ incomplete'[cs] = incomplete[cs]
    BY <1>7
  <2>5. /\ Len(incomplete'[c].recv_buf) \in 1 .. sent[i].length - 1
        /\ Carries(incomplete'[c], i, Len(incomplete'[c].recv_buf))
    BY <1>3, <1>4, <1>5, <1>14
  <2>6. PartOfOneMessage'
    BY <1>3, <1>6, <1>8, <2>1, <2>3, <2>4, <2>5, PartsNext
  <2> QED BY <2>2, <2>6 DEF DeliveredInOrder
<1>16. ServerAt(t)'
  <2>1. t.size = recv_chunk_size' /\ t.done = Len(delivered')
    BY <1>3, <1>5, <1>7 DEF After, ServerAt
  <2>2. DOMAIN incomplete' = DOMAIN incomplete \cup {c}
    BY <1>7
  <2>3. \A cs \in DOMAIN incomplete \ {c} : incomplete'[cs] = incomplete[cs]
    BY <1>7
  <2>4. Carries(incomplete'[c], i, To(s, m)) /\ Len(incomplete'[c].recv_buf) = To(s, m)
    BY <1>4, <1>14
  <2>5. ASSUME Timed
        PROVE  Clocks(t)'
    <3>1. e.abs_timestamp = m.time
      BY <1>1, <1>2, <2>5, ExtendedTime
    <3>2. \A cs \in DOMAIN incomplete' :
            IF cs = m.cs THEN incomplete'[cs].abs_timestamp = m.time
            ELSE cs \in DOMAIN incomplete /\ incomplete'[cs] = incomplete[cs]
      BY <1>6, <1>7, <3>1
    <3> QED BY <1>1, <1>2, <1>8, <2>5, <3>2, ClocksNext
  <2> QED BY <1>1, <1>2, <1>5, <1>6, <1>8, <2>1, <2>2, <2>3, <2>4, <2>5, ServerNext
<1>17. BetweenChunks(t, 0)'
  <2>1. \A cs \in ChunkStreams : Remembers(cs, t.last[cs])'
    BY <1>1, <1>2, <1>8, ChannelsNext
  <2>2. field' = "basic" /\ parsing_state' = "header"
    BY <1>1, <1>2, <1>7, <1>8, InPayload
  <2> QED BY <2>1, <2>2 DEF BetweenChunks
<1>18. InStep'
  <2>1. network' = network
    BY <1>7
  <2> QED BY <1>1, <1>3, <1>4, <1>7, <1>16, <1>17, <2>1, InStepNext
<1> QED BY <1>9, <1>11, <1>12, <1>13, <1>15, <1>18 DEF ReaderInv

(* The message a chunk completes, and the value it carries.                *)
LEMMA CompletedHere ==
  ASSUME ClientTyped, ServerTyped, TypeOK, parsing_state = "payload",
         NEW n \in Nat, NEW under \in Unders(n), NEW points \in Points(n),
         NEW at \in Places(n), NEW s \in Point, NEW i \in Indices, NEW m \in Message,
         Standing(n, under, points, at, s, i, m), Len(buffer) >= this_msg_size,
         this_msg_size = need_size
  PROVE  /\ IsWhole(s, m) /\ To(s, m) = m.length
         /\ Len(delivered) + 1 \in DOMAIN completed /\ completed[Len(delivered) + 1] = i
         /\ m.kind \in Sized =>
              /\ Value(Extended) = m.value /\ m.value \in Nat \ {0} /\ this_msg_size > 0
<1>1. ServerAt(s) /\ Comes(s, i) /\ m = sent[i]
  BY DEF Standing, Link
<1>2. /\ From(s, m) \in Nat /\ From(s, m) <= m.length /\ m.length \in Nat /\ To(s, m) \in Nat
      /\ From(s, m) < m.length => From(s, m) < To(s, m)
  BY StandingFacts, ToFacts
<1>3. need_size = m.length - From(s, m) /\ this_msg_size = To(s, m) - From(s, m)
  BY InPayload
<1>4. To(s, m) = m.length /\ IsWhole(s, m)
  BY <1>2, <1>3 DEF IsWhole
<1>5. Len(delivered) + 1 \in DOMAIN completed /\ completed[Len(delivered) + 1] = i
  BY <1>1, <1>4 DEF Comes, ServerAt
<1>6. ASSUME m.kind \in Sized
      PROVE  Value(Extended) = m.value /\ m.value \in Nat \ {0} /\ this_msg_size > 0
  <2>1. m.value > 0 /\ m.length > 0 /\ m.value \in Nat
    BY <1>1, <1>6 DEF ClientTyped, Message
  <2>2. Extended.recv_buf = Payload(i, 0, m.length)
    BY <1>4, ChunkTaken
  <2>3. Head(Extended.recv_buf).msg = i
    <3>1. i \in Nat /\ m.length \in Nat /\ m.length > 0
      BY <1>2, <2>1 DEF Indices
    <3>2. Head(Payload(i, 0, m.length)).msg = i
      BY <3>1, PayloadFrom
    <3> QED BY <2>2, <3>2
  <2>4. Value(Extended) = m.value
    BY <1>1, <2>3 DEF Value
  <2>5. this_msg_size > 0
    <3>1. From(s, m) < m.length
      <4>1. CASE From(s, m) > 0
        BY <1>1, <4>1 DEF Comes
      <4>2. CASE ~(From(s, m) > 0)
        BY <1>2, <2>1, <4>2
      <4> QED BY <4>1, <4>2
    <3> QED BY <1>2, <1>3, <3>1
  <2> QED BY <2>1, <2>4, <2>5
<1> QED BY <1>4, <1>5, <1>6

(* A message is delivered: it is the next the client completed.            *)
LEMMA IntactNext ==
  ASSUME ClientTyped, ServerTyped, CompletedAndIntact, UNCHANGED <<sent, completed>>,
         NEW e \in Entry, NEW i, delivered' = Append(delivered, e),
         Len(delivered) + 1 \in DOMAIN completed, completed[Len(delivered) + 1] = i,
         Carries(e, i, sent[i].length)
  PROVE  CompletedAndIntact'
<1>1. delivered \in Seq(Entry) /\ completed \in Seq(Indices)
  BY DEF ClientTyped, ServerTyped
<1>2. /\ Len(delivered) \in Nat /\ Len(completed) \in Nat
      /\ DOMAIN completed = 1 .. Len(completed) /\ DOMAIN delivered = 1 .. Len(delivered)
  BY <1>1, LenProperties
<1>3. /\ delivered' \in Seq(Entry) /\ Len(delivered') = Len(delivered) + 1
      /\ \A j \in 1 .. Len(delivered) : delivered'[j] = delivered[j]
      /\ delivered'[Len(delivered) + 1] = e
  BY <1>1, AppendProperties
<1>4. Len(delivered') <= Len(completed') /\ DOMAIN delivered' = 1 .. Len(delivered) + 1
  BY <1>2, <1>3, LenProperties
<1>5. ASSUME NEW j \in DOMAIN delivered'
      PROVE  Carries(delivered[j], completed[j], sent[completed[j]].length)'
  <2>1. CASE j \in 1 .. Len(delivered)
    <3>1. Carries(delivered[j], completed[j], sent[completed[j]].length)
      BY <1>2, <2>1 DEF CompletedAndIntact
    <3> QED BY <1>3, <2>1, <3>1 DEF Carries
  <2>2. CASE j = Len(delivered) + 1
    <3>1. delivered'[j] = e /\ completed'[j] = i
      BY <1>3, <2>2
    <3> QED BY <3>1 DEF Carries
  <2> QED BY <1>2, <1>4, <1>5, <2>1, <2>2
<1> QED BY <1>4, <1>5 DEF CompletedAndIntact

(* A new window counts from the last Acknowledgement.                      *)
LEMMA WindowChanges ==
  ASSUME NEW a \in Counters, NEW size \in Nat \ {0}, a.next_ack_send_size >= a.win_ack_size,
         a.next_ack_send_size <= a.readed_bytes_count + a.win_ack_size,
         NEW b, b = set_win_ack_size(a, size)
  PROVE  /\ b \in Counters /\ b.win_ack_size > 0
         /\ b.next_ack_send_size >= b.win_ack_size
         /\ b.next_ack_send_size <= b.readed_bytes_count + b.win_ack_size
<1> PICK next : next = (a.next_ack_send_size - a.win_ack_size) + size
  OBVIOUS
<1>1. /\ a.readed_bytes_count \in Nat /\ a.win_ack_size \in Nat /\ a.next_ack_send_size \in Nat
  BY DEF Counters
<1>2. next \in Nat /\ next >= size /\ next <= a.readed_bytes_count + size
  BY <1>1
<1>3. b = [a EXCEPT !.win_ack_size = size, !.next_ack_send_size = next]
  BY DEF set_win_ack_size
<1>4. /\ b \in Counters /\ b.win_ack_size = size /\ b.next_ack_send_size = next
      /\ b.readed_bytes_count = a.readed_bytes_count
  BY <1>2, <1>3 DEF Counters
<1> QED BY <1>2, <1>4

(* COMPLETE: the message is delivered, and the parser stands behind its    *)
(* chunk.                                                                  *)
LEMMA CompleteStep ==
  ASSUME ReaderInv, CompleteMessage
  PROVE  ReaderInv'
<1>1. /\ ClientTyped /\ ServerTyped /\ TypeOK /\ DeliveredInOrder /\ InStep
      /\ pc = "parsing" /\ parsing_state = "payload" /\ buffer # <<>> /\ Remember
      /\ Len(buffer) >= this_msg_size /\ this_msg_size = need_size
  BY DEF ReaderInv, CompleteMessage, TakesLast, AtPayload
<1>a. PICK n \in Nat : \E under \in Unders(n), points \in Points(n), at \in Places(n),
        s \in Point, i \in Indices, m \in Message : Standing(n, under, points, at, s, i, m)
  BY <1>1, Stands
<1>2. PICK under \in Unders(n), points \in Points(n), at \in Places(n),
           s \in Point, i \in Indices, m \in Message : Standing(n, under, points, at, s, i, m)
  BY <1>a
<1> PICK k, c, e, t, a : /\ k = this_msg_size /\ c = Cs /\ e = Extended /\ t = After(s, i, m)
                         /\ a = IF Extended.kind = "WindowAcknowledgementSize"
                                THEN set_win_ack_size(ack, Value(Extended)) ELSE ack
  OBVIOUS
<1>3. /\ n > 0 /\ Path(n, under, points, at) /\ m = sent[i] /\ t = points[2] /\ ServerAt(s)
  BY <1>2 DEF Standing, Link
<1>4. /\ k \in 0 .. Len(buffer) /\ at[2] = k /\ e \in Entry /\ e.kind = m.kind
      /\ e.msg_length = m.length /\ e.recv_buf = Payload(i, 0, To(s, m))
      /\ Len(e.recv_buf) = To(s, m)
  BY <1>1, <1>2, ChunkTaken
<1>5. /\ IsWhole(s, m) /\ To(s, m) = m.length
      /\ Len(delivered) + 1 \in DOMAIN completed /\ completed[Len(delivered) + 1] = i
      /\ m.kind \in Sized =>
           /\ Value(Extended) = m.value /\ m.value \in Nat \ {0} /\ this_msg_size > 0
  BY <1>1, <1>2, CompletedHere
<1>6. c = m.cs /\ c \in ChunkStreams
  BY <1>1, <1>2, InPayload, NumberTypes
<1>7. /\ UNCHANGED clientVars /\ buffer' = Left(buffer, k)
      /\ incomplete' = [cs \in DOMAIN incomplete \ {c} |-> incomplete[cs]]
      /\ delivered' = Append(delivered, e)
      /\ recv_chunk_size' = IF e.kind = "SetChunkSize" THEN Value(Extended) ELSE recv_chunk_size
      /\ Return(a, counting.parse + k, unacked + k)
      /\ parsing_state' = "header" /\ pc' = ReadOrParse(buffer')
      /\ UNCHANGED <<network, headerVars>>
  BY DEF CompleteMessage, TakesLast, Take, Left, Restrict
<1>8. UNCHANGED <<field, header, sent, completed>> /\ network' = network
  BY <1>7 DEF headerVars, clientVars
<1>9. ClientTyped'
  <2>1. network' = network /\ network' \in Seq(Unit)
    BY <1>1, <1>8 DEF ClientTyped
  <2>2. buffer' \in Seq(Unit)
    BY <1>1, <1>4, <1>7, <2>1, RestTaken
  <2> QED BY <1>1, <1>7, <2>1, <2>2, ClientTypedStays
<1>10. /\ channels' \in [ChunkStreams -> ChannelType]
       /\ last_message_timestamp' \in Numbers /\ rollover_count' \in Nat
  BY <1>1, Remembered
<1>11. ServerTyped' /\ DOMAIN incomplete' \subseteq ChunkStreams /\ Len(delivered') = Len(delivered) + 1
  <2>1. /\ incomplete \in [DOMAIN incomplete -> Entry] /\ DOMAIN incomplete \subseteq ChunkStreams
        /\ delivered \in Seq(Entry)
    BY <1>1 DEF ServerTyped, TypeOK
  <2>2. incomplete' \in [DOMAIN incomplete' -> Entry]
    BY <1>7, <2>1
  <2>3. delivered' \in Seq(Entry) /\ Len(delivered') = Len(delivered) + 1
    BY <1>4, <1>7, <2>1, AppendProperties
  <2> QED BY <1>7, <2>1, <2>2, <2>3 DEF ServerTyped
<1>b. k \in Nat
  <2>1. Len(buffer) \in Nat
    BY <1>1, LenProperties DEF ClientTyped
  <2> QED BY <1>4, <2>1
<1>12. /\ ack' \in Counters /\ unacked' \in Nat
       /\ counting' \in [parse : Nat, parse_header : Nat]
       /\ WindowCounts' /\ AckWithinWindow'
  <2>1. counting.parse + k \in Nat /\ unacked + k \in Nat
    BY <1>b, CountersHere
  <2>2. CASE e.kind = "WindowAcknowledgementSize"
    <3>1. a = set_win_ack_size(ack, m.value) /\ m.value \in Nat \ {0} /\ k > 0
      BY <1>4, <1>5, <2>2 DEF Sized
    <3>2. /\ a \in Counters /\ a.win_ack_size > 0
          /\ a.next_ack_send_size >= a.win_ack_size
          /\ a.next_ack_send_size <= a.readed_bytes_count + a.win_ack_size
      BY <3>1, CountersHere, WindowChanges
    <3>3. counting.parse + k > 0
      BY <1>b, <3>1, CountersHere
    <3> QED BY <1>7, <2>1, <3>2, <3>3, Returns
  <2>3. CASE e.kind # "WindowAcknowledgementSize"
    <3>1. a = ack
      BY <2>3
    <3> QED BY <1>7, <2>1, <3>1, CountersHere, Returns
  <2> QED BY <2>2, <2>3
<1>13. t.size = recv_chunk_size' /\ t.done = Len(delivered')
  BY <1>3, <1>4, <1>5, <1>7, <1>11 DEF After, ServerAt, Sized
<1>14. TypeOK'
  <2>1. recv_chunk_size' \in Nat \ {0}
    BY <1>1, <1>4, <1>5, <1>7 DEF TypeOK, Sized
  <2>2. pc' \in {"reading", "parsing"}
    BY <1>7 DEF ReadOrParse
  <2>3. /\ field' = field /\ header' = header /\ parsing_state' = "header"
    BY <1>7, <1>8
  <2> QED BY <1>1, <1>10, <1>11, <1>12, <2>1, <2>2, <2>3 DEF TypeOK, ChannelType, Counters
<1>15. DeliveredInOrder'
  <2>1. CompletedAndIntact /\ PartOfOneMessage
    BY <1>1 DEF DeliveredInOrder
  <2>2. Carries(e, i, sent[i].length)
    BY <1>3, <1>4, <1>5 DEF Carries
  <2>3. CompletedAndIntact'
    BY <1>1, <1>4, <1>5, <1>7, <1>8, <2>1, <2>2, IntactNext
  <2>4. i \in DOMAIN sent
    BY <1>1, LenProperties DEF ClientTyped, Indices
  <2>5. /\ c \notin DOMAIN incomplete'
        /\ \A cs \in DOMAIN incomplete' \ {c} :
             cs \in DOMAIN incomplete /\ incomplete'[cs] = incomplete[cs]
    BY <1>7
  <2>6. PartOfOneMessage'
    BY <1>3, <1>6, <1>8, <2>1, <2>4, <2>5, PartsNext
  <2> QED BY <2>3, <2>6 DEF DeliveredInOrder
<1>16. ServerAt(t)'
  <2>1. DOMAIN incomplete' = DOMAIN incomplete \ {c}
    BY <1>7
  <2>2. \A cs \in DOMAIN incomplete \ {c} : incomplete'[cs] = incomplete[cs]
    BY <1>7
  <2>3. ASSUME Timed
        PROVE  Clocks(t)'
    <3>1. \A cs \in DOMAIN incomplete' :
            IF cs = m.cs THEN incomplete'[cs].abs_timestamp = m.time
            ELSE cs \in DOMAIN incomplete /\ incomplete'[cs] = incomplete[cs]
      BY <1>6, <1>7
    <3> QED BY <1>1, <1>2, <1>8, <2>3, <3>1, ClocksNext
  <2> QED BY <1>1, <1>2, <1>5, <1>6, <1>8, <1>13, <2>1, <2>2, <2>3, ServerNext
<1>17. BetweenChunks(t, 0)'
  <2>1. \A cs \in ChunkStreams : Remembers(cs, t.last[cs])'
    BY <1>1, <1>2, <1>8, ChannelsNext
  <2>2. field' = "basic" /\ parsing_state' = "header"
    BY <1>1, <1>2, <1>7, <1>8, InPayload
  <2> QED BY <2>1, <2>2 DEF BetweenChunks
<1>18. InStep'
  BY <1>1, <1>3, <1>4, <1>7, <1>8, <1>16, <1>17, InStepNext
<1> QED BY <1>9, <1>11, <1>12, <1>14, <1>15, <1>18 DEF ReaderInv
-----------------------------------------------------------------------------
(* In step is in sync: what comes next is what the parser expects.         *)

(* A chunk begins with a basic header.                                     *)
LEMMA BasicAhead ==
  ASSUME ClientTyped, buffer # <<>>, NEW i \in Indices, NEW s \in Point, NEW t,
         NEW a \in Int, NEW b, a = 0, Link(i, s, t, a, b)
  PROVE  Head(buffer).field = "basic"
<1> PICK m : m = sent[i]
  OBVIOUS
<1>1. /\ i \in Nat /\ m \in Message /\ From(s, m) \in Nat /\ From(s, m) <= m.length
      /\ NextChunk(s, i, m) \in Seq(Unit) /\ Len(NextChunk(s, i, m)) \in Nat
  BY LinkFacts
<1>2. /\ Headers(s, m) \in 1 .. 3
      /\ Len(NextChunk(s, i, m)) = Headers(s, m) + (To(s, m) - From(s, m))
      /\ NextChunk(s, i, m)[1] =
           [field |-> "basic", bytes |-> 1, fmt |-> Format(s, m), cs |-> m.cs]
  BY <1>1, ChunkFacts, ZenonT(30)
<1>3. Fits(NextChunk(s, i, m), 0)
  BY DEF Link
<1>4. To(s, m) \in Nat /\ From(s, m) <= To(s, m)
  BY <1>1, ToFacts
<1>5. 0 < Len(NextChunk(s, i, m))
  BY <1>1, <1>2, <1>4
<1>6. Head(buffer) = NextChunk(s, i, m)[0 + 1]
  BY <1>1, <1>3, <1>5, HeadOfChunk
<1> QED BY <1>2, <1>6

(* In the payload comes the message's next byte, or, if the message has    *)
(* none left, the next chunk.                                              *)
LEMMA AtPayloadByte ==
  ASSUME ClientTyped, ServerTyped, TypeOK, parsing_state = "payload", buffer # <<>>,
         NEW n \in Nat, NEW under \in Unders(n), NEW points \in Points(n),
         NEW at \in Places(n), NEW s \in Point, NEW i \in Indices, NEW m \in Message,
         Standing(n, under, points, at, s, i, m)
  PROVE  IF need_size = 0 THEN Head(buffer).field = "basic"
         ELSE /\ Head(buffer).field = "data"
              /\ sent[Head(buffer).msg].cs = Cs
              /\ Head(buffer).at = Len(Info.recv_buf) + 1
<1> PICK from, to, h : from = From(s, m) /\ to = To(s, m) /\ h = Headers(s, m)
  OBVIOUS
<1>a. /\ from \in Nat /\ to \in Nat /\ from <= to /\ m.length \in Nat /\ from <= m.length
      /\ to <= m.length
  BY StandingFacts
<1>b. need_size = m.length - from
  BY InPayload
<1>1. /\ h \in 1 .. 3 /\ at[1] \in Int
      /\ at[2] = at[1] + (h + (to - from))
      /\ \A j \in 1 .. to - from :
           NextChunk(s, i, m)[h + j] =
             [field |-> "data", bytes |-> 1, msg |-> i, at |-> from + j]
  BY StandingFacts
<1>2. /\ at[1] = 0 - h /\ Cs = m.cs /\ Len(Info.recv_buf) = from
  BY InPayload
<1>3. /\ n > 0 /\ Path(n, under, points, at) /\ m = sent[i]
      /\ Link(i, s, points[2], at[1], at[2])
  BY DEF Standing
<1>4. CASE need_size = 0
  <2>1. from = m.length /\ to = from
    BY <1>a, <1>b, <1>4
  <2>2. at[2] = 0
    <3>1. \A x, y, z \in Int : x = 0 - y /\ z = 0 => x + (y + z) = 0
      OBVIOUS
    <3>2. \A y \in 1 .. 3 : y \in Int
      OBVIOUS
    <3> QED BY <1>1, <1>2, <2>1, <3>1, <3>2
  <2>3. n > 1
    <3> SUFFICES ASSUME n = 1 PROVE FALSE
      BY <1>3
    <3>1. Len(Rest) = 0
      BY <1>3, <2>2 DEF Path
    <3>2. Len(Rest) = Len(buffer) + Len(network) /\ Len(buffer) > 0
          /\ Len(buffer) \in Nat /\ Len(network) \in Nat
      <4>1. buffer \in Seq(Unit) /\ network \in Seq(Unit)
        BY DEF ClientTyped
      <4> QED BY <4>1, EmptySeq, LenProperties, ConcatProperties DEF Rest
    <3>3. \A x, y \in Nat : x > 0 => x + y # 0
      OBVIOUS
    <3> QED BY <3>1, <3>2, <3>3
  <2>4. 2 \in 1 .. n /\ 2 \in 1 .. n + 1
    BY <2>3
  <2>5. under[2] \in Indices /\ points[2] \in Point /\ at[2] \in Int
    BY <2>4 DEF Unders, Points, Places
  <2>6. Link(under[2], points[2], points[2 + 1], at[2], at[2 + 1])
    BY <1>3, <2>4 DEF Path
  <2> PICK j, p, q, a, b : /\ j = under[2] /\ p = points[2] /\ q = points[2 + 1]
                           /\ a = at[2] /\ b = at[2 + 1]
    OBVIOUS
  <2>7. Head(buffer).field = "basic"
    BY <2>2, <2>5, <2>6, BasicAhead
  <2> QED BY <1>4, <2>7
<1>5. CASE need_size # 0
  <2>1. from < to
    <3>1. from < m.length
      BY <1>a, <1>b, <1>5
    <3> QED BY <1>a, <3>1, ToFacts
  <2>2. NextChunk(s, i, m) \in Seq(Unit) /\ Len(NextChunk(s, i, m)) = h + (to - from)
    <3>1. i \in Nat
      BY DEF Indices
    <3> QED BY <1>a, <3>1, ChunkFacts
  <2>3. Fits(NextChunk(s, i, m), at[1])
    BY <1>3 DEF Link
  <2>4. h \in Nat /\ h < h + (to - from) /\ 1 \in 1 .. to - from
    BY <1>a, <1>1, <2>1
  <2>5. Head(buffer) = NextChunk(s, i, m)[h + 1]
    BY <1>1, <1>2, <2>2, <2>3, <2>4, HeadOfChunk
  <2>6. Head(buffer) = [field |-> "data", bytes |-> 1, msg |-> i, at |-> from + 1]
    BY <1>1, <2>4, <2>5
  <2> QED BY <1>2, <1>3, <1>5, <2>6
<1> QED BY <1>4, <1>5

(* Wherever the parser stands, the next unit is the one it takes it for.   *)
LEMMA InStepIsInSync ==
  ASSUME ReaderInv
  PROVE  InSync
<1> SUFFICES ASSUME pc = "parsing", buffer # <<>>
             PROVE  IF parsing_state = "header" THEN Head(buffer).field = field
                    ELSE IF need_size = 0 THEN Head(buffer).field = "basic"
                    ELSE /\ Head(buffer).field = "data"
                         /\ sent[Head(buffer).msg].cs = Cs
                         /\ Head(buffer).at = Len(Info.recv_buf) + 1
  BY DEF InSync
<1>1. ClientTyped /\ ServerTyped /\ TypeOK /\ InStep
  BY DEF ReaderInv
<1>2. parsing_state \in {"header", "payload"} /\ field \in {"basic", "message", "extended"}
  BY <1>1 DEF TypeOK
<1>3. CASE parsing_state = "header" /\ field = "basic"
  <2>a. PICK n \in Nat : n > 0 /\
           \E under \in Unders(n), points \in Points(n), at \in Places(n) :
             Path(n, under, points, at) /\ ServerAt(points[1]) /\ Position(n, under, points, at)
    BY <1>1, Here
  <2>1. PICK under \in Unders(n), points \in Points(n), at \in Places(n) :
          Path(n, under, points, at) /\ ServerAt(points[1]) /\ Position(n, under, points, at)
    BY <2>a
  <2> PICK i, s, t, a, b : /\ i = under[1] /\ s = points[1] /\ t = points[1 + 1]
                           /\ a = at[1] /\ b = at[1 + 1]
    OBVIOUS
  <2>2. i \in Indices /\ s \in Point /\ a \in Int
    BY <2>a DEF Unders, Points, Places
  <2>3. a = 0
    BY <1>3, <2>1, HeaderPosition DEF BetweenChunks
  <2>4. Link(i, s, t, a, b)
    BY <2>a, <2>1 DEF Path
  <2> QED BY <1>1, <1>3, <2>2, <2>3, <2>4, BasicAhead
<1>4. CASE parsing_state = "payload" \/ field # "basic"
  <2>a. PICK n \in Nat : \E under \in Unders(n), points \in Points(n), at \in Places(n),
          s \in Point, i \in Indices, m \in Message : Standing(n, under, points, at, s, i, m)
    BY <1>1, <1>4, Stands
  <2>1. PICK under \in Unders(n), points \in Points(n), at \in Places(n),
             s \in Point, i \in Indices, m \in Message : Standing(n, under, points, at, s, i, m)
    BY <2>a
  <2>2. CASE parsing_state = "header" /\ field = "message"
    <3>1. Head(buffer) \in MessageUnit
      BY <1>1, <2>1, <2>2, AtMessage DEF AtField
    <3> QED BY <2>2, <3>1 DEF MessageUnit
  <2>3. CASE parsing_state = "header" /\ field = "extended"
    <3>1. Head(buffer) \in ExtendedUnit
      BY <1>1, <2>1, <2>3, AtExtended DEF AtField
    <3> QED BY <2>3, <3>1 DEF ExtendedUnit
  <2>4. CASE parsing_state = "payload"
    BY <1>1, <2>1, <2>4, AtPayloadByte
  <2> QED BY <1>2, <1>4, <2>2, <2>3, <2>4
<1> QED BY <1>2, <1>3, <1>4
-----------------------------------------------------------------------------
(* The connection begins in step, and no step takes it out of step.        *)
LEMMA ReaderInit ==
  ASSUME Init
  PROVE  ReaderInv
<1>1. /\ sent = <<>> /\ completed = <<>> /\ written = [cs \in ChunkStreams |-> 0]
      /\ send_chunk_size = DefaultChunkSize /\ network = <<>> /\ buffer = <<>>
      /\ delivered = <<>> /\ incomplete = <<>> /\ recv_chunk_size = DefaultChunkSize
      /\ parsing_state = "header" /\ field = "basic"
  BY DEF Init
<1>2. /\ <<>> \in Seq(Message) /\ <<>> \in Seq(Indices) /\ <<>> \in Seq(Unit)
      /\ <<>> \in Seq(Entry) /\ Len(<<>>) = 0 /\ DOMAIN <<>> = {}
  OBVIOUS
<1>3. \A cs : Previous(cs) = 0 /\ ~IsOpen(cs)
  <2>1. {k \in 1 .. Len(sent) : FALSE} = {} /\ 1 .. Len(sent) = {}
    BY <1>1, <1>2
  <2> QED BY <2>1 DEF Previous, SelectLastInSeq, IsOpen
<1>4. DefaultChunkSize \in Nat \ {0} /\ DefaultWindow \in Nat \ {0}
  BY ParameterAssumption
<1>5. Indices = {}
  BY <1>1, <1>2 DEF Indices
<1>6. ClientTyped
  BY <1>1, <1>2, <1>3, <1>4, <1>5 DEF ClientTyped
<1>7. ServerTyped
  BY <1>1, <1>2 DEF ServerTyped
<1>8. TypeOK
  <2>1. 0 \in Numbers
    BY HalfDivisorAssumption DEF Numbers, divisor
  <2>2. ControlStream \in ChunkStreams
    BY DEF ChunkStreams
  <2>3. "unassigned" \in Types
    BY DEF Types
  <2> QED BY <1>1, <1>2, <1>4, <2>1, <2>2, <2>3, EpochType DEF Init, TypeOK, FULL
<1>9. WindowCounts /\ AckWithinWindow
  BY <1>4 DEF Init, WindowCounts, AckWithinWindow
<1>10. DeliveredInOrder
  BY <1>1, <1>2 DEF DeliveredInOrder, CompletedAndIntact, PartOfOneMessage
<1>11. InStep
  <2> DEFINE under == [k \in 1 .. 0 |-> 0]
             points == [k \in 1 .. 0 + 1 |-> ClientPoint]
             at == [k \in 1 .. 0 + 1 |-> 0]
  <2>1. under \in Unders(0) /\ points \in Points(0) /\ at \in Places(0)
    BY <1>6, ClientPointType DEF Unders, Points, Places
  <2>2. points[1] = ClientPoint /\ at[1] = 0
    OBVIOUS
  <2>3. Len(Rest) = 0
    BY <1>1 DEF Rest
  <2>4. Path(0, under, points, at)
    BY <2>2, <2>3 DEF Path
  <2>a. Timed => Clocks(ClientPoint)
    <3>1. /\ \A cs \in ChunkStreams : ClientPoint.last[cs] = 0
          /\ last_message_timestamp = PeerEpoch /\ rollover_count = 0
          /\ DOMAIN incomplete = {}
      BY <1>1, <1>2, <1>3 DEF ClientPoint, Init
    <3> QED BY <3>1 DEF Clocks, CountKept, Timed
  <2>5. ServerAt(ClientPoint)
    BY <1>1, <1>2, <1>3, <2>a DEF ServerAt, ClientPoint, Received
  <2>6. BetweenChunks(ClientPoint, 0)
    BY <1>1, <1>3 DEF BetweenChunks, ClientPoint, Remembers
  <2> HIDE DEF under, points, at
  <2>7. Position(0, under, points, at) /\ ServerAt(points[1])
    BY <2>2, <2>5, <2>6 DEF Position
  <2> QED BY <2>1, <2>4, <2>7 DEF InStep, Unders, Points, Places
<1> QED BY <1>6, <1>7, <1>8, <1>9, <1>10, <1>11 DEF ReaderInv

(* Nothing happens.                                                        *)
LEMMA EndedStep ==
  ASSUME ReaderInv, UNCHANGED vars
  PROVE  ReaderInv'
<1>1. /\ ClientTyped /\ ServerTyped /\ TypeOK /\ DeliveredInOrder
      /\ WindowCounts /\ AckWithinWindow
      /\ pc # "closed" => InStep
  BY DEF ReaderInv
<1>2. /\ UNCHANGED clientVars
      /\ UNCHANGED <<network, buffer, pc, delivered, parsing_state, ack, counting, unacked,
                     headerVars, payloadVars>>
  BY DEF vars
<1>3. UNCHANGED <<incomplete, channels, recv_chunk_size, last_message_timestamp,
                  rollover_count, field, header>>
  BY <1>2 DEF headerVars, payloadVars
<1>4. ClientTyped'
  <2>1. buffer' \in Seq(Unit) /\ network' \in Seq(Unit)
    BY <1>1, <1>2 DEF ClientTyped
  <2> QED BY <1>1, <1>2, <2>1, ClientTypedStays
<1>5. ServerTyped' /\ TypeOK' /\ WindowCounts' /\ AckWithinWindow'
  BY <1>1, <1>2, <1>3 DEF ServerTyped, TypeOK, WindowCounts, AckWithinWindow
<1>6. DeliveredInOrder'
  BY <1>1, <1>2, <1>3, SameDelivered
<1>7. pc' # "closed" => InStep'
  <2>1. UNCHANGED serverVars /\ DOMAIN incomplete \subseteq ChunkStreams /\ Rest' = Rest
    BY <1>1, <1>2 DEF serverVars, TypeOK, Rest
  <2> QED BY <1>1, <1>2, <2>1, InStepStays
<1> QED BY <1>4, <1>5, <1>6, <1>7 DEF ReaderInv

(* Every step keeps the parser in step.                                    *)
LEMMA ReaderNext ==
  ASSUME ReaderInv, WholeChunks, [Next]_vars
  PROVE  ReaderInv'
<1>1. CASE Client
  BY <1>1, ClientStep
<1>2. CASE handle_read
  BY <1>2, ReadStep
<1>3. CASE Reader
  <2>1. CASE NeedsMore
    BY <2>1, NeedsMoreStep
  <2>2. CASE parse_basic_header_1byte
    BY <2>2, BasicStep
  <2>3. CASE parse_chunk_header
    BY <2>3, MessageStep
  <2>4. CASE parse_extended_timestamp
    BY <2>4, ExtendedStep
  <2>5. CASE UnknownType
    BY <2>5, UnknownTypeStep
  <2>6. CASE AwaitPayload
    BY <2>6, AwaitStep
  <2>7. CASE TakePart
    BY <2>7, TakePartStep
  <2>8. CASE CompleteMessage
    BY <2>8, CompleteStep
  <2>9. CASE MalformedPayload
    BY <2>9, MalformedStep
  <2>10. CASE Overflows
    BY <2>10, OverflowStep
  <2> QED BY <1>3, <2>1, <2>2, <2>3, <2>4, <2>5, <2>6, <2>7, <2>8, <2>9, <2>10 DEF Reader
<1>4. CASE Ended
  BY <1>4, EndedStep DEF Ended
<1>5. CASE UNCHANGED vars
  BY <1>5, EndedStep
<1> QED BY <1>1, <1>2, <1>3, <1>4, <1>5 DEF Next

(* What the client writes begins with a chunk, and whole chunks arrive.    *)
LEMMA WholeNext ==
  ASSUME ReaderInv, WholeChunks, [Next]_vars
  PROVE  WholeChunks'
<1>1. ClientTyped /\ network \in Seq(Unit) /\ Len(network) \in Nat
  BY LenProperties DEF ReaderInv, ClientTyped
<1>2. CASE Client
  <2>1. PICK m \in Message, i \in Nat : Turn(i, m) /\ WriteChunk(i, m, Progress(m.cs))
    BY <1>1, <1>2, ClientTurns
  <2>2. PICK c \in Point : c = ClientPoint
    BY <1>1, ClientPointType
  <2> PICK chunk : chunk = NextChunk(c, i, m)
    OBVIOUS
  <2>3. network' = network \o chunk /\ From(c, m) <= m.length
    BY <1>1, <2>1, <2>2, ChunkWritten
  <2>4. chunk \in Seq(Unit) /\ Len(chunk) >= 1 /\ chunk[1].field = "basic"
    <3>1. /\ chunk \in Seq(Unit) /\ Headers(c, m) \in 1 .. 3
          /\ Len(chunk) = Headers(c, m) + (To(c, m) - From(c, m))
          /\ chunk[1] = [field |-> "basic", bytes |-> 1, fmt |-> Format(c, m), cs |-> m.cs]
      BY <2>3, ChunkFacts
    <3>2. To(c, m) \in Nat /\ From(c, m) \in Nat /\ From(c, m) <= To(c, m)
      BY <2>3, ToFacts
    <3> QED BY <3>1, <3>2
  <2>5. CASE network = <<>>
    BY <2>3, <2>4, <2>5 DEF WholeChunks
  <2>6. CASE network # <<>>
    <3>1. network'[1] = network[1]
      <4>1. Len(network) >= 1
        BY <1>1, <2>6
      <4> QED BY <1>1, <2>3, <2>4, <4>1, ConcatProperties
    <3> QED BY <2>6, <3>1 DEF WholeChunks
  <2> QED BY <2>5, <2>6
<1>3. CASE handle_read
  <2>1. PICK n \in Pieces : network' = SubSeq(network, n + 1, Len(network))
    BY <1>3 DEF handle_read
  <2>2. n \in 1 .. Len(network)
    BY DEF Pieces
  <2>3. CASE n = Len(network)
    BY <1>1, <2>1, <2>3 DEF WholeChunks
  <2>4. CASE n # Len(network)
    <3>1. network'[1] = network[n + 1]
      BY <1>1, <2>1, <2>2, <2>4
    <3> QED BY <2>4, <3>1 DEF Pieces, WholeChunks
  <2> QED BY <2>3, <2>4
<1>4. CASE Reader \/ Ended \/ UNCHANGED vars
  <2>1. network' = network
    BY <1>4 DEF Reader, NeedsMore, parse_basic_header_1byte, parse_chunk_header,
         parse_extended_timestamp, NextField, UnknownType, AwaitPayload, TakePart,
         CompleteMessage, MalformedPayload, Overflows, Ended, vars
  <2> QED BY <2>1 DEF WholeChunks
<1> QED BY <1>2, <1>3, <1>4 DEF Next

(* A message is delivered with its time, ...                               *)
LEMMA CompletesInTime ==
  ASSUME ReaderInv, CompleteMessage, Timed
  PROVE  \E e \in Entry, i \in Indices :
           /\ delivered' = Append(delivered, e) /\ e.abs_timestamp = sent[i].time
           /\ Len(delivered) + 1 \in DOMAIN completed /\ completed[Len(delivered) + 1] = i
<1>1. /\ ClientTyped /\ ServerTyped /\ TypeOK /\ InStep
      /\ pc = "parsing" /\ parsing_state = "payload" /\ buffer # <<>>
      /\ Len(buffer) >= this_msg_size /\ this_msg_size = need_size
      /\ delivered' = Append(delivered, Extended)
  BY DEF ReaderInv, CompleteMessage, TakesLast, AtPayload
<1>a. PICK n \in Nat : \E under \in Unders(n), points \in Points(n), at \in Places(n),
        s \in Point, i \in Indices, m \in Message : Standing(n, under, points, at, s, i, m)
  BY <1>1, Stands
<1>2. PICK under \in Unders(n), points \in Points(n), at \in Places(n),
           s \in Point, i \in Indices, m \in Message : Standing(n, under, points, at, s, i, m)
  BY <1>a
<1>3. m = sent[i]
  BY <1>2 DEF Standing
<1>4. Extended \in Entry /\ Extended.abs_timestamp = m.time
  BY <1>1, <1>2, ChunkTaken, ExtendedTime
<1>5. Len(delivered) + 1 \in DOMAIN completed /\ completed[Len(delivered) + 1] = i
  BY <1>1, <1>2, CompletedHere
<1> QED BY <1>1, <1>3, <1>4, <1>5

(* ... and what was delivered in time stays so.                            *)
LEMMA TimeNext ==
  ASSUME ReaderInv, DeliveredInTime, [Next]_vars
  PROVE  DeliveredInTime'
<1>1. /\ ClientTyped /\ ServerTyped /\ CompletedAndIntact
      /\ delivered \in Seq(Entry) /\ completed \in Seq(Indices)
  BY DEF ReaderInv, DeliveredInOrder, ClientTyped, ServerTyped
<1>2. /\ Len(delivered) \in Nat /\ DOMAIN delivered = 1 .. Len(delivered)
      /\ Len(completed) \in Nat /\ DOMAIN completed = 1 .. Len(completed)
      /\ DOMAIN delivered \subseteq DOMAIN completed
  BY <1>1, LenProperties DEF CompletedAndIntact
<1>3. CASE Client
  <2>1. PICK m \in Message, i \in Nat :
          /\ Turn(i, m) /\ WriteChunk(i, m, Progress(m.cs))
          /\ UNCHANGED <<buffer, pc, delivered, parsing_state, ack, counting, unacked,
                         headerVars, payloadVars>>
    BY <1>1, <1>3, ClientTurns
  <2>2. Indices \subseteq Indices' /\ \A k \in Indices : sent'[k] = sent[k]
    BY <2>1 DEF Turn
  <2>3. \A k \in DOMAIN completed : completed'[k] = completed[k]
    <3>1. PICK c \in Point : c = ClientPoint
      BY <1>1, ClientPointType
    <3>2. completed' = IF IsWhole(c, m) THEN Append(completed, i) ELSE completed
      BY <1>1, <2>1, <3>1, ChunkWritten
    <3>3. IsWhole(c, m) \in BOOLEAN
      BY DEF IsWhole
    <3> QED BY <1>1, <2>1, <3>2, <3>3, OpenAfter
  <2>4. ASSUME Timed', NEW n \in DOMAIN delivered
        PROVE  delivered[n].abs_timestamp = sent'[completed'[n]].time
    <3>1. delivered[n].abs_timestamp = sent[completed[n]].time
      BY <2>2, <2>4, SameClock DEF DeliveredInTime, TimestampsMeant
    <3>2. completed[n] \in Indices
      BY <1>1, <1>2
    <3>3. completed'[n] = completed[n]
      BY <1>2, <2>3
    <3> QED BY <2>2, <3>1, <3>2, <3>3
  <2> QED BY <2>1, <2>4 DEF DeliveredInTime, TimestampsMeant
<1>4. CASE CompleteMessage
  <2>1. UNCHANGED <<sent, completed>>
    BY <1>4 DEF CompleteMessage, clientVars
  <2>2. Timed' <=> Timed
    BY <2>1 DEF Timed, SmallSteps, OneStream, Early, Indices
  <2> SUFFICES ASSUME Timed, NEW n \in DOMAIN delivered'
               PROVE  delivered'[n].abs_timestamp = sent[completed[n]].time
    BY <2>1, <2>2 DEF DeliveredInTime, TimestampsMeant
  <2>3. PICK e \in Entry, i \in Indices :
          /\ delivered' = Append(delivered, e) /\ e.abs_timestamp = sent[i].time
          /\ Len(delivered) + 1 \in DOMAIN completed /\ completed[Len(delivered) + 1] = i
    BY <1>4, CompletesInTime
  <2>4. /\ DOMAIN delivered' = 1 .. Len(delivered) + 1
        /\ \A k \in 1 .. Len(delivered) : delivered'[k] = delivered[k]
        /\ delivered'[Len(delivered) + 1] = e
    BY <1>1, <2>3, AppendProperties, LenProperties
  <2>5. CASE n \in DOMAIN delivered
    BY <1>2, <2>4, <2>5 DEF DeliveredInTime, TimestampsMeant
  <2>6. CASE n = Len(delivered) + 1
    BY <2>3, <2>4, <2>6
  <2> QED BY <1>2, <2>4, <2>5, <2>6
<1>5. CASE UNCHANGED <<sent, completed, delivered>>
  BY <1>5 DEF DeliveredInTime, TimestampsMeant, Timed, SmallSteps, OneStream, Early, Indices
<1>6. CASE handle_read \/ Reader \/ Ended \/ UNCHANGED vars
  <2>1. CompleteMessage \/ UNCHANGED <<sent, completed, delivered>>
    BY <1>6 DEF handle_read, Reader, NeedsMore, parse_basic_header_1byte, parse_chunk_header,
         parse_extended_timestamp, NextField, UnknownType, AwaitPayload, TakePart,
         MalformedPayload, Overflows, Ended, vars, clientVars
  <2> QED BY <1>4, <1>5, <2>1
<1> QED BY <1>3, <1>6 DEF Next

(* The inductive invariant holds throughout.                               *)
LEMMA AlwaysInTime == Spec => [](ReaderInv /\ WholeChunks /\ DeliveredInTime)
<1>1. Init => ReaderInv /\ WholeChunks /\ DeliveredInTime
  <2> SUFFICES ASSUME Init PROVE WholeChunks /\ DeliveredInTime
    BY ReaderInit
  <2>1. network = <<>> /\ DOMAIN delivered = {}
    BY DEF Init
  <2> QED BY <2>1 DEF WholeChunks, DeliveredInTime, TimestampsMeant
<1>2. ReaderInv /\ WholeChunks /\ DeliveredInTime /\ [Next]_vars =>
        (ReaderInv /\ WholeChunks /\ DeliveredInTime)'
  BY ReaderNext, WholeNext, TimeNext
<1> QED BY <1>1, <1>2, PTL DEF Spec

(* In particular the parser is always in step.                             *)
LEMMA AlwaysInStep == Spec => []ReaderInv
BY AlwaysInTime, PTL

(***************************************************************************)
(* The parser's state keeps its types; in particular set_win_ack_size      *)
(* never takes next_ack_send_size_ below zero, and no timestamp leaves the *)
(* circle.                                                                 *)
(***************************************************************************)
THEOREM ReaderTypes == Spec => []TypeOK
<1>1. ReaderInv => TypeOK
  BY DEF ReaderInv
<1> QED BY <1>1, AlwaysInStep, PTL

(***************************************************************************)
(* However TCP cuts the stream, however chunk streams interleave and when- *)
(* ever the client changes its chunk size, RtmpHeaderParser and            *)
(* RtmpPayloadParser take each field for what it was written as.           *)
(***************************************************************************)
THEOREM ParserInSync == Spec => []InSync
<1>1. ReaderInv => InSync
  BY InStepIsInSync
<1> QED BY <1>1, AlwaysInStep, PTL

(***************************************************************************)
(* handle_request is given the client's messages in the order in which it  *)
(* completed them, each once, with its type, length and payload.           *)
(***************************************************************************)
THEOREM MessagesDeliveredInOrder == Spec => []DeliveredInOrder
<1>1. ReaderInv => DeliveredInOrder
  BY DEF ReaderInv
<1> QED BY <1>1, AlwaysInStep, PTL

(***************************************************************************)
(* Between two calls of parse the next Acknowledgement is due within one   *)
(* window of the counted bytes, also after set_win_ack_size.               *)
(***************************************************************************)
THEOREM AcknowledgedInTime == Spec => []AckWithinWindow
<1>1. ReaderInv => AckWithinWindow
  BY DEF ReaderInv
<1> QED BY <1>1, AlwaysInStep, PTL

(* One clock for the property is one for the proof.                        *)
LEMMA ClockIsOne ==
  ASSUME ClientTyped, OneClock
  PROVE  PeerEpoch <= HalfDivisor /\ SmallSteps /\ (OneStream \/ Early)
<1> DEFINE S == {sent[i].cs : i \in DOMAIN sent}
<1>1. DOMAIN sent = 1 .. Len(sent) /\ Len(sent) \in Nat /\ Indices = DOMAIN sent
  BY LenProperties DEF ClientTyped, Indices
<1>2. SmallSteps
  BY <1>1 DEF SmallSteps, OneClock
<1>3. CASE Cardinality(S) <= 1
  <2> DEFINE f == [i \in 1 .. Len(sent) |-> sent[i].cs]
  <2>1. f \in Surjection(1 .. Len(sent), S)
    BY <1>1 DEF Surjection
  <2>2. IsFiniteSet(1 .. Len(sent))
    BY <1>1, FS_Interval
  <2> HIDE DEF f
  <2>3. IsFiniteSet(S)
    BY <2>1, <2>2, FS_Surjection
  <2>4. Cardinality(S) \in Nat
    BY <2>3, FS_CardinalityType
  <2>5. Cardinality(S) = 0 \/ Cardinality(S) = 1
    BY <1>3, <2>4
  <2>6. S = {} \/ \E x : S = {x}
    BY <2>3, <2>5, FS_EmptySet, FS_Singleton
  <2>7. ASSUME NEW i \in Indices, NEW j \in Indices
        PROVE  sent[i].cs = sent[j].cs
    <3>1. sent[i].cs \in S /\ sent[j].cs \in S
      BY <1>1
    <3> HIDE DEF S
    <3> QED BY <2>6, <3>1
  <2>8. OneStream
    BY <2>7 DEF OneStream
  <2> QED BY <1>2, <2>8 DEF OneClock
<1>4. CASE \A i \in DOMAIN sent : sent[i].time <= HalfDivisor
  BY <1>1, <1>4, <1>2 DEF Early, OneClock
<1> QED BY <1>3, <1>4 DEF OneClock

(***************************************************************************)
(* Where the rollover count that RtmpPayloadParser shares between chunk    *)
(* streams has one clock to follow, every message reaches handle_request   *)
(* with the client's 64-bit timestamp: from type 0, 1, 2 and 3 chunks,     *)
(* extended or not, across any number of rollovers, and whatever epoch up  *)
(* to half the circle its handshake left in last_message_timestamp_, as    *)
(* long as no delta is half the circle or more (sna::add throws).  The     *)
(* client's clock starts in the first lap, chunks arrive whole, and no     *)
(* type 3 chunk repeats the time of a type 0 one: the program is wrong     *)
(* where one of the last two does not hold, and where the epoch is past    *)
(* half the circle.                                                        *)
(***************************************************************************)
THEOREM TimestampsAreExact ==
  ASSUME TimelyClient
  PROVE  Spec => []TimestampsExact
<1>1. ReaderInv /\ DeliveredInTime => TimestampsExact
  <2> SUFFICES ASSUME ReaderInv, DeliveredInTime, OneClock PROVE TimestampsMeant
    BY DEF TimestampsExact
  <2>1. PeerEpoch <= HalfDivisor /\ SmallSteps /\ (OneStream \/ Early)
    BY ClockIsOne DEF ReaderInv
  <2> QED BY <2>1 DEF DeliveredInTime, Timed
<1> QED BY <1>1, AlwaysInTime, PTL
=============================================================================
