-------------------------- MODULE ConnectionProofs --------------------------
(***************************************************************************)
(* What holds of a connection for any number of commands and whatever the  *)
(* client and the kernel do: the types, what keeps the object alive, which *)
(* replies may wait, and that replies go out whole, in order and once.     *)
(***************************************************************************)
EXTENDS Connection, SequenceTheorems, TLAPS

(* What the handlers queue is replies to the command they handle.          *)
LEMMA QueuedType ==
  ASSUME commands \in 0 .. MaxCommands, Receives, NEW names \in Seq(ReplyNames)
  PROVE  /\ Queued(names) \in Seq(Replies)
         /\ Len(Queued(names)) = Len(names)
         /\ \A i \in 1 .. Len(names) : Queued(names)[i] = <<commands + 1, names[i]>>
<1>1. commands + 1 \in 1 .. MaxCommands /\ MaxCommands \in Nat
  BY ConnectionAssumption DEF Receives
<1>2. Len(names) \in Nat /\ DOMAIN names = 1 .. Len(names)
      /\ \A i \in 1 .. Len(names) : names[i] \in ReplyNames
  OBVIOUS
<1>3. \A i \in 1 .. Len(names) : <<commands + 1, names[i]>> \in Replies
  BY <1>1, <1>2 DEF Replies
<1> QED BY <1>2, <1>3 DEF Queued

(* What the connection sends: the handshake, replies, and the bytes of a buffer written
   over; a queue of replies is a queue of those. *)
LEMMA UnitsFacts ==
  /\ Handshake \in Units /\ Garbage \in Units /\ Replies \subseteq Units
  /\ \A s : s \in Seq(Replies) => s \in Seq(Units)
<1>1. Replies \subseteq Units /\ Handshake \in Units /\ Garbage \in Units
  BY DEF Units
<1> QED BY <1>1, SeqMonotonic

(* Facts about sequences, in the form the steps below need.                *)
LEMMA FunctionIsSeq ==
  ASSUME NEW S, NEW n \in Nat, NEW f \in [1 .. n -> S]
  PROVE  f \in Seq(S) /\ Len(f) = n
  OBVIOUS

(* A sequence cut at n, as a partial write cuts the buffer, gives two sequences of the same
   elements. *)
LEMMA SplitFacts ==
  ASSUME NEW S, NEW s \in Seq(S), NEW n \in 1 .. Len(s)
  PROVE  SubSeq(s, 1, n) \in Seq(S) /\ SubSeq(s, n + 1, Len(s)) \in Seq(S)
  OBVIOUS

(* Two sequences of the same elements make one. *)
LEMMA ConcatFacts ==
  ASSUME NEW S, NEW s \in Seq(S), NEW t \in Seq(S)
  PROVE  s \o t \in Seq(S)
  OBVIOUS

(* Where a piece of data may go next to the waiting writes and the          *)
(* completions: all of it to the writes that wait, part of it to the socket, *)
(* or, when the write fails, with its completion.                           *)
Moved(data, waiting, done) ==
  \/ reactor' = Append(waiting, data) /\ posted' = done /\ UNCHANGED received
  \/ /\ reactor' = waiting /\ ~disconnected
     /\ \E n \in 1 .. Len(data) :
          /\ received' = received \o SubSeq(data, 1, n)
          /\ posted' = Append(done, [rest |-> SubSeq(data, n + 1, Len(data)), error |-> FALSE])
  \/ /\ posted' = Append(done, [rest |-> data, error |-> TRUE])
     /\ reactor' = waiting /\ UNCHANGED received

(* Both the call of async_write_some and the kernel do that.               *)
LEMMA SomeMoved ==
  ASSUME NEW data, NEW waiting, NEW done, AsyncWriteSome(data, waiting, done)
  PROVE  Moved(data, waiting, done)
BY DEF AsyncWriteSome, Moved

(* When the socket takes bytes, it takes them from the first write under way. *)
LEMMA WritableMoved ==
  ASSUME Writable
  PROVE  Moved(Head(reactor), Tail(reactor), posted)
BY DEF Writable, Moved

(* Bytes moved into the socket leave the sequences their types, and a write under way or a
   completion. *)
LEMMA MovedType ==
  ASSUME received \in Seq(Units), NEW data \in Seq(Units),
         NEW waiting \in Seq(Seq(Units)), NEW done \in Seq(Writes),
         Moved(data, waiting, done)
  PROVE  /\ received' \in Seq(Units) /\ reactor' \in Seq(Seq(Units)) /\ posted' \in Seq(Writes)
         /\ reactor' # <<>> \/ posted' # <<>>
<1>1. CASE reactor' = Append(waiting, data) /\ posted' = done /\ UNCHANGED received
  <2>1. reactor' \in Seq(Seq(Units)) /\ reactor' # <<>>
    BY <1>1, AppendProperties
  <2> QED BY <1>1, <2>1
<1>2. CASE /\ reactor' = waiting
           /\ \E n \in 1 .. Len(data) :
                /\ received' = received \o SubSeq(data, 1, n)
                /\ posted' = Append(done, [rest |-> SubSeq(data, n + 1, Len(data)), error |-> FALSE])
  <2>1. PICK n \in 1 .. Len(data) :
                /\ received' = received \o SubSeq(data, 1, n)
                /\ posted' = Append(done, [rest |-> SubSeq(data, n + 1, Len(data)), error |-> FALSE])
    BY <1>2
  <2>2. SubSeq(data, 1, n) \in Seq(Units) /\ SubSeq(data, n + 1, Len(data)) \in Seq(Units)
    BY SplitFacts
  <2>3. [rest |-> SubSeq(data, n + 1, Len(data)), error |-> FALSE] \in Writes
    BY <2>2 DEF Writes
  <2>4. posted' \in Seq(Writes) /\ posted' # <<>>
    BY <2>1, <2>3, AppendProperties
  <2>5. received' \in Seq(Units)
    BY <2>1, <2>2, ConcatFacts
  <2> QED BY <1>2, <2>4, <2>5
<1>3. CASE /\ posted' = Append(done, [rest |-> data, error |-> TRUE])
           /\ reactor' = waiting /\ UNCHANGED received
  <2>1. [rest |-> data, error |-> TRUE] \in Writes
    BY DEF Writes
  <2>2. posted' \in Seq(Writes) /\ posted' # <<>>
    BY <1>3, <2>1, AppendProperties
  <2> QED BY <1>3, <2>2
<1> QED BY <1>1, <1>2, <1>3 DEF Moved

(* What is left of pending writes once their bytes are overwritten         *)
OverwrittenWrites(waiting) == [i \in DOMAIN waiting |-> Overwrite(waiting[i])]
OverwrittenRests(done) == [i \in DOMAIN done |-> [done[i] EXCEPT !.rest = Overwrite(@)]]

(* Writing over a buffer keeps its length and leaves nothing in it that was sent. *)
LEMMA OverwriteFacts ==
  ASSUME NEW s \in Seq(Units)
  PROVE  /\ Overwrite(s) \in Seq(Units) /\ DOMAIN Overwrite(s) = DOMAIN s
         /\ \A i \in DOMAIN s : Overwrite(s)[i] = Garbage
<1>1. Len(s) \in Nat /\ DOMAIN s = 1 .. Len(s)
  BY LenProperties
<1>2. Overwrite(s) \in [1 .. Len(s) -> Units]
  BY <1>1, UnitsFacts DEF Overwrite
<1>3. Overwrite(s) \in Seq(Units)
  BY <1>1, <1>2, FunctionIsSeq
<1> QED BY <1>3 DEF Overwrite

(* The same for the buffers of every write under way, which all name the one write_buffer_. *)
LEMMA OverwrittenFacts ==
  ASSUME NEW waiting \in Seq(Seq(Units)), NEW done \in Seq(Writes)
  PROVE  /\ OverwrittenWrites(waiting) \in Seq(Seq(Units))
         /\ DOMAIN OverwrittenWrites(waiting) = DOMAIN waiting
         /\ OverwrittenRests(done) \in Seq(Writes)
         /\ DOMAIN OverwrittenRests(done) = DOMAIN done
         /\ \A i \in DOMAIN done : OverwrittenRests(done)[i].rest = Overwrite(done[i].rest)
<1>1. OverwrittenWrites(waiting) \in Seq(Seq(Units))
  <2>1. Len(waiting) \in Nat /\ waiting \in [1 .. Len(waiting) -> Seq(Units)]
    BY LenProperties
  <2>2. OverwrittenWrites(waiting) \in [1 .. Len(waiting) -> Seq(Units)]
    BY <2>1, OverwriteFacts DEF OverwrittenWrites
  <2> QED BY <2>1, <2>2, FunctionIsSeq
<1>2. ASSUME NEW i \in DOMAIN done
      PROVE  /\ [done[i] EXCEPT !.rest = Overwrite(@)] \in Writes
             /\ OverwrittenRests(done)[i].rest = Overwrite(done[i].rest)
  <2>1. done[i] \in Writes
    BY LenProperties
  <2>2. Overwrite(done[i].rest) \in Seq(Units)
    BY <2>1, OverwriteFacts DEF Writes
  <2> QED BY <2>1, <2>2 DEF Writes, OverwrittenRests
<1>3. OverwrittenRests(done) \in Seq(Writes)
  <2>1. Len(done) \in Nat /\ done \in [1 .. Len(done) -> Writes]
    BY LenProperties
  <2>2. OverwrittenRests(done) \in [1 .. Len(done) -> Writes]
    BY <2>1, <1>2 DEF OverwrittenRests
  <2> QED BY <2>1, <2>2, FunctionIsSeq
<1> QED BY <1>1, <1>2, <1>3 DEF OverwrittenWrites, OverwrittenRests

(* A whole write, overwriting pending ones or not                          *)
LEMMA WriteType ==
  ASSUME received \in Seq(Units), reactor \in Seq(Seq(Units)), posted \in Seq(Writes),
         overlapped \in BOOLEAN, NEW data \in Seq(Units), AsyncWrite(data)
  PROVE  /\ received' \in Seq(Units) /\ reactor' \in Seq(Seq(Units)) /\ posted' \in Seq(Writes)
         /\ reactor' # <<>> \/ posted' # <<>>
         /\ overlapped' \in BOOLEAN
<1>1. overlapped' \in BOOLEAN
  BY DEF AsyncWrite
<1>2. CASE AsyncWriteSome(data, reactor, posted)
  BY <1>1, <1>2, SomeMoved, MovedType
<1>3. CASE AsyncWriteSome(data, OverwrittenWrites(reactor), OverwrittenRests(posted))
  BY <1>1, <1>3, OverwrittenFacts, SomeMoved, MovedType
<1> QED BY <1>2, <1>3 DEF AsyncWrite, OverwrittenWrites, OverwrittenRests

(* write_message, with or without something to write                       *)
LEMMA WriteMessageType ==
  ASSUME TypeOK, NEW queue \in Seq(Replies), WriteMessage(queue)
  PROVE  /\ write_queue_' \in Seq(Replies) /\ reply_streambuf_' \in Seq(Units)
         /\ received' \in Seq(Units) /\ reactor' \in Seq(Seq(Units)) /\ posted' \in Seq(Writes)
         /\ overlapped' \in BOOLEAN
<1>1. /\ reply_streambuf_ \in Seq(Units) /\ received \in Seq(Units)
      /\ reactor \in Seq(Seq(Units)) /\ posted \in Seq(Writes) /\ overlapped \in BOOLEAN
  BY DEF TypeOK
<1>2. CASE queue = <<>>
  BY <1>1, <1>2 DEF WriteMessage
<1>3. CASE queue # <<>>
  <2> DEFINE data == reply_streambuf_ \o queue
  <2>1. queue \in Seq(Units)
    BY UnitsFacts
  <2>2. data \in Seq(Units)
    BY <1>1, <2>1, ConcatFacts
  <2>3. AsyncWrite(data) /\ reply_streambuf_' = Consume(data, Len(queue)) /\ write_queue_' = <<>>
    BY <1>3 DEF WriteMessage
  <2>4. Consume(data, Len(queue)) \in Seq(Units)
    <3> HIDE DEF data
    <3>1. Len(queue) \in Nat /\ queue # <<>> => Len(queue) > 0
      BY <1>3, <2>1
    <3>2. CASE Len(queue) < Len(data)
      BY <3>1, <3>2, <2>2, <2>1, <1>3, SplitFacts DEF Consume
    <3>3. CASE ~(Len(queue) < Len(data))
      BY <3>3 DEF Consume
    <3> QED BY <3>2, <3>3
  <2>5. <<>> \in Seq(Replies)
    OBVIOUS
  <2> HIDE DEF data
  <2> QED BY <1>1, <2>2, <2>3, <2>4, <2>5, WriteType
<1> QED BY <1>2, <1>3

(* The replies each command is answered with are replies the connection knows. *)
LEMMA NamesType ==
  /\ <<"SimpleResult">> \in Seq(ReplyNames)
  /\ <<"SimpleResult", "OnFCPublish">> \in Seq(ReplyNames)
  /\ <<"PublishStart">> \in Seq(ReplyNames) /\ <<"Acknowledgement">> \in Seq(ReplyNames)
  /\ <<"WindowAcknowledgementSize", "SetPeerBandwidth", "StreamBegin", "ConnectResult">>
       \in Seq(ReplyNames)
  /\ PlayReplies \in Seq(ReplyNames)
BY DEF ReplyNames, PlayReplies

(* What every answered command does to the counters and the history        *)
LEMMA PushType ==
  ASSUME TypeOK, NEW names \in Seq(ReplyNames), Push(names)
  PROVE  /\ commands' \in 0 .. MaxCommands /\ pushed' \in Seq(Units)
         /\ 1 .. commands \subseteq 1 .. commands' /\ commands + 1 \in 1 .. commands'
         /\ write_queue_ \o Queued(names) \in Seq(Replies)
<1>1. commands \in 0 .. MaxCommands /\ pushed \in Seq(Units) /\ write_queue_ \in Seq(Replies)
  BY DEF TypeOK
<1>2. Receives /\ commands' = commands + 1 /\ pushed' = pushed \o Queued(names)
  BY DEF Push
<1>3. Queued(names) \in Seq(Replies)
  BY <1>1, <1>2, QueuedType
<1>4. pushed' \in Seq(Units) /\ write_queue_ \o Queued(names) \in Seq(Replies)
  BY <1>1, <1>2, <1>3, UnitsFacts, ConcatFacts
<1>5. MaxCommands \in Nat /\ commands < MaxCommands
  BY <1>2, ConnectionAssumption DEF Receives
<1> QED BY <1>1, <1>2, <1>4, <1>5

(* Queueing the replies of a command, and writing the queue out if nothing holds it back,
   keeps the types. *)
LEMMA AnswerType ==
  ASSUME TypeOK, NEW names \in Seq(ReplyNames), Answer(names)
  PROVE  TypeOK'
<1> DEFINE queue == write_queue_ \o Queued(names)
<1>1. /\ commands' \in 0 .. MaxCommands /\ pushed' \in Seq(Units)
      /\ 1 .. commands \subseteq 1 .. commands'
      /\ queue \in Seq(Replies)
  BY PushType DEF Answer
<1>2. /\ UNCHANGED <<phase, reading, link, is_continuous_send_state_, timer, unpublished>>
      /\ SignalSendMessage(queue)
  BY DEF Answer, Push
<1> HIDE DEF queue
<1>3. /\ write_queue_' \in Seq(Replies) /\ reply_streambuf_' \in Seq(Units)
      /\ received' \in Seq(Units) /\ reactor' \in Seq(Seq(Units)) /\ posted' \in Seq(Writes)
      /\ overlapped' \in BOOLEAN
  <2>1. CASE is_continuous_send_state_
    BY <1>1, <1>2, <2>1 DEF SignalSendMessage, TypeOK
  <2>2. CASE ~is_continuous_send_state_
    BY <1>1, <1>2, <2>2, WriteMessageType DEF SignalSendMessage
  <2> QED BY <2>1, <2>2
<1> QED BY <1>1, <1>2, <1>3 DEF TypeOK, link

(* The completion of a write consumes the handshake and nothing else.      *)
LEMMA RunCompletionType ==
  ASSUME TypeOK, RunCompletion
  PROVE  TypeOK'
<1>1. /\ received \in Seq(Units) /\ reactor \in Seq(Seq(Units)) /\ posted \in Seq(Writes)
      /\ reply_streambuf_ \in Seq(Units)
  BY DEF TypeOK
<1>2. posted # <<>> => Head(posted) \in Writes /\ Tail(posted) \in Seq(Writes)
  BY <1>1, HeadTailProperties
<1>3. UNCHANGED <<write_queue_, overlapped, is_continuous_send_state_, timer,
                  commands, pushed, unpublished>>
  BY DEF RunCompletion
<1>4. CASE ContinueWrite
  <2>1. /\ posted # <<>> /\ AsyncWriteSome(Head(posted).rest, reactor, Tail(posted))
        /\ UNCHANGED <<phase, reading, reply_streambuf_, link>>
    BY <1>4 DEF ContinueWrite
  <2>2. Head(posted).rest \in Seq(Units)
    BY <1>2, <2>1 DEF Writes
  <2>3. received' \in Seq(Units) /\ reactor' \in Seq(Seq(Units)) /\ posted' \in Seq(Writes)
    BY <1>1, <1>2, <2>1, <2>2, SomeMoved, MovedType
  <2> QED BY <1>3, <2>1, <2>3 DEF TypeOK, link
<1>5. CASE HandleS0S1S2Write
  <2>1. Consume(reply_streambuf_, 1) \in Seq(Units)
    <3>1. CASE 1 < Len(reply_streambuf_)
      BY <1>1, <3>1, SplitFacts DEF Consume
    <3>2. CASE ~(1 < Len(reply_streambuf_))
      BY <3>2 DEF Consume
    <3> QED BY <3>1, <3>2
  <2>2. posted' \in Seq(Writes) /\ UNCHANGED <<reactor, received>>
    BY <1>2, <1>5 DEF HandleS0S1S2Write
  <2>3. /\ phase' \in {phase, "C2"} /\ reading' \in {reading, TRUE}
        /\ reply_streambuf_' \in {reply_streambuf_, Consume(reply_streambuf_, 1)}
        /\ disconnected' \in {disconnected, TRUE} /\ UNCHANGED <<stopped, clientGone>>
    BY <1>5 DEF HandleS0S1S2Write, Disconnect, link
  <2> QED BY <1>1, <1>3, <2>1, <2>2, <2>3 DEF TypeOK
<1>6. CASE HandleWrite
  <2>1. posted' \in Seq(Writes) /\ UNCHANGED <<phase, reading, reply_streambuf_, reactor, received>>
    BY <1>2, <1>6 DEF HandleWrite
  <2>2. disconnected' \in {disconnected, TRUE} /\ UNCHANGED <<stopped, clientGone>>
    BY <1>6 DEF HandleWrite, Disconnect, link
  <2> QED BY <1>3, <2>1, <2>2 DEF TypeOK
<1> QED BY <1>4, <1>5, <1>6 DEF RunCompletion

(* The socket taking bytes keeps the types and leaves a write under way or a completion. *)
LEMMA WritableType ==
  ASSUME TypeOK, Writable
  PROVE  TypeOK' /\ (reactor' # <<>> \/ posted' # <<>>)
<1>1. /\ received \in Seq(Units) /\ reactor \in Seq(Seq(Units)) /\ posted \in Seq(Writes)
      /\ reactor # <<>>
  BY DEF TypeOK, Writable
<1>2. Head(reactor) \in Seq(Units) /\ Tail(reactor) \in Seq(Seq(Units))
  BY <1>1, HeadTailProperties
<1>3. UNCHANGED <<phase, reading, write_queue_, reply_streambuf_, overlapped,
                  is_continuous_send_state_, timer, link, commands, pushed, unpublished>>
  BY DEF Writable
<1>4. /\ received' \in Seq(Units) /\ reactor' \in Seq(Seq(Units)) /\ posted' \in Seq(Writes)
      /\ reactor' # <<>> \/ posted' # <<>>
  BY <1>1, <1>2, WritableMoved, MovedType
<1> QED BY <1>3, <1>4 DEF TypeOK, link

(* handle_read_handshake_c0c1 keeps the types. *)
LEMMA HandshakeReadType ==
  ASSUME TypeOK, HandleReadHandshakeC0C1
  PROVE  TypeOK'
<1>1. /\ received \in Seq(Units) /\ reactor \in Seq(Seq(Units)) /\ posted \in Seq(Writes)
      /\ overlapped \in BOOLEAN
  BY DEF TypeOK
<1>2. /\ UNCHANGED <<is_continuous_send_state_, timer, link, commands, unpublished>>
      /\ reading' = FALSE
  BY DEF HandleReadHandshakeC0C1
<1>3. CASE phase' = "rejected" /\ UNCHANGED <<output, pushed>>
  BY <1>2, <1>3 DEF TypeOK, output, link
<1>4. CASE /\ phase' = "S0S1S2" /\ pushed' = <<Handshake>>
           /\ reply_streambuf_' = <<Handshake>>
           /\ AsyncWrite(<<Handshake>>) /\ UNCHANGED write_queue_
  <2>1. <<Handshake>> \in Seq(Units)
    BY UnitsFacts
  <2>2. /\ received' \in Seq(Units) /\ reactor' \in Seq(Seq(Units)) /\ posted' \in Seq(Writes)
        /\ overlapped' \in BOOLEAN
    BY <1>1, <1>4, <2>1, WriteType
  <2> QED BY <1>2, <1>4, <2>1, <2>2 DEF TypeOK, link
<1> QED BY <1>3, <1>4 DEF HandleReadHandshakeC0C1

(* Acknowledging, or handling a command, keeps the types, whichever command it is. *)
LEMMA RequestType ==
  ASSUME TypeOK, Acknowledge \/ HandleRequest
  PROVE  TypeOK'
<1>1. CASE \/ HandleConnectMessage \/ HandleReleaseStream \/ HandleFCPublish
           \/ HandleCreateStream \/ HandleDeleteStream \/ HandlePublish \/ Acknowledge
  <2>1. PICK names \in Seq(ReplyNames) : Answer(names)
    BY <1>1, NamesType DEF HandleConnectMessage, HandleReleaseStream, HandleFCPublish,
         HandleCreateStream, HandleDeleteStream, HandlePublish, Acknowledge
  <2> QED BY <2>1, AnswerType
<1>2. CASE HandleFCUnpublish
  <2>1. /\ Push(<<"SimpleResult">>) /\ unpublished' = unpublished \union {commands + 1}
        /\ write_queue_' = write_queue_ \o Queued(<<"SimpleResult">>)
        /\ UNCHANGED <<reply_streambuf_, reactor, posted, received, overlapped,
                       is_continuous_send_state_, timer>>
    BY <1>2 DEF HandleFCUnpublish
  <2>2. /\ commands' \in 0 .. MaxCommands /\ pushed' \in Seq(Units)
        /\ 1 .. commands \subseteq 1 .. commands' /\ commands + 1 \in 1 .. commands'
        /\ write_queue_' \in Seq(Replies)
    BY <2>1, NamesType, PushType
  <2>3. UNCHANGED <<phase, reading, link>>
    BY <2>1 DEF Push
  <2> QED BY <2>1, <2>2, <2>3 DEF TypeOK, link
<1>3. CASE HandlePlay
  <2>1. /\ Push(PlayReplies) /\ ChangeContinuousSendState
        /\ write_queue_' = write_queue_ \o Queued(PlayReplies)
        /\ UNCHANGED <<reply_streambuf_, reactor, posted, received, overlapped, unpublished>>
    BY <1>3 DEF HandlePlay
  <2>2. /\ commands' \in 0 .. MaxCommands /\ pushed' \in Seq(Units)
        /\ 1 .. commands \subseteq 1 .. commands' /\ write_queue_' \in Seq(Replies)
    BY <2>1, NamesType, PushType
  <2>3. UNCHANGED <<phase, reading, link>>
    BY <2>1 DEF Push
  <2>4. is_continuous_send_state_' \in BOOLEAN /\ timer' \in BOOLEAN
    BY <2>1 DEF ChangeContinuousSendState, TypeOK
  <2> QED BY <2>1, <2>2, <2>3, <2>4 DEF TypeOK, link
<1>4. CASE HandleUnanswered
  <2>1. <<>> \in Seq(ReplyNames)
    OBVIOUS
  <2>2. /\ Push(<<>>) /\ UNCHANGED <<output, is_continuous_send_state_, timer, unpublished>>
    BY <1>4 DEF HandleUnanswered
  <2>3. /\ commands' \in 0 .. MaxCommands /\ pushed' \in Seq(Units)
        /\ 1 .. commands \subseteq 1 .. commands'
    BY <2>1, <2>2, PushType
  <2>4. UNCHANGED <<phase, reading, link>>
    BY <2>2 DEF Push
  <2> QED BY <2>2, <2>3, <2>4 DEF TypeOK, link, output
<1> QED BY <1>1, <1>2, <1>3, <1>4 DEF HandleRequest

(* Every step of the connection keeps the types. *)
LEMMA NextType == TypeOK /\ [Next]_vars => TypeOK'
<1> SUFFICES ASSUME TypeOK, [Next]_vars PROVE TypeOK'
  OBVIOUS
<1>1. CASE HandleAccept
  BY <1>1 DEF HandleAccept, TypeOK, output, link
<1>2. CASE HandleReadHandshakeC0C1
  BY <1>2, HandshakeReadType
<1>3. CASE HandleReadHandshakeC2
  BY <1>3 DEF HandleReadHandshakeC2, TypeOK, output, link
<1>4. CASE HandleRead
  BY <1>4 DEF HandleRead, TypeOK, output, link
<1>5. CASE Acknowledge \/ HandleRequest
  BY <1>5, RequestType
<1>6. CASE ParseFails
  <2>1. commands + 1 \in 0 .. MaxCommands /\ 1 .. commands \subseteq 1 .. (commands + 1)
    BY <1>6, ConnectionAssumption DEF ParseFails, Receives, TypeOK
  <2> QED BY <1>6, <2>1 DEF ParseFails, Disconnect, TypeOK, output
<1>7. CASE ReadAgain
  BY <1>7 DEF ReadAgain, TypeOK, output, link
<1>8. CASE ReadFails
  BY <1>8 DEF ReadFails, Disconnect, TypeOK, output
<1>9. CASE HandleSendTimer
  <2>1. write_queue_ \in Seq(Replies) /\ WriteMessage(write_queue_)
    BY <1>9 DEF HandleSendTimer, TypeOK
  <2>2. /\ write_queue_' \in Seq(Replies) /\ reply_streambuf_' \in Seq(Units)
        /\ received' \in Seq(Units) /\ reactor' \in Seq(Seq(Units)) /\ posted' \in Seq(Writes)
        /\ overlapped' \in BOOLEAN
    BY <2>1, WriteMessageType
  <2> QED BY <1>9, <2>2 DEF HandleSendTimer, TypeOK, link
<1>10. CASE RunCompletion
  BY <1>10, RunCompletionType
<1>11. CASE Writable
  BY <1>11, WritableType
<1>12. CASE ClientCloses
  BY <1>12 DEF ClientCloses, TypeOK, output
<1>13. CASE HandleStop
  BY <1>13 DEF HandleStop, TypeOK, output
<1>14. CASE UNCHANGED vars
  BY <1>14 DEF vars, TypeOK, output, link
<1> QED BY <1>1, <1>2, <1>3, <1>4, <1>5, <1>6, <1>7, <1>8, <1>9, <1>10, <1>11, <1>12,
           <1>13, <1>14 DEF Next, Ended

(* Every variable of the connection keeps its type, whatever the number of *)
(* commands.                                                               *)
THEOREM ConnectionTyped == Spec => []TypeOK
<1>1. Init => TypeOK
  <2>1. 0 \in 0 .. MaxCommands
    BY ConnectionAssumption
  <2>2. /\ <<>> \in Seq(Replies) /\ <<>> \in Seq(Units) /\ <<>> \in Seq(Seq(Units))
        /\ <<>> \in Seq(Writes)
    OBVIOUS
  <2> QED BY <2>1, <2>2 DEF Init, TypeOK
<1> QED BY <1>1, NextType, PTL DEF Spec

-----------------------------------------------------------------------------
(* What keeps the object alive in each phase: the handshake and the open   *)
(* connection have a read outstanding, and while S0, S1 and S2 are written *)
(* their write waits for the socket or for its completion.                 *)
HeldAlive ==
  ~disconnected =>
    /\ phase \in {"C0C1", "C2", "open"} => reading
    /\ phase = "S0S1S2" => reactor # <<>> \/ posted # <<>>

(* Every step keeps a handler, a read, a write or the timer holding the connection. *)
LEMMA NextHeld == TypeOK /\ HeldAlive /\ [Next]_vars => HeldAlive'
<1> SUFFICES ASSUME TypeOK, HeldAlive, [Next]_vars PROVE HeldAlive'
  OBVIOUS
<1>a. /\ received \in Seq(Units) /\ reactor \in Seq(Seq(Units)) /\ posted \in Seq(Writes)
      /\ overlapped \in BOOLEAN
  BY DEF TypeOK
<1>1. CASE HandleAccept
  BY <1>1 DEF HandleAccept, HeldAlive, link
<1>2. CASE HandleReadHandshakeC0C1
  <2>1. CASE phase' = "rejected"
    BY <2>1 DEF HeldAlive
  <2>2. CASE phase' = "S0S1S2" /\ AsyncWrite(<<Handshake>>)
    <3>1. <<Handshake>> \in Seq(Units)
      BY UnitsFacts
    <3>2. reactor' # <<>> \/ posted' # <<>>
      BY <1>a, <2>2, <3>1, WriteType
    <3> QED BY <2>2, <3>2 DEF HeldAlive
  <2> QED BY <1>2, <2>1, <2>2 DEF HandleReadHandshakeC0C1
<1>3. CASE HandleReadHandshakeC2
  BY <1>3 DEF HandleReadHandshakeC2, HeldAlive, link
<1>4. CASE HandleRead
  BY <1>4 DEF HandleRead, HeldAlive
<1>5. CASE Acknowledge \/ HandleRequest
  <2>1. phase' = "parsing"
    BY <1>5 DEF Acknowledge, HandleRequest, HandleConnectMessage, HandleReleaseStream, HandleFCPublish,
         HandleFCUnpublish, HandleCreateStream, HandleDeleteStream, HandlePublish, HandlePlay,
         HandleUnanswered, Answer, Push, Receives
  <2> QED BY <2>1 DEF HeldAlive
<1>6. CASE ParseFails
  BY <1>6 DEF ParseFails, Disconnect, HeldAlive
<1>7. CASE ReadAgain
  BY <1>7 DEF ReadAgain, HeldAlive
<1>8. CASE ReadFails
  BY <1>8 DEF ReadFails, Disconnect, HeldAlive
<1>9. CASE HandleSendTimer
  <2>1. UNCHANGED <<phase, reading, disconnected>> /\ WriteMessage(write_queue_)
    BY <1>9 DEF HandleSendTimer, link
  <2>2. CASE write_queue_ = <<>>
    BY <2>1, <2>2 DEF WriteMessage, HeldAlive
  <2>3. CASE write_queue_ # <<>>
    <3>1. reply_streambuf_ \o write_queue_ \in Seq(Units)
      BY UnitsFacts, ConcatFacts DEF TypeOK
    <3>2. reactor' # <<>> \/ posted' # <<>>
      BY <1>a, <2>1, <2>3, <3>1, WriteType DEF WriteMessage
    <3> QED BY <2>1, <3>2 DEF HeldAlive
  <2> QED BY <2>2, <2>3
<1>10. CASE RunCompletion
  <2>1. CASE ContinueWrite
    <3>1. /\ posted # <<>> /\ AsyncWriteSome(Head(posted).rest, reactor, Tail(posted))
          /\ UNCHANGED <<phase, reading, disconnected>>
      BY <2>1 DEF ContinueWrite, link
    <3>2. Head(posted) \in Writes /\ Tail(posted) \in Seq(Writes)
      BY <1>a, <3>1, HeadTailProperties
    <3>3. Head(posted).rest \in Seq(Units)
      BY <3>2 DEF Writes
    <3>4. reactor' # <<>> \/ posted' # <<>>
      BY <1>a, <3>1, <3>2, <3>3, SomeMoved, MovedType
    <3> QED BY <3>1, <3>4 DEF HeldAlive
  <2>2. CASE HandleS0S1S2Write
    BY <2>2 DEF HandleS0S1S2Write, Disconnect, HeldAlive
  <2>3. CASE HandleWrite
    BY <2>3 DEF HandleWrite, Disconnect, link, HeldAlive
  <2> QED BY <1>10, <2>1, <2>2, <2>3 DEF RunCompletion
<1>11. CASE Writable
  <2>1. reactor' # <<>> \/ posted' # <<>>
    BY <1>11, WritableType
  <2> QED BY <1>11, <2>1 DEF Writable, HeldAlive, link
<1>12. CASE ClientCloses
  BY <1>12 DEF ClientCloses, HeldAlive, output
<1>13. CASE HandleStop
  BY <1>13 DEF HandleStop, HeldAlive, output
<1>14. CASE UNCHANGED vars
  BY <1>14 DEF vars, HeldAlive, output, link
<1> QED BY <1>1, <1>2, <1>3, <1>4, <1>5, <1>6, <1>7, <1>8, <1>9, <1>10, <1>11, <1>12,
           <1>13, <1>14 DEF Next, Ended

(* A connection is let go only after disconnect, or when its handshake was *)
(* rejected: no handler forgets to arm the next read or to keep a write.   *)
THEOREM ConnectionKeptAlive == Spec => []KeptAlive
<1>1. Init => HeldAlive
  BY DEF Init, HeldAlive
<1>2. TypeOK /\ HeldAlive => KeptAlive
  BY DEF TypeOK, HeldAlive, KeptAlive, Released
<1> QED BY <1>1, <1>2, ConnectionTyped, NextHeld, PTL DEF Spec

-----------------------------------------------------------------------------
(* The same without the io thread being free: a handler that pushes        *)
(* several replies is one step of the model.                               *)
OnlyUnsignalled ==
  ~is_continuous_send_state_ =>
    \A i \in DOMAIN write_queue_ : write_queue_[i][1] \in unpublished

(* Every step keeps the queue free of replies that a write was owed to. *)
LEMMA NextUnsignalled == TypeOK /\ OnlyUnsignalled /\ [Next]_vars => OnlyUnsignalled'
<1> SUFFICES ASSUME TypeOK, OnlyUnsignalled, [Next]_vars PROVE OnlyUnsignalled'
  OBVIOUS
<1>1. CASE UNCHANGED <<write_queue_, is_continuous_send_state_, unpublished>>
  BY <1>1 DEF OnlyUnsignalled
<1>2. CASE write_queue_' = <<>>
  BY <1>2 DEF OnlyUnsignalled
<1>3. CASE \/ HandleAccept \/ HandleReadHandshakeC0C1 \/ HandleReadHandshakeC2 \/ HandleRead
           \/ ParseFails \/ ReadAgain \/ ReadFails \/ RunCompletion \/ Writable
           \/ ClientCloses \/ HandleStop \/ UNCHANGED vars
  BY <1>1, <1>3 DEF HandleAccept, HandleReadHandshakeC0C1, HandleReadHandshakeC2, HandleRead,
       ParseFails, ReadAgain, ReadFails, RunCompletion, Writable, ClientCloses, HandleStop, vars,
       output
<1>4. CASE HandleSendTimer
  BY <1>2, <1>4 DEF HandleSendTimer, WriteMessage
<1>5. ASSUME NEW names, Answer(names) PROVE OnlyUnsignalled'
  <2>1. CASE is_continuous_send_state_
    BY <1>5, <2>1 DEF Answer, OnlyUnsignalled
  <2>2. CASE ~is_continuous_send_state_
    BY <1>2, <1>5, <2>2 DEF Answer, SignalSendMessage, WriteMessage
  <2> QED BY <2>1, <2>2
<1>6. CASE \/ HandleConnectMessage \/ HandleReleaseStream \/ HandleFCPublish
           \/ HandleCreateStream \/ HandleDeleteStream \/ HandlePublish \/ Acknowledge
  BY <1>5, <1>6 DEF HandleConnectMessage, HandleReleaseStream, HandleFCPublish,
       HandleCreateStream, HandleDeleteStream, HandlePublish, Acknowledge
<1>7. CASE HandleFCUnpublish
  <2> DEFINE q == Queued(<<"SimpleResult">>)
  <2>1. /\ Receives /\ unpublished' = unpublished \union {commands + 1}
        /\ write_queue_' = write_queue_ \o q /\ UNCHANGED is_continuous_send_state_
    BY <1>7 DEF HandleFCUnpublish, Push
  <2>2. q \in Seq(Replies) /\ Len(q) = 1 /\ \A i \in 1 .. Len(q) : q[i][1] = commands + 1
    <3>1. <<"SimpleResult">> \in Seq(ReplyNames) /\ Len(<<"SimpleResult">>) = 1
      BY NamesType
    <3>2. commands \in 0 .. MaxCommands
      BY DEF TypeOK
    <3>3. /\ q \in Seq(Replies) /\ Len(q) = 1
          /\ \A i \in 1 .. 1 : q[i] = <<commands + 1, <<"SimpleResult">>[i]>>
      BY <2>1, <3>1, <3>2, QueuedType
    <3> QED BY <3>3
  <2>3. write_queue_ \in Seq(Replies)
    BY DEF TypeOK
  <2> HIDE DEF q
  <2>4. /\ DOMAIN write_queue_' = 1 .. (Len(write_queue_) + Len(q))
        /\ Len(write_queue_) \in Nat /\ Len(q) \in Nat
        /\ DOMAIN write_queue_ = 1 .. Len(write_queue_)
        /\ \A i \in 1 .. (Len(write_queue_) + Len(q)) :
              write_queue_'[i] = IF i <= Len(write_queue_) THEN write_queue_[i]
                                 ELSE q[i - Len(write_queue_)]
    BY <2>1, <2>2, <2>3, ConcatProperties, LenProperties
  <2> QED BY <2>1, <2>2, <2>4 DEF OnlyUnsignalled
<1>8. CASE HandlePlay
  BY <1>8 DEF HandlePlay, ChangeContinuousSendState, OnlyUnsignalled
<1>9. CASE HandleUnanswered
  BY <1>1, <1>9 DEF HandleUnanswered, output
<1> QED BY <1>3, <1>4, <1>6, <1>7, <1>8, <1>9 DEF Next, Ended, HandleRequest

(* As long as no play has handed sending to the timer, only results of     *)
(* FCUnpublish are left in the queue: every other handler signals after    *)
(* its last push.                                                          *)
THEOREM QueueEmptied == Spec => []OnlyUnsignalledWait
<1>1. Init => OnlyUnsignalled
  BY DEF Init, OnlyUnsignalled
<1>2. OnlyUnsignalled => OnlyUnsignalledWait
  BY DEF OnlyUnsignalled, OnlyUnsignalledWait
<1> QED BY <1>1, <1>2, ConnectionTyped, NextUnsignalled, PTL DEF Spec

-----------------------------------------------------------------------------
(* No reply is in two places at once: among the replies that were queued,  *)
(* the writes that wait, the rests of those not yet complete and what the  *)
(* socket took.                                                            *)
NoRepeat(s) == \A i, j \in DOMAIN s : i < j /\ s[i] = s[j] => s[i] = Garbage
Real(s) == {s[i] : i \in DOMAIN s} \ {Garbage}

Apart(waiting, done) ==
  /\ \A k \in DOMAIN waiting : NoRepeat(waiting[k])
  /\ \A k \in DOMAIN done : NoRepeat(done[k].rest)
  /\ \A k, l \in DOMAIN waiting : k # l => Real(waiting[k]) \cap Real(waiting[l]) = {}
  /\ \A k, l \in DOMAIN done : k # l => Real(done[k].rest) \cap Real(done[l].rest) = {}
  /\ \A k \in DOMAIN waiting, l \in DOMAIN done :
       Real(waiting[k]) \cap Real(done[l].rest) = {}

Away(replies, waiting, done) ==
  /\ \A k \in DOMAIN waiting : replies \cap Real(waiting[k]) = {}
  /\ \A k \in DOMAIN done : replies \cap Real(done[k].rest) = {}

(* queue is what waits to be written, later are replies nobody has made.   *)
Once(queue, later) ==
  /\ NoRepeat(received) /\ NoRepeat(queue)
  /\ Apart(reactor, posted)
  /\ Away(Real(received), reactor, posted)
  /\ Away(Real(queue) \cup later, reactor, posted)
  /\ (Real(queue) \cup later) \cap Real(received) = {}
  /\ later \cap Real(queue) = {}

(* An empty buffer repeats nothing. *)
LEMMA EmptyOnce == NoRepeat(<<>>) /\ Real(<<>>) = {}
BY DEF NoRepeat, Real

(* A buffer written over repeats nothing: no reply is left in it. *)
LEMMA OverwrittenOnce ==
  ASSUME NEW s \in Seq(Units)
  PROVE  NoRepeat(Overwrite(s)) /\ Real(Overwrite(s)) = {}
BY OverwriteFacts DEF NoRepeat, Real

(* Two buffers without a repetition and without a reply in common make one without a
   repetition. *)
LEMMA ConcatOnce ==
  ASSUME NEW s \in Seq(Units), NEW t \in Seq(Units),
         NoRepeat(s), NoRepeat(t), Real(s) \cap Real(t) = {}
  PROVE  NoRepeat(s \o t) /\ Real(s \o t) = Real(s) \cup Real(t)
<1>1. /\ DOMAIN s = 1 .. Len(s) /\ DOMAIN t = 1 .. Len(t) /\ Len(s) \in Nat /\ Len(t) \in Nat
      /\ DOMAIN (s \o t) = 1 .. (Len(s) + Len(t))
      /\ \A i \in 1 .. (Len(s) + Len(t)) :
            (s \o t)[i] = IF i <= Len(s) THEN s[i] ELSE t[i - Len(s)]
  BY ConcatProperties, LenProperties
<1>2. Real(s \o t) = Real(s) \cup Real(t)
  <2>1. ASSUME NEW x \in Real(s \o t) PROVE x \in Real(s) \cup Real(t)
    BY <1>1 DEF Real
  <2>2. ASSUME NEW x \in Real(s) PROVE x \in Real(s \o t)
    BY <1>1 DEF Real
  <2>3. ASSUME NEW x \in Real(t) PROVE x \in Real(s \o t)
    <3>1. PICK i \in 1 .. Len(t) : x = t[i] /\ x # Garbage
      BY <1>1 DEF Real
    <3>2. PICK j \in 1 .. (Len(s) + Len(t)) : j = Len(s) + i
      BY <1>1
    <3>3. (s \o t)[j] = x
      BY <1>1, <3>1, <3>2
    <3> QED BY <1>1, <3>1, <3>3 DEF Real
  <2> QED BY <2>1, <2>2, <2>3
<1>3. ASSUME NEW i \in 1 .. (Len(s) + Len(t)), NEW j \in 1 .. (Len(s) + Len(t)),
             i < j, (s \o t)[i] = (s \o t)[j]
      PROVE  (s \o t)[i] = Garbage
  <2>1. CASE j <= Len(s)
    BY <1>1, <1>3, <2>1 DEF NoRepeat
  <2>2. CASE i > Len(s)
    <3>1. /\ i - Len(s) \in DOMAIN t /\ j - Len(s) \in DOMAIN t /\ i - Len(s) < j - Len(s)
          /\ (s \o t)[i] = t[i - Len(s)] /\ (s \o t)[j] = t[j - Len(s)]
      BY <1>1, <1>3, <2>2
    <3> QED BY <1>3, <3>1 DEF NoRepeat
  <2>3. CASE i <= Len(s) /\ j > Len(s)
    <3>1. /\ i \in DOMAIN s /\ j - Len(s) \in DOMAIN t
          /\ (s \o t)[i] = s[i] /\ (s \o t)[j] = t[j - Len(s)]
      BY <1>1, <1>3, <2>3
    <3>2. s[i] # Garbage => s[i] \in Real(s) /\ t[j - Len(s)] \in Real(t)
      BY <1>3, <3>1 DEF Real
    <3> QED BY <1>3, <3>1, <3>2
  <2> QED BY <1>1, <2>1, <2>2, <2>3
<1> QED BY <1>1, <1>2, <1>3 DEF NoRepeat

(* A partial write cuts a buffer into two without a reply in common. *)
LEMMA SplitOnce ==
  ASSUME NEW s \in Seq(Units), NEW n \in 1 .. Len(s), NoRepeat(s)
  PROVE  LET first == SubSeq(s, 1, n)
             rest == SubSeq(s, n + 1, Len(s))
         IN  /\ NoRepeat(first) /\ NoRepeat(rest)
             /\ Real(first) \subseteq Real(s) /\ Real(rest) \subseteq Real(s)
             /\ Real(first) \cap Real(rest) = {}
<1> DEFINE first == SubSeq(s, 1, n)
           rest == SubSeq(s, n + 1, Len(s))
<1>1. /\ Len(s) \in Nat /\ DOMAIN s = 1 .. Len(s)
      /\ DOMAIN first = 1 .. n /\ \A i \in 1 .. n : first[i] = s[i]
      /\ DOMAIN rest = 1 .. (Len(s) - n) /\ \A i \in 1 .. (Len(s) - n) : rest[i] = s[n + i]
  BY LenProperties
<1> HIDE DEF first, rest
<1>2. NoRepeat(first) /\ Real(first) \subseteq Real(s)
  BY <1>1 DEF NoRepeat, Real
<1>3. ASSUME NEW i \in DOMAIN rest PROVE n + i \in DOMAIN s /\ rest[i] = s[n + i]
  BY <1>1
<1>4. NoRepeat(rest)
  <2>1. SUFFICES ASSUME NEW i \in DOMAIN rest, NEW j \in DOMAIN rest, i < j, rest[i] = rest[j]
                 PROVE  rest[i] = Garbage
    BY DEF NoRepeat
  <2>2. n + i < n + j
    BY <1>1, <2>1
  <2> QED BY <1>3, <2>1, <2>2 DEF NoRepeat
<1>5. Real(rest) \subseteq Real(s)
  BY <1>3 DEF Real
<1>6. Real(first) \cap Real(rest) = {}
  <2>1. SUFFICES ASSUME NEW x, x \in Real(first), x \in Real(rest) PROVE FALSE
    OBVIOUS
  <2>2. PICK i \in DOMAIN first : x = first[i] /\ x # Garbage
    BY <2>1 DEF Real
  <2>3. PICK j \in DOMAIN rest : x = rest[j]
    BY <2>1 DEF Real
  <2>4. i \in DOMAIN s /\ n + j \in DOMAIN s /\ i < n + j /\ s[i] = s[n + j] /\ s[i] # Garbage
    <3>1. i \in 1 .. n /\ j \in 1 .. (Len(s) - n) /\ n \in Nat
      BY <1>1
    <3>2. i \in 1 .. Len(s) /\ n + j \in 1 .. Len(s) /\ i < n + j
      BY <1>1, <3>1
    <3>3. first[i] = s[i] /\ rest[j] = s[n + j]
      BY <1>1, <3>1
    <3> QED BY <1>1, <2>2, <2>3, <3>2, <3>3
  <2> QED BY <2>4 DEF NoRepeat
<1> QED BY <1>2, <1>4, <1>5, <1>6 DEF first, rest

(* What appending does, position by position. *)
LEMMA AppendedFacts ==
  ASSUME NEW S, NEW s \in Seq(S), NEW e \in S
  PROVE  /\ DOMAIN Append(s, e) = DOMAIN s \cup {Len(s) + 1} /\ Len(s) + 1 \notin DOMAIN s
         /\ \A i \in DOMAIN s : Append(s, e)[i] = s[i]
         /\ Append(s, e)[Len(s) + 1] = e
<1>1. Len(s) \in Nat /\ DOMAIN s = 1 .. Len(s)
  BY LenProperties
<1>2. DOMAIN Append(s, e) = 1 .. (Len(s) + 1)
  BY AppendProperties, LenProperties
<1> QED BY <1>1, <1>2, AppendProperties

(* The rest of a write whose first part was taken, and its completion      *)
LEMMA RestAppended ==
  ASSUME NEW waiting, NEW done \in Seq(Writes), NEW w \in Writes,
         NoRepeat(w.rest), Apart(waiting, done), Away(Real(w.rest), waiting, done)
  PROVE  /\ Apart(waiting, Append(done, w))
         /\ \A X : X \cap Real(w.rest) = {} /\ Away(X, waiting, done)
                  => Away(X, waiting, Append(done, w))
<1>1. /\ DOMAIN Append(done, w) = DOMAIN done \cup {Len(done) + 1}
      /\ Len(done) + 1 \notin DOMAIN done
      /\ \A i \in DOMAIN done : Append(done, w)[i] = done[i]
      /\ Append(done, w)[Len(done) + 1] = w
  BY AppendedFacts
<1> DEFINE p == Append(done, w)
<1> HIDE DEF p
<1>2. /\ DOMAIN p = DOMAIN done \cup {Len(done) + 1}
      /\ \A i \in DOMAIN p : p[i] = w \/ (i \in DOMAIN done /\ p[i] = done[i])
      /\ \A i \in DOMAIN p : i \notin DOMAIN done => i = Len(done) + 1 /\ p[i] = w
      /\ \A i \in DOMAIN done : p[i] = done[i]
  BY <1>1 DEF p
<1>3. ASSUME NEW k \in DOMAIN p, NEW l \in DOMAIN p, k # l
      PROVE  Real(p[k].rest) \cap Real(p[l].rest) = {}
  <2>1. CASE k \in DOMAIN done /\ l \in DOMAIN done
    BY <1>2, <1>3, <2>1 DEF Apart
  <2>2. CASE k \notin DOMAIN done /\ l \in DOMAIN done
    BY <1>2, <2>2 DEF Away
  <2>3. CASE k \in DOMAIN done /\ l \notin DOMAIN done
    BY <1>2, <2>3 DEF Away
  <2> QED BY <1>2, <1>3, <2>1, <2>2, <2>3
<1>4. Apart(waiting, p)
  BY <1>2, <1>3 DEF Apart, Away
<1>5. ASSUME NEW X, X \cap Real(w.rest) = {}, Away(X, waiting, done)
      PROVE  Away(X, waiting, p)
  BY <1>2, <1>5 DEF Away
<1> QED BY <1>4, <1>5 DEF p

(* A piece that goes to wait for the socket                                *)
LEMMA WriteAppended ==
  ASSUME NEW waiting \in Seq(Seq(Units)), NEW done, NEW data \in Seq(Units),
         NoRepeat(data), Apart(waiting, done), Away(Real(data), waiting, done)
  PROVE  /\ Apart(Append(waiting, data), done)
         /\ \A X : X \cap Real(data) = {} /\ Away(X, waiting, done)
                  => Away(X, Append(waiting, data), done)
<1>1. /\ DOMAIN Append(waiting, data) = DOMAIN waiting \cup {Len(waiting) + 1}
      /\ Len(waiting) + 1 \notin DOMAIN waiting
      /\ \A i \in DOMAIN waiting : Append(waiting, data)[i] = waiting[i]
      /\ Append(waiting, data)[Len(waiting) + 1] = data
  BY AppendedFacts
<1> DEFINE r == Append(waiting, data)
<1> HIDE DEF r
<1>2. /\ DOMAIN r = DOMAIN waiting \cup {Len(waiting) + 1}
      /\ \A i \in DOMAIN r : r[i] = data \/ (i \in DOMAIN waiting /\ r[i] = waiting[i])
      /\ \A i \in DOMAIN r : i \notin DOMAIN waiting => i = Len(waiting) + 1 /\ r[i] = data
      /\ \A i \in DOMAIN waiting : r[i] = waiting[i]
  BY <1>1 DEF r
<1>3. ASSUME NEW k \in DOMAIN r, NEW l \in DOMAIN r, k # l
      PROVE  Real(r[k]) \cap Real(r[l]) = {}
  <2>1. CASE k \in DOMAIN waiting /\ l \in DOMAIN waiting
    BY <1>2, <1>3, <2>1 DEF Apart
  <2>2. CASE k \notin DOMAIN waiting /\ l \in DOMAIN waiting
    BY <1>2, <2>2 DEF Away
  <2>3. CASE k \in DOMAIN waiting /\ l \notin DOMAIN waiting
    BY <1>2, <2>3 DEF Away
  <2> QED BY <1>2, <1>3, <2>1, <2>2, <2>3
<1>4. Apart(r, done)
  BY <1>2, <1>3 DEF Apart, Away
<1>5. ASSUME NEW X, X \cap Real(data) = {}, Away(X, waiting, done)
      PROVE  Away(X, r, done)
  BY <1>2, <1>5 DEF Away
<1> QED BY <1>4, <1>5 DEF r

(* The step that gives a piece of data away gives no part of it twice.     *)
LEMMA MovedOnce ==
  ASSUME received \in Seq(Units), NEW data \in Seq(Units),
         NEW waiting \in Seq(Seq(Units)), NEW done \in Seq(Writes),
         Moved(data, waiting, done),
         NoRepeat(received), NoRepeat(data), Apart(waiting, done),
         Away(Real(received), waiting, done), Away(Real(data), waiting, done),
         Real(received) \cap Real(data) = {},
         NEW X, X \cap Real(received) = {}, X \cap Real(data) = {}, Away(X, waiting, done)
  PROVE  /\ NoRepeat(received') /\ Apart(reactor', posted')
         /\ Away(Real(received'), reactor', posted')
         /\ X \cap Real(received') = {} /\ Away(X, reactor', posted')
<1>1. CASE reactor' = Append(waiting, data) /\ posted' = done /\ UNCHANGED received
  BY <1>1, WriteAppended
<1>2. CASE /\ reactor' = waiting
           /\ \E n \in 1 .. Len(data) :
                /\ received' = received \o SubSeq(data, 1, n)
                /\ posted' = Append(done, [rest |-> SubSeq(data, n + 1, Len(data)), error |-> FALSE])
  <2>1. PICK n \in 1 .. Len(data) :
                /\ received' = received \o SubSeq(data, 1, n)
                /\ posted' = Append(done, [rest |-> SubSeq(data, n + 1, Len(data)), error |-> FALSE])
    BY <1>2
  <2> DEFINE first == SubSeq(data, 1, n)
             rest == SubSeq(data, n + 1, Len(data))
             w == [rest |-> rest, error |-> FALSE]
  <2>2. /\ first \in Seq(Units) /\ rest \in Seq(Units)
        /\ NoRepeat(first) /\ NoRepeat(rest)
        /\ Real(first) \subseteq Real(data) /\ Real(rest) \subseteq Real(data)
        /\ Real(first) \cap Real(rest) = {}
    BY SplitFacts, SplitOnce
  <2>3. received' = received \o first /\ posted' = Append(done, w) /\ reactor' = waiting
    BY <1>2, <2>1
  <2>4. w \in Writes /\ w.rest = rest
    BY <2>2 DEF Writes
  <2> HIDE DEF first, rest, w
  <2>5. NoRepeat(received') /\ Real(received') = Real(received) \cup Real(first)
    BY <2>2, <2>3, ConcatOnce
  <2>6. /\ Away(Real(rest), waiting, done) /\ Away(Real(received'), waiting, done)
    BY <2>2, <2>5 DEF Away
  <2>7. /\ Apart(reactor', posted')
        /\ \A Y : Y \cap Real(rest) = {} /\ Away(Y, waiting, done) => Away(Y, reactor', posted')
    BY <2>2, <2>3, <2>4, <2>6, RestAppended
  <2>8. X \cap Real(received') = {} /\ X \cap Real(rest) = {} /\ Real(received') \cap Real(rest) = {}
    BY <2>2, <2>5
  <2> QED BY <2>5, <2>6, <2>7, <2>8
<1>3. CASE /\ posted' = Append(done, [rest |-> data, error |-> TRUE])
           /\ reactor' = waiting /\ UNCHANGED received
  <2> DEFINE w == [rest |-> data, error |-> TRUE]
  <2>1. w \in Writes /\ w.rest = data
    BY DEF Writes
  <2> HIDE DEF w
  <2>2. /\ Apart(waiting, Append(done, w))
        /\ \A Y : Y \cap Real(data) = {} /\ Away(Y, waiting, done) => Away(Y, waiting, Append(done, w))
    BY <2>1, RestAppended
  <2> QED BY <1>3, <2>2 DEF w
<1> QED BY <1>1, <1>2, <1>3 DEF Moved

-----------------------------------------------------------------------------
(* What each phase has left of the output: nothing before the handshake is *)
(* answered, the handshake until it is written, no byte of a reply after.  *)
PhaseOutput ==
  /\ phase \in {"accepting", "C0C1", "rejected"} =>
       /\ write_queue_ = <<>> /\ reply_streambuf_ = <<>>
       /\ reactor = <<>> /\ posted = <<>> /\ received = <<>> /\ pushed = <<>>
  /\ phase = "S0S1S2" => write_queue_ = <<>> /\ reply_streambuf_ = <<Handshake>>
  /\ phase \in {"C2", "open", "parsing"} => reply_streambuf_ = <<>>

(* What a step may do with what is meant for the client: nothing, keep it  *)
(* in the queue or write the queue, write the handshake, go on with a      *)
(* write or end it.  (The kernel's step is Writable.)                      *)
LeavesOutput ==
  /\ UNCHANGED <<write_queue_, reactor, posted, received, overlapped, pushed>>
  /\ commands' \in {commands, commands + 1} /\ (disconnected => disconnected')

QueuesOrWrites(queue) ==
  \/ write_queue_' = queue /\ UNCHANGED <<reactor, posted, received, overlapped>>
  \/ queue # <<>> /\ AsyncWrite(queue) /\ write_queue_' = <<>>

Distinct(names) == \A i, j \in DOMAIN names : names[i] = names[j] => i = j

Answers(names) ==
  /\ Receives /\ names \in Seq(ReplyNames) /\ Distinct(names)
  /\ commands' = commands + 1 /\ pushed' = pushed \o Queued(names)
  /\ QueuesOrWrites(write_queue_ \o Queued(names))
  /\ UNCHANGED disconnected

FlushesQueue ==
  QueuesOrWrites(write_queue_) /\ UNCHANGED <<commands, pushed, disconnected>>

WritesHandshake ==
  /\ write_queue_ = <<>> /\ reactor = <<>> /\ posted = <<>> /\ received = <<>>
  /\ AsyncWrite(<<Handshake>>) /\ pushed' = <<Handshake>>
  /\ UNCHANGED <<write_queue_, commands, disconnected>>

GoesOn ==
  /\ posted # <<>> /\ ~Head(posted).error /\ Head(posted).rest # <<>>
  /\ AsyncWriteSome(Head(posted).rest, reactor, Tail(posted))
  /\ UNCHANGED <<write_queue_, overlapped, pushed, commands, disconnected>>

Completes ==
  /\ posted # <<>> /\ posted' = Tail(posted)
  /\ Head(posted).error \/ Head(posted).rest = <<>>
  /\ IF Head(posted).error THEN disconnected' = TRUE ELSE UNCHANGED disconnected
  /\ UNCHANGED <<write_queue_, overlapped, pushed, commands, reactor, received>>

OutputStep ==
  \/ LeavesOutput \/ FlushesQueue \/ WritesHandshake \/ GoesOn \/ Completes \/ Writable
  \/ \E names \in Seq(ReplyNames) : Answers(names)

(* After the handshake the buffer is empty whenever a write begins, and    *)
(* all of it is consumed.                                                  *)
LEMMA WriteFromEmpty ==
  ASSUME NEW queue \in Seq(Replies), WriteMessage(queue), reply_streambuf_ = <<>> \/ queue = <<>>
  PROVE  /\ QueuesOrWrites(queue) /\ write_queue_' = <<>>
         /\ reply_streambuf_' = reply_streambuf_
<1>1. CASE queue = <<>>
  BY <1>1 DEF WriteMessage, QueuesOrWrites
<1>2. CASE queue # <<>>
  <2>1. reply_streambuf_ \o queue = queue
    BY <1>2, ConcatEmptySeq
  <2>2. Consume(queue, Len(queue)) = <<>>
    BY DEF Consume
  <2> QED BY <1>2, <2>1, <2>2 DEF WriteMessage, QueuesOrWrites
<1> QED BY <1>1, <1>2

(* No command is answered with the same reply twice. *)
LEMMA NamesDistinct ==
  /\ Distinct(<<"SimpleResult">>) /\ Distinct(<<"SimpleResult", "OnFCPublish">>)
  /\ Distinct(<<"PublishStart">>) /\ Distinct(<<"Acknowledgement">>) /\ Distinct(PlayReplies)
  /\ Distinct(<<"WindowAcknowledgementSize", "SetPeerBandwidth", "StreamBegin", "ConnectResult">>)
BY DEF Distinct, PlayReplies

(* Acknowledging answers with one reply, and handling a command either leaves the output
   alone or answers with one of the lists of replies. *)
LEMMA RequestOutput ==
  ASSUME TypeOK, PhaseOutput, Acknowledge \/ HandleRequest
  PROVE  (LeavesOutput \/ \E names \in Seq(ReplyNames) : Answers(names)) /\ PhaseOutput'
<1>1. phase = "parsing" /\ UNCHANGED <<phase, disconnected>> /\ Receives
      /\ commands' = commands + 1 /\ reply_streambuf_ = <<>>
  BY DEF Acknowledge, HandleRequest, HandleConnectMessage, HandleReleaseStream, HandleFCPublish,
         HandleFCUnpublish, HandleCreateStream, HandleDeleteStream, HandlePublish, HandlePlay,
         HandleUnanswered, Answer, Push, Receives, link, PhaseOutput
<1>2. ASSUME NEW names \in Seq(ReplyNames) PROVE write_queue_ \o Queued(names) \in Seq(Replies)
  <2>1. Queued(names) \in Seq(Replies) /\ write_queue_ \in Seq(Replies)
    BY <1>1, QueuedType DEF TypeOK
  <2> QED BY <2>1, ConcatFacts
<1>3. ASSUME NEW names \in Seq(ReplyNames), Distinct(names), Answer(names)
      PROVE  Answers(names) /\ reply_streambuf_' = <<>>
  <2>1. pushed' = pushed \o Queued(names) /\ SignalSendMessage(write_queue_ \o Queued(names))
    BY <1>3 DEF Answer, Push
  <2>2. QueuesOrWrites(write_queue_ \o Queued(names)) /\ reply_streambuf_' = <<>>
    BY <1>1, <1>2, <2>1, WriteFromEmpty DEF SignalSendMessage, QueuesOrWrites
  <2> QED BY <1>1, <1>3, <2>1, <2>2 DEF Answers
<1>4. CASE \/ HandleConnectMessage \/ HandleReleaseStream \/ HandleFCPublish
           \/ HandleCreateStream \/ HandleDeleteStream \/ HandlePublish \/ Acknowledge
  <2>1. \E names \in Seq(ReplyNames) : Distinct(names) /\ Answer(names)
    BY <1>4, NamesType, NamesDistinct DEF HandleConnectMessage, HandleReleaseStream,
         HandleFCPublish, HandleCreateStream, HandleDeleteStream, HandlePublish, Acknowledge
  <2> QED BY <1>1, <1>3, <2>1 DEF PhaseOutput
<1>5. ASSUME NEW names \in Seq(ReplyNames), Distinct(names), Push(names),
             write_queue_' = write_queue_ \o Queued(names),
             UNCHANGED <<reply_streambuf_, reactor, posted, received, overlapped>>
      PROVE  Answers(names) /\ PhaseOutput'
  BY <1>1, <1>5 DEF Push, Answers, QueuesOrWrites, PhaseOutput
<1>6. CASE HandleFCUnpublish
  BY <1>5, <1>6, NamesType, NamesDistinct DEF HandleFCUnpublish
<1>7. CASE HandlePlay
  BY <1>5, <1>7, NamesType, NamesDistinct DEF HandlePlay
<1>8. CASE HandleUnanswered
  <2>1. pushed' = pushed /\ UNCHANGED output
    <3>1. Queued(<<>>) = <<>>
      BY DEF Queued
    <3>2. pushed \in Seq(Units)
      BY DEF TypeOK
    <3> QED BY <1>8, <3>1, <3>2, ConcatEmptySeq DEF HandleUnanswered, Push
  <2> QED BY <1>1, <2>1 DEF LeavesOutput, PhaseOutput, output
<1> QED BY <1>4, <1>6, <1>7, <1>8 DEF HandleRequest

(* Every step is one of those.                                             *)
LEMMA NextOutput == TypeOK /\ PhaseOutput /\ [Next]_vars => OutputStep /\ PhaseOutput'
<1> SUFFICES ASSUME TypeOK, PhaseOutput, [Next]_vars PROVE OutputStep /\ PhaseOutput'
  OBVIOUS
<1>0. disconnected \in BOOLEAN /\ commands \in Nat
  BY DEF TypeOK
<1>1. CASE HandleAccept
  BY <1>1 DEF HandleAccept, LeavesOutput, OutputStep, PhaseOutput, output, link
<1>2. CASE HandleReadHandshakeC0C1
  <2>1. /\ write_queue_ = <<>> /\ reply_streambuf_ = <<>> /\ reactor = <<>> /\ posted = <<>>
        /\ received = <<>> /\ pushed = <<>> /\ UNCHANGED <<commands, disconnected>>
    BY <1>2 DEF HandleReadHandshakeC0C1, PhaseOutput, link
  <2>2. CASE phase' = "rejected" /\ UNCHANGED <<output, pushed>>
    BY <2>1, <2>2 DEF LeavesOutput, OutputStep, PhaseOutput, output
  <2>3. CASE /\ phase' = "S0S1S2" /\ pushed' = <<Handshake>>
             /\ reply_streambuf_' = <<Handshake>>
             /\ AsyncWrite(<<Handshake>>) /\ UNCHANGED write_queue_
    BY <2>1, <2>3 DEF WritesHandshake, OutputStep, PhaseOutput
  <2> QED BY <1>2, <2>2, <2>3 DEF HandleReadHandshakeC0C1
<1>3. CASE HandleReadHandshakeC2
  BY <1>3 DEF HandleReadHandshakeC2, LeavesOutput, OutputStep, PhaseOutput, output, link
<1>4. CASE HandleRead
  BY <1>4 DEF HandleRead, LeavesOutput, OutputStep, PhaseOutput, output, link
<1>5. CASE Acknowledge \/ HandleRequest
  BY <1>5, RequestOutput DEF OutputStep
<1>6. CASE ParseFails
  BY <1>6 DEF ParseFails, Receives, Disconnect, LeavesOutput, OutputStep, PhaseOutput, output
<1>7. CASE ReadAgain
  BY <1>7 DEF ReadAgain, LeavesOutput, OutputStep, PhaseOutput, output, link
<1>8. CASE ReadFails
  BY <1>8 DEF ReadFails, Disconnect, LeavesOutput, OutputStep, PhaseOutput, output
<1>9. CASE HandleSendTimer
  <2>1. WriteMessage(write_queue_) /\ UNCHANGED <<phase, commands, pushed, disconnected>>
    BY <1>9 DEF HandleSendTimer, link
  <2>2. /\ write_queue_ \in Seq(Replies)
        /\ phase \in {"accepting", "C0C1", "rejected", "S0S1S2", "C2", "open", "parsing"}
    BY DEF TypeOK
  <2>3. reply_streambuf_ = <<>> \/ write_queue_ = <<>>
    BY <2>2 DEF PhaseOutput
  <2>4. /\ QueuesOrWrites(write_queue_) /\ write_queue_' = <<>>
        /\ reply_streambuf_' = reply_streambuf_
    BY <2>1, <2>2, <2>3, WriteFromEmpty
  <2>5. OutputStep
    BY <2>1, <2>4 DEF FlushesQueue, OutputStep
  <2>6. phase \in {"accepting", "C0C1", "rejected"} => UNCHANGED <<reactor, posted, received>>
    BY <2>4 DEF QueuesOrWrites, PhaseOutput
  <2> QED BY <2>1, <2>4, <2>5, <2>6 DEF PhaseOutput
<1>10. CASE RunCompletion
  <2>1. /\ posted # <<>> /\ phase \notin {"accepting", "C0C1", "rejected"}
        /\ UNCHANGED <<write_queue_, overlapped, pushed, commands>>
    BY <1>10 DEF RunCompletion, ContinueWrite, HandleS0S1S2Write, HandleWrite, PhaseOutput
  <2>2. CASE ContinueWrite
    BY <2>1, <2>2 DEF ContinueWrite, GoesOn, OutputStep, PhaseOutput, link
  <2>3. CASE HandleS0S1S2Write
    <3>1. reply_streambuf_ = <<Handshake>>
      BY <2>3 DEF HandleS0S1S2Write, PhaseOutput
    <3>2. Consume(reply_streambuf_, 1) = <<>>
      BY <3>1 DEF Consume
    <3>3. Completes
      BY <2>1, <2>3 DEF HandleS0S1S2Write, Completes, Disconnect, link
    <3>4. PhaseOutput'
      BY <2>1, <2>3, <3>2 DEF HandleS0S1S2Write, PhaseOutput
    <3> QED BY <3>3, <3>4 DEF OutputStep
  <2>4. CASE HandleWrite
    BY <2>1, <2>4 DEF HandleWrite, Completes, OutputStep, PhaseOutput, Disconnect, link
  <2> QED BY <1>10, <2>2, <2>3, <2>4 DEF RunCompletion
<1>11. CASE Writable
  BY <1>11 DEF Writable, OutputStep, PhaseOutput
<1>12. CASE ClientCloses
  BY <1>0, <1>12 DEF ClientCloses, LeavesOutput, OutputStep, PhaseOutput, output
<1>13. CASE HandleStop
  BY <1>0, <1>13 DEF HandleStop, LeavesOutput, OutputStep, PhaseOutput, output
<1>14. CASE UNCHANGED vars
  BY <1>0, <1>14 DEF vars, LeavesOutput, OutputStep, PhaseOutput, output, link
<1> QED BY <1>1, <1>2, <1>3, <1>4, <1>5, <1>6, <1>7, <1>8, <1>9, <1>10, <1>11, <1>12,
           <1>13, <1>14 DEF Next, Ended

-----------------------------------------------------------------------------
(* Replies to commands that have not been handled                          *)
Later(handled) == {u \in Units : u[1] > handled}

(* A write that begins, over pending ones or not                           *)
LEMMA WriteOnce ==
  ASSUME TypeOK, NEW queue \in Seq(Units), NEW later, Once(queue, later), AsyncWrite(queue)
  PROVE  /\ NoRepeat(received') /\ Apart(reactor', posted')
         /\ Away(Real(received'), reactor', posted')
         /\ later \cap Real(received') = {} /\ Away(later, reactor', posted')
<1>1. /\ received \in Seq(Units) /\ reactor \in Seq(Seq(Units)) /\ posted \in Seq(Writes)
  BY DEF TypeOK
<1>2. /\ NoRepeat(received) /\ NoRepeat(queue)
      /\ Real(received) \cap Real(queue) = {} /\ later \cap Real(received) = {}
      /\ later \cap Real(queue) = {}
  BY DEF Once
<1>3. CASE AsyncWriteSome(queue, reactor, posted)
  <2>1. Moved(queue, reactor, posted)
    BY <1>3, SomeMoved
  <2>2. /\ Apart(reactor, posted) /\ Away(Real(received), reactor, posted)
        /\ Away(Real(queue), reactor, posted) /\ Away(later, reactor, posted)
    BY DEF Once, Away
  <2> QED BY <1>1, <1>2, <2>1, <2>2, MovedOnce
<1>4. CASE AsyncWriteSome(queue, OverwrittenWrites(reactor), OverwrittenRests(posted))
  <2> DEFINE r == OverwrittenWrites(reactor)
             p == OverwrittenRests(posted)
  <2>1. Moved(queue, r, p)
    BY <1>4, SomeMoved
  <2>2. r \in Seq(Seq(Units)) /\ p \in Seq(Writes)
    BY <1>1, OverwrittenFacts
  <2>3. ASSUME NEW k \in DOMAIN r PROVE NoRepeat(r[k]) /\ Real(r[k]) = {}
    <3>1. k \in DOMAIN reactor /\ r[k] = Overwrite(reactor[k])
      BY DEF OverwrittenWrites
    <3>2. reactor[k] \in Seq(Units)
      BY <1>1, <3>1, LenProperties
    <3> QED BY <3>1, <3>2, OverwrittenOnce
  <2>4. ASSUME NEW k \in DOMAIN p PROVE NoRepeat(p[k].rest) /\ Real(p[k].rest) = {}
    <3>1. k \in DOMAIN posted /\ p[k].rest = Overwrite(posted[k].rest)
      BY <1>1, OverwrittenFacts
    <3>2. posted[k] \in Writes
      BY <1>1, <3>1, LenProperties
    <3>3. posted[k].rest \in Seq(Units)
      BY <3>2 DEF Writes
    <3> QED BY <3>1, <3>3, OverwrittenOnce
  <2> HIDE DEF r, p
  <2>5. Apart(r, p) /\ \A X : Away(X, r, p)
    BY <2>3, <2>4 DEF Apart, Away
  <2> QED BY <1>1, <1>2, <2>1, <2>2, <2>5, MovedOnce
<1> QED BY <1>3, <1>4 DEF AsyncWrite, OverwrittenWrites, OverwrittenRests

(* A queue written out, over an unfinished write or not, leaves no reply in two places. *)
LEMMA QueueOnce ==
  ASSUME TypeOK, NEW queue \in Seq(Units), NEW later, Once(queue, later), QueuesOrWrites(queue)
  PROVE  Once(write_queue_, later)'
<1>1. CASE write_queue_' = queue /\ UNCHANGED <<reactor, posted, received, overlapped>>
  BY <1>1 DEF Once
<1>2. CASE AsyncWrite(queue) /\ write_queue_' = <<>>
  BY <1>2, WriteOnce, EmptyOnce DEF Once
<1> QED BY <1>1, <1>2 DEF QueuesOrWrites

(* The replies of a command are new: nothing made earlier equals them.     *)
LEMMA AnswersOnce ==
  ASSUME TypeOK, Once(write_queue_, Later(commands)), NEW names \in Seq(ReplyNames), Answers(names)
  PROVE  /\ write_queue_ \o Queued(names) \in Seq(Units)
         /\ Once(write_queue_ \o Queued(names), Later(commands + 1))
<1> DEFINE new == Queued(names)
<1>1. /\ new \in Seq(Replies) /\ Len(new) = Len(names)
      /\ \A i \in 1 .. Len(names) : new[i] = <<commands + 1, names[i]>>
  BY QueuedType DEF Answers, TypeOK
<1>2. write_queue_ \in Seq(Units) /\ new \in Seq(Units) /\ commands \in Nat
  BY <1>1, UnitsFacts DEF TypeOK
<1>3. DOMAIN new = 1 .. Len(names) /\ DOMAIN names = 1 .. Len(names) /\ Len(names) \in Nat
  BY <1>1, <1>2, LenProperties
<1> HIDE DEF new
<1>4. NoRepeat(new)
  BY <1>1, <1>3 DEF NoRepeat, Answers, Distinct
<1>5. ASSUME NEW x \in Real(new) PROVE x \in Later(commands) /\ x \notin Later(commands + 1)
  <2>1. PICK i \in 1 .. Len(names) : x = <<commands + 1, names[i]>> /\ x \in Units
    <3>1. PICK i \in 1 .. Len(names) : x = new[i]
      BY <1>3 DEF Real
    <3>2. new[i] \in Units
      BY <1>1, <1>2, <3>1, ElementOfSeq
    <3> QED BY <1>1, <3>1, <3>2
  <2>2. x[1] = commands + 1
    BY <2>1
  <2> QED BY <1>2, <2>1, <2>2 DEF Later
<1>6. Later(commands + 1) \subseteq Later(commands)
  <2>1. ASSUME NEW u \in Units PROVE u[1] \in Nat
    BY ConnectionAssumption DEF Units, Replies, Handshake, Garbage
  <2> QED BY <1>2, <2>1 DEF Later
<1>7. /\ NoRepeat(write_queue_ \o new)
      /\ Real(write_queue_ \o new) = Real(write_queue_) \cup Real(new)
  BY <1>2, <1>4, <1>5, ConcatOnce DEF Once
<1>8. (Real(write_queue_ \o new) \cup Later(commands + 1))
        \subseteq (Real(write_queue_) \cup Later(commands))
  BY <1>5, <1>6, <1>7
<1>9. Later(commands + 1) \cap Real(write_queue_ \o new) = {}
  BY <1>5, <1>6, <1>7 DEF Once
<1>10. Once(write_queue_ \o new, Later(commands + 1))
  BY <1>7, <1>8, <1>9 DEF Once, Away
<1> QED BY <1>2, <1>10, ConcatFacts DEF new

(* Every step that touches the output keeps each reply in one place only. *)
LEMMA NextOnce ==
  ASSUME TypeOK, TypeOK', OutputStep, Once(write_queue_, Later(commands))
  PROVE  Once(write_queue_, Later(commands))'
<1>1. /\ received \in Seq(Units) /\ reactor \in Seq(Seq(Units)) /\ posted \in Seq(Writes)
      /\ write_queue_ \in Seq(Units) /\ commands \in Nat
  BY UnitsFacts DEF TypeOK
<1>2. CASE LeavesOutput
  <2>1. Later(commands') \subseteq Later(commands)
    <3>1. ASSUME NEW u \in Units PROVE u[1] \in Nat
      BY ConnectionAssumption DEF Units, Replies, Handshake, Garbage
    <3> QED BY <1>1, <1>2, <3>1 DEF LeavesOutput, Later
  <2> QED BY <1>2, <2>1 DEF LeavesOutput, Once, Away
<1>3. CASE \E names \in Seq(ReplyNames) : Answers(names)
  <2>1. PICK names \in Seq(ReplyNames) : Answers(names)
    BY <1>3
  <2>2. /\ commands' = commands + 1 /\ QueuesOrWrites(write_queue_ \o Queued(names))
    BY <2>1 DEF Answers
  <2> QED BY <2>1, <2>2, AnswersOnce, QueueOnce
<1>4. CASE FlushesQueue
  <2>1. QueuesOrWrites(write_queue_) /\ commands' = commands
    BY <1>4 DEF FlushesQueue
  <2> QED BY <1>1, <2>1, QueueOnce
<1>5. CASE WritesHandshake
  <2> DEFINE hello == <<Handshake>>
  <2>1. hello \in Seq(Units) /\ AsyncWrite(hello) /\ write_queue_' = <<>> /\ commands' = commands
    BY <1>5, UnitsFacts DEF WritesHandshake
  <2>2. NoRepeat(hello) /\ Real(hello) \cap Later(commands) = {}
    BY <1>1 DEF NoRepeat, Real, Later, Handshake
  <2>3. Once(hello, Later(commands))
    BY <1>5, <2>2, EmptyOnce DEF Once, Apart, Away, WritesHandshake
  <2> HIDE DEF hello
  <2>4. /\ NoRepeat(received') /\ Apart(reactor', posted')
        /\ Away(Real(received'), reactor', posted')
        /\ Later(commands) \cap Real(received') = {} /\ Away(Later(commands), reactor', posted')
    BY <2>1, <2>3, WriteOnce
  <2> QED BY <2>1, <2>4, EmptyOnce DEF Once
<1>6. ASSUME NEW data \in Seq(Units), NEW waiting \in Seq(Seq(Units)), NEW done \in Seq(Writes),
             Moved(data, waiting, done), UNCHANGED <<write_queue_, commands>>,
             NoRepeat(data), Apart(waiting, done),
             Away(Real(received), waiting, done), Away(Real(data), waiting, done),
             Away(Real(write_queue_) \cup Later(commands), waiting, done),
             Real(received) \cap Real(data) = {},
             (Real(write_queue_) \cup Later(commands)) \cap Real(data) = {}
      PROVE  Once(write_queue_, Later(commands))'
  <2> DEFINE X == Real(write_queue_) \cup Later(commands)
  <2>1. X \cap Real(received) = {} /\ X \cap Real(data) = {} /\ Away(X, waiting, done)
        /\ NoRepeat(received)
    BY <1>6 DEF Once
  <2>2. X' = X
    BY <1>6
  <2> HIDE DEF X
  <2>3. /\ NoRepeat(received') /\ Apart(reactor', posted')
        /\ Away(Real(received'), reactor', posted')
        /\ X \cap Real(received') = {} /\ Away(X, reactor', posted')
    BY <1>1, <1>6, <2>1, MovedOnce
  <2>4. NoRepeat(write_queue_') /\ Later(commands') \cap Real(write_queue_') = {}
    BY <1>6 DEF Once
  <2> QED BY <2>2, <2>3, <2>4 DEF Once, X
<1>7. ASSUME posted # <<>>
      PROVE  LET data == Head(posted).rest IN
             /\ Head(posted) \in Writes /\ Tail(posted) \in Seq(Writes) /\ data \in Seq(Units)
             /\ NoRepeat(data) /\ Apart(reactor, Tail(posted))
             /\ Away(Real(data), reactor, Tail(posted))
             /\ \A X : Away(X, reactor, posted) =>
                         X \cap Real(data) = {} /\ Away(X, reactor, Tail(posted))
  <2> DEFINE t == Tail(posted)
             d == Head(posted).rest
  <2>1. /\ Head(posted) \in Writes /\ Head(posted) = posted[1] /\ t \in Seq(Writes)
        /\ DOMAIN posted = 1 .. Len(posted) /\ DOMAIN t = 1 .. (Len(posted) - 1)
        /\ Len(posted) \in Nat \ {0}
        /\ \A i \in 1 .. (Len(posted) - 1) : t[i] = posted[i + 1]
    BY <1>1, <1>7, HeadTailProperties, LenProperties
  <2>2. d \in Seq(Units) /\ d = posted[1].rest /\ 1 \in DOMAIN posted
    BY <2>1 DEF Writes
  <2> HIDE DEF t, d
  <2>3. ASSUME NEW i \in DOMAIN t
        PROVE  i + 1 \in DOMAIN posted /\ t[i] = posted[i + 1] /\ i + 1 # 1
    BY <2>1
  <2>4. Apart(reactor, posted)
    BY DEF Once
  <2>5. ASSUME NEW k \in DOMAIN t, NEW l \in DOMAIN t, k # l
        PROVE  Real(t[k].rest) \cap Real(t[l].rest) = {}
    <3>1. k + 1 # l + 1
      BY <2>1, <2>5
    <3> QED BY <2>3, <2>4, <3>1 DEF Apart
  <2>6. NoRepeat(d) /\ Apart(reactor, t)
    BY <2>2, <2>3, <2>4, <2>5 DEF Apart
  <2>7. Away(Real(d), reactor, t)
    BY <2>2, <2>3, <2>4 DEF Apart, Away
  <2>8. ASSUME NEW X, Away(X, reactor, posted)
        PROVE  X \cap Real(d) = {} /\ Away(X, reactor, t)
    BY <2>2, <2>3, <2>8 DEF Away
  <2> QED BY <2>1, <2>2, <2>6, <2>7, <2>8 DEF t, d
<1>8. CASE GoesOn
  <2>1. /\ posted # <<>> /\ Moved(Head(posted).rest, reactor, Tail(posted))
        /\ UNCHANGED <<write_queue_, commands>>
    BY <1>8, SomeMoved DEF GoesOn
  <2>2. /\ Away(Real(received), reactor, posted)
        /\ Away(Real(write_queue_) \cup Later(commands), reactor, posted)
    BY DEF Once
  <2> QED BY <1>1, <1>6, <1>7, <2>1, <2>2
<1>9. CASE Completes
  <2>1. /\ posted # <<>> /\ posted' = Tail(posted)
        /\ UNCHANGED <<write_queue_, commands, reactor, received>>
    BY <1>9 DEF Completes
  <2> QED BY <1>7, <2>1 DEF Once
<1>10. CASE Writable
  <2> DEFINE t == Tail(reactor)
             d == Head(reactor)
  <2>1. reactor # <<>> /\ Moved(d, t, posted) /\ UNCHANGED <<write_queue_, commands>>
    BY <1>10, WritableMoved DEF Writable
  <2>2. /\ d \in Seq(Units) /\ d = reactor[1] /\ t \in Seq(Seq(Units))
        /\ DOMAIN reactor = 1 .. Len(reactor) /\ DOMAIN t = 1 .. (Len(reactor) - 1)
        /\ Len(reactor) \in Nat \ {0}
        /\ \A i \in 1 .. (Len(reactor) - 1) : t[i] = reactor[i + 1]
    BY <1>1, <2>1, HeadTailProperties, LenProperties
  <2> HIDE DEF t, d
  <2>3. ASSUME NEW i \in DOMAIN t
        PROVE  i + 1 \in DOMAIN reactor /\ t[i] = reactor[i + 1] /\ i + 1 # 1
    BY <2>2
  <2>4. Apart(reactor, posted) /\ 1 \in DOMAIN reactor
    BY <2>2 DEF Once
  <2>5. ASSUME NEW k \in DOMAIN t, NEW l \in DOMAIN t, k # l
        PROVE  Real(t[k]) \cap Real(t[l]) = {}
    <3>1. k + 1 # l + 1
      BY <2>2, <2>5
    <3> QED BY <2>3, <2>4, <3>1 DEF Apart
  <2>6. NoRepeat(d) /\ Apart(t, posted)
    BY <2>2, <2>3, <2>4, <2>5 DEF Apart
  <2>7. Away(Real(d), t, posted)
    BY <2>2, <2>3, <2>4 DEF Apart, Away
  <2>8. ASSUME NEW X, Away(X, reactor, posted)
        PROVE  X \cap Real(d) = {} /\ Away(X, t, posted)
    BY <2>2, <2>3, <2>4, <2>8 DEF Away
  <2>9. /\ Away(Real(received), reactor, posted)
        /\ Away(Real(write_queue_) \cup Later(commands), reactor, posted)
    BY DEF Once
  <2> QED BY <1>1, <1>6, <2>1, <2>2, <2>6, <2>7, <2>8, <2>9
<1> QED BY <1>2, <1>3, <1>4, <1>5, <1>8, <1>9, <1>10 DEF OutputStep

-----------------------------------------------------------------------------
(* As long as no write began over another, at most one is under way, and   *)
(* what the socket took, what is under way and what is queued are together *)
(* all that was pushed.  After disconnect the socket takes nothing more.   *)
Settled(done) == \A i \in DOMAIN done : done[i].rest = <<>>

OneRest(done, w) ==
  \E k \in DOMAIN done : /\ done[k].rest = w
                         /\ \A i \in DOMAIN done \ {k} : done[i].rest = <<>>

UnderWay(w) ==
  \/ reactor = <<w>> /\ Settled(posted)
  \/ reactor = <<>> /\ OneRest(posted, w)
  \/ w = <<>> /\ reactor = <<>> /\ Settled(posted)

Contiguous(all, queue) ==
  /\ IsPrefix(received, all)
  /\ ~disconnected =>
       \E w \in Seq(Units) : UnderWay(w) /\ all = received \o (w \o queue)

(* A sequence begins any continuation of it. *)
LEMMA PrefixFacts ==
  ASSUME NEW s \in Seq(Units), NEW t \in Seq(Units)
  PROVE  IsPrefix(s, s \o t) /\ \A u \in Seq(Units) : IsPrefix(u, s) => IsPrefix(u, s \o t)
<1>1. /\ s \o t \in Seq(Units) /\ Len(s) \in Nat /\ Len(t) \in Nat
      /\ Len(s \o t) = Len(s) + Len(t)
      /\ \A i \in 1 .. Len(s) : (s \o t)[i] = s[i]
  BY ConcatProperties, LenProperties
<1>2. ASSUME NEW u \in Seq(Units), Len(u) <= Len(s), SubSeq(u, 1, Len(u)) = SubSeq(s, 1, Len(u))
      PROVE  IsPrefix(u, s \o t)
  <2> DEFINE a == SubSeq(s, 1, Len(u))
             st == s \o t
             b == SubSeq(st, 1, Len(u))
  <2>1. Len(u) \in Nat
    BY LenProperties
  <2>2. \A i \in 1 .. Len(u) : s[i] \in Units /\ st[i] \in Units
    BY <1>1, <1>2, <2>1, ElementOfSeq
  <2>3. /\ a \in Seq(Units) /\ Len(a) = Len(u) /\ \A i \in 1 .. Len(u) : a[i] = s[i]
    BY <2>1, <2>2, SubSeqProperties
  <2>4. /\ b \in Seq(Units) /\ Len(b) = Len(u) /\ \A i \in 1 .. Len(u) : b[i] = st[i]
    <3> HIDE DEF st
    <3> QED BY <2>1, <2>2, SubSeqProperties
  <2> HIDE DEF a, b
  <2>5. a = b
    BY <1>1, <1>2, <2>1, <2>3, <2>4, SeqEqual
  <2>6. Len(u) <= Len(s \o t)
    BY <1>1, <1>2, <2>1
  <2> QED BY <1>2, <2>5, <2>6 DEF IsPrefix, a, b
<1> QED BY <1>1, <1>2 DEF IsPrefix

(* The socket taking bytes of the one write under way moves them from the buffer to what
   was received, in order. *)
LEMMA MovedUnderWay ==
  ASSUME received \in Seq(Units), NEW data \in Seq(Units), NEW done \in Seq(Writes),
         Settled(done), Moved(data, <<>>, done)
  PROVE  \E w \in Seq(Units) : UnderWay(w)' /\ received \o data = received' \o w
<1>1. CASE reactor' = Append(<<>>, data) /\ posted' = done /\ UNCHANGED received
  <2>1. reactor' = <<data>>
    BY <1>1
  <2>2. UnderWay(data)' /\ received \o data = received' \o data
    BY <1>1, <2>1 DEF UnderWay, Settled
  <2> QED BY <2>2
<1>2. CASE /\ reactor' = <<>>
           /\ \E n \in 1 .. Len(data) :
                /\ received' = received \o SubSeq(data, 1, n)
                /\ posted' = Append(done, [rest |-> SubSeq(data, n + 1, Len(data)), error |-> FALSE])
  <2>1. PICK n \in 1 .. Len(data) :
                /\ received' = received \o SubSeq(data, 1, n)
                /\ posted' = Append(done, [rest |-> SubSeq(data, n + 1, Len(data)), error |-> FALSE])
    BY <1>2
  <2> DEFINE first == SubSeq(data, 1, n)
             rest == SubSeq(data, n + 1, Len(data))
             c == [rest |-> rest, error |-> FALSE]
  <2>2. first \in Seq(Units) /\ rest \in Seq(Units)
    BY SplitFacts
  <2>3. first \o rest = data
    <3>1. /\ 1 \in 1 .. (Len(data) + 1) /\ n \in 1 - 1 .. Len(data) /\ Len(data) \in n .. Len(data)
      BY LenProperties
    <3>2. first \o rest = SubSeq(data, 1, Len(data))
      BY <3>1, ConcatAdjacentSubSeq
    <3> QED BY <3>2, SubSeqFull
  <2>4. c \in Writes /\ c.rest = rest
    BY <2>2 DEF Writes
  <2>5. received' = received \o first /\ posted' = Append(done, c)
    BY <2>1
  <2> HIDE DEF first, rest, c
  <2>a. /\ DOMAIN posted' = DOMAIN done \cup {Len(done) + 1}
        /\ \A i \in DOMAIN done : posted'[i] = done[i]
        /\ posted'[Len(done) + 1] = c
    BY <2>4, <2>5, AppendedFacts
  <2>6. OneRest(posted, rest)'
    BY <2>4, <2>a DEF OneRest, Settled
  <2>7. UnderWay(rest)'
    BY <1>2, <2>6 DEF UnderWay
  <2>8. received \o data = received' \o rest
    <3>1. (received \o first) \o rest = received \o (first \o rest)
      BY <2>2
    <3> QED BY <2>3, <2>5, <3>1
  <2> QED BY <2>2, <2>7, <2>8
<1>3. CASE /\ posted' = Append(done, [rest |-> data, error |-> TRUE])
           /\ reactor' = <<>> /\ UNCHANGED received
  <2> DEFINE c == [rest |-> data, error |-> TRUE]
  <2>1. c \in Writes /\ c.rest = data /\ posted' = Append(done, c)
    BY <1>3 DEF Writes
  <2> HIDE DEF c
  <2>a. /\ DOMAIN posted' = DOMAIN done \cup {Len(done) + 1}
        /\ \A i \in DOMAIN done : posted'[i] = done[i]
        /\ posted'[Len(done) + 1] = c
    BY <2>1, AppendedFacts
  <2>2. OneRest(posted, data)'
    BY <2>1, <2>a DEF OneRest, Settled
  <2>3. UnderWay(data)' /\ received \o data = received' \o data
    BY <1>3, <2>2 DEF UnderWay
  <2> QED BY <2>3
<1> QED BY <1>1, <1>2, <1>3 DEF Moved

(* Once the connection is shut down the socket takes nothing more.         *)
LEMMA NothingTaken ==
  ASSUME disconnected, NEW data, NEW waiting, NEW done, Moved(data, waiting, done)
  PROVE  received' = received
BY DEF Moved

(* A step that moves all that was under way                                *)
LEMMA MovedContiguous ==
  ASSUME received \in Seq(Units), received' \in Seq(Units), NEW data \in Seq(Units),
         NEW done \in Seq(Writes), NEW queue \in Seq(Units),
         Settled(done), Moved(data, <<>>, done)
  PROVE  /\ IsPrefix(received', received \o (data \o queue))
         /\ \E w \in Seq(Units) :
              UnderWay(w)' /\ received \o (data \o queue) = received' \o (w \o queue)
<1>1. PICK w \in Seq(Units) : UnderWay(w)' /\ received \o data = received' \o w
  BY MovedUnderWay
<1>2. received \o (data \o queue) = (received \o data) \o queue
  OBVIOUS
<1>3. received' \o (w \o queue) = (received' \o w) \o queue
  OBVIOUS
<1>4. received \o (data \o queue) = received' \o (w \o queue)
  BY <1>1, <1>2, <1>3
<1>5. w \o queue \in Seq(Units)
  BY ConcatFacts
<1> QED BY <1>1, <1>4, <1>5, PrefixFacts

(* While no two writes have overlapped, a queue written out stays the continuation of what
   was sent. *)
LEMMA QueueContiguous ==
  ASSUME TypeOK, TypeOK', ~overlapped, ~overlapped', UNCHANGED disconnected,
         NEW queue \in Seq(Units), NEW all, Contiguous(all, queue), QueuesOrWrites(queue)
  PROVE  /\ IsPrefix(received', all)
         /\ ~disconnected' =>
              \E w \in Seq(Units) : UnderWay(w)' /\ all = received' \o (w \o write_queue_')
<1>1. /\ received \in Seq(Units) /\ received' \in Seq(Units) /\ posted \in Seq(Writes)
      /\ IsPrefix(received, all)
  BY DEF TypeOK, Contiguous
<1>2. CASE write_queue_' = queue /\ UNCHANGED <<reactor, posted, received, overlapped>>
  BY <1>2 DEF Contiguous, UnderWay
<1>3. CASE AsyncWrite(queue) /\ write_queue_' = <<>>
  <2>1. reactor = <<>> /\ ~Unfinished /\ AsyncWriteSome(queue, <<>>, posted)
    BY <1>3 DEF AsyncWrite
  <2>2. Settled(posted) /\ Moved(queue, <<>>, posted)
    BY <2>1, SomeMoved DEF Unfinished, Settled
  <2>3. CASE disconnected
    BY <1>1, <2>2, <2>3, NothingTaken
  <2>4. CASE ~disconnected
    <3>1. PICK w \in Seq(Units) : UnderWay(w) /\ all = received \o (w \o queue)
      BY <2>4 DEF Contiguous
    <3>2. w = <<>>
      BY <2>1, <2>2, <3>1 DEF UnderWay, OneRest, Settled
    <3>3. w \o queue = queue /\ queue \o <<>> = queue /\ <<>> \in Seq(Units)
      BY <3>2, ConcatEmptySeq
    <3>4. /\ IsPrefix(received', received \o (queue \o <<>>))
          /\ \E v \in Seq(Units) :
               UnderWay(v)' /\ received \o (queue \o <<>>) = received' \o (v \o <<>>)
      BY <1>1, <2>2, <3>3, MovedContiguous
    <3>5. all = received \o (queue \o <<>>)
      BY <3>1, <3>3
    <3> QED BY <1>3, <3>4, <3>5
  <2> QED BY <2>3, <2>4
<1> QED BY <1>2, <1>3 DEF QueuesOrWrites

(* More in the queue is more behind what was sent. *)
LEMMA QueueGrows ==
  ASSUME NEW w \in Seq(Units), NEW queue \in Seq(Units), NEW more \in Seq(Units),
         received \in Seq(Units)
  PROVE  (received \o (w \o queue)) \o more = received \o (w \o (queue \o more))
<1>1. w \o queue \in Seq(Units)
  BY ConcatFacts
<1>2. (received \o (w \o queue)) \o more = received \o ((w \o queue) \o more)
  BY <1>1
<1>3. (w \o queue) \o more = w \o (queue \o more)
  OBVIOUS
<1> QED BY <1>2, <1>3

(* Every step that touches the output keeps what was received, what is under way and what
   is queued one continuation of the other. *)
LEMMA NextContiguous ==
  ASSUME TypeOK, TypeOK', OutputStep,
         ~overlapped => Contiguous(pushed, write_queue_)
  PROVE  (~overlapped => Contiguous(pushed, write_queue_))'
<1> SUFFICES ASSUME ~overlapped' PROVE Contiguous(pushed, write_queue_)'
  OBVIOUS
<1>1. /\ received \in Seq(Units) /\ reactor \in Seq(Seq(Units)) /\ posted \in Seq(Writes)
      /\ write_queue_ \in Seq(Units) /\ pushed \in Seq(Units) /\ commands \in 0 .. MaxCommands
      /\ received' \in Seq(Units) /\ disconnected \in BOOLEAN /\ disconnected' \in BOOLEAN
  BY UnitsFacts DEF TypeOK
<1>2. ~overlapped
  BY DEF OutputStep, LeavesOutput, FlushesQueue, WritesHandshake, GoesOn, Completes, Writable,
         Answers, QueuesOrWrites, AsyncWrite
<1>3. Contiguous(pushed, write_queue_)
  BY <1>2
<1>4. CASE LeavesOutput
  BY <1>3, <1>4 DEF LeavesOutput, Contiguous, UnderWay
<1>5. CASE \E names \in Seq(ReplyNames) : Answers(names)
  <2>1. PICK names \in Seq(ReplyNames) : Answers(names)
    BY <1>5
  <2> DEFINE new == Queued(names)
  <2>2. new \in Seq(Units)
    BY <1>1, <2>1, QueuedType, UnitsFacts DEF Answers
  <2>3. /\ pushed' = pushed \o new /\ QueuesOrWrites(write_queue_ \o new)
        /\ UNCHANGED disconnected
    BY <2>1 DEF Answers
  <2> HIDE DEF new
  <2>4. write_queue_ \o new \in Seq(Units)
    BY <1>1, <2>2, ConcatFacts
  <2>5. IsPrefix(received, pushed \o new)
    BY <1>1, <1>3, <2>2, PrefixFacts DEF Contiguous
  <2>6. ASSUME NEW w \in Seq(Units), pushed = received \o (w \o write_queue_)
        PROVE  pushed \o new = received \o (w \o (write_queue_ \o new))
    BY <1>1, <2>2, <2>6, QueueGrows, ZenonT(30)
  <2>7. Contiguous(pushed \o new, write_queue_ \o new)
    BY <1>3, <2>5, <2>6 DEF Contiguous
  <2> QED BY <1>2, <2>3, <2>4, <2>7, QueueContiguous DEF Contiguous
<1>6. CASE FlushesQueue
  <2>1. QueuesOrWrites(write_queue_) /\ UNCHANGED <<pushed, disconnected>>
    BY <1>6 DEF FlushesQueue
  <2> QED BY <1>1, <1>2, <1>3, <2>1, QueueContiguous DEF Contiguous
<1>7. CASE WritesHandshake
  <2> DEFINE hello == <<Handshake>>
  <2>1. /\ hello \in Seq(Units) /\ hello # <<>> /\ AsyncWrite(hello) /\ write_queue_' = <<>>
        /\ pushed' = hello /\ UNCHANGED disconnected
        /\ reactor = <<>> /\ posted = <<>> /\ received = <<>>
    BY <1>7, UnitsFacts DEF WritesHandshake
  <2> HIDE DEF hello
  <2>2. hello = <<>> \o (<<>> \o hello) /\ <<>> \in Seq(Units)
    BY <2>1, ConcatEmptySeq
  <2>3. IsPrefix(<<>>, hello)
    BY <2>1, <2>2, PrefixFacts, ConcatEmptySeq
  <2>4. UnderWay(<<>>)
    BY <2>1 DEF UnderWay, Settled
  <2>5. Contiguous(hello, hello) /\ QueuesOrWrites(hello)
    BY <2>1, <2>2, <2>3, <2>4 DEF Contiguous, QueuesOrWrites
  <2> QED BY <1>2, <2>1, <2>5, QueueContiguous DEF Contiguous
<1>8. CASE GoesOn
  <2> DEFINE d == Head(posted).rest
             t == Tail(posted)
  <2>1. /\ posted # <<>> /\ d # <<>> /\ AsyncWriteSome(d, reactor, t)
        /\ UNCHANGED <<write_queue_, pushed, disconnected>>
    BY <1>8 DEF GoesOn
  <2>2. /\ Head(posted) \in Writes /\ t \in Seq(Writes) /\ Head(posted) = posted[1]
        /\ Len(posted) \in Nat \ {0} /\ DOMAIN posted = 1 .. Len(posted)
        /\ DOMAIN t = 1 .. (Len(posted) - 1)
        /\ \A i \in 1 .. (Len(posted) - 1) : t[i] = posted[i + 1]
    BY <1>1, <2>1, HeadTailProperties, LenProperties
  <2>3. d \in Seq(Units) /\ d = posted[1].rest /\ 1 \in DOMAIN posted
    BY <2>2 DEF Writes
  <2> HIDE DEF d, t
  <2>4. ASSUME NEW i \in DOMAIN t PROVE i + 1 \in DOMAIN posted \ {1} /\ t[i] = posted[i + 1]
    BY <2>2
  <2>5. ASSUME ~disconnected
        PROVE  reactor = <<>> /\ Settled(t) /\ pushed = received \o (d \o write_queue_)
    <3>1. PICK w \in Seq(Units) : UnderWay(w) /\ pushed = received \o (w \o write_queue_)
      BY <1>3, <2>5 DEF Contiguous
    <3>2. ~Settled(posted)
      BY <2>1, <2>3 DEF Settled
    <3>3. reactor = <<>> /\ OneRest(posted, w)
      BY <3>1, <3>2 DEF UnderWay
    <3>4. d = w /\ \A i \in DOMAIN posted \ {1} : posted[i].rest = <<>>
      BY <2>1, <2>3, <3>3 DEF OneRest
    <3>5. Settled(t)
      BY <2>4, <3>4 DEF Settled
    <3> QED BY <3>1, <3>3, <3>4, <3>5
  <2>6. /\ Moved(d, reactor, t) /\ (disconnected => received' = received)
    BY <2>1, SomeMoved, NothingTaken
  <2>7. IsPrefix(received, pushed)
    BY <1>3 DEF Contiguous
  <2>8. CASE disconnected
    BY <2>1, <2>6, <2>7, <2>8 DEF Contiguous
  <2>9. CASE ~disconnected
    <3>1. Moved(d, <<>>, t) /\ Settled(t) /\ pushed = received \o (d \o write_queue_)
      BY <2>5, <2>6, <2>9
    <3>2. /\ IsPrefix(received', received \o (d \o write_queue_))
          /\ \E w \in Seq(Units) :
               UnderWay(w)' /\ received \o (d \o write_queue_) = received' \o (w \o write_queue_)
      BY <1>1, <2>2, <2>3, <3>1, MovedContiguous, ZenonT(30)
    <3> QED BY <2>1, <3>1, <3>2 DEF Contiguous
  <2> QED BY <2>8, <2>9
<1>9. CASE Completes
  <2> DEFINE t == Tail(posted)
  <2>1. /\ posted # <<>> /\ posted' = t
        /\ UNCHANGED <<write_queue_, pushed, reactor, received>>
        /\ Head(posted).error => disconnected'
        /\ ~Head(posted).error => UNCHANGED disconnected /\ Head(posted).rest = <<>>
    BY <1>9 DEF Completes
  <2>2. /\ t \in Seq(Writes) /\ Head(posted) = posted[1]
        /\ Len(posted) \in Nat \ {0} /\ DOMAIN posted = 1 .. Len(posted)
        /\ DOMAIN t = 1 .. (Len(posted) - 1)
        /\ \A i \in 1 .. (Len(posted) - 1) : t[i] = posted[i + 1]
    BY <1>1, <2>1, HeadTailProperties, LenProperties
  <2> HIDE DEF t
  <2>3. ASSUME NEW i \in DOMAIN t PROVE i + 1 \in DOMAIN posted \ {1} /\ t[i] = posted[i + 1]
    BY <2>2
  <2>4. ASSUME ~disconnected', NEW w \in Seq(Units), UnderWay(w) PROVE UnderWay(w)'
    <3>1. posted[1].rest = <<>>
      BY <2>1, <2>2, <2>4
    <3>2. Settled(posted) => Settled(t)
      BY <2>3 DEF Settled
    <3>3. ASSUME OneRest(posted, w) PROVE OneRest(t, w) \/ (w = <<>> /\ Settled(t))
      <4>1. PICK k \in DOMAIN posted : /\ posted[k].rest = w
                                       /\ \A i \in DOMAIN posted \ {k} : posted[i].rest = <<>>
        BY <3>3 DEF OneRest
      <4>2. CASE k = 1
        BY <2>3, <3>1, <4>1, <4>2 DEF Settled
      <4>3. CASE k # 1
        <5>1. PICK j \in DOMAIN t : j + 1 = k
          <6>1. k - 1 \in 1 .. (Len(posted) - 1) /\ (k - 1) + 1 = k
            BY <2>2, <4>3
          <6> QED BY <2>2, <6>1
        <5>2. t[j].rest = w
          BY <2>3, <4>1, <5>1
        <5>3. ASSUME NEW i \in DOMAIN t \ {j} PROVE t[i].rest = <<>>
          <6>1. i + 1 # k
            BY <2>2, <5>1
          <6> QED BY <2>3, <4>1, <6>1
        <5> QED BY <5>2, <5>3 DEF OneRest
      <4> QED BY <4>2, <4>3
    <3> QED BY <2>1, <2>4, <3>2, <3>3 DEF UnderWay
  <2>5. IsPrefix(received', pushed')
    BY <1>3, <2>1 DEF Contiguous
  <2>6. ~disconnected' => ~disconnected
    BY <2>1
  <2> QED BY <1>3, <2>1, <2>4, <2>5, <2>6 DEF Contiguous
<1>10. CASE Writable
  <2> DEFINE d == Head(reactor)
             t == Tail(reactor)
  <2>1. /\ reactor # <<>> /\ Moved(d, t, posted)
        /\ UNCHANGED <<write_queue_, pushed, disconnected>>
    BY <1>10, WritableMoved DEF Writable, link
  <2>2. d \in Seq(Units)
    BY <1>1, <2>1, HeadTailProperties
  <2>3. ASSUME ~disconnected
        PROVE  t = <<>> /\ Settled(posted) /\ pushed = received \o (d \o write_queue_)
    <3>1. PICK w \in Seq(Units) : UnderWay(w) /\ pushed = received \o (w \o write_queue_)
      BY <1>3, <2>3 DEF Contiguous
    <3>2. reactor = <<w>> /\ Settled(posted)
      BY <2>1, <3>1 DEF UnderWay
    <3> QED BY <3>1, <3>2
  <2> HIDE DEF d, t
  <2>4. disconnected => received' = received
    BY <2>1, NothingTaken
  <2>5. IsPrefix(received, pushed)
    BY <1>3 DEF Contiguous
  <2>6. CASE disconnected
    BY <2>1, <2>4, <2>5, <2>6 DEF Contiguous
  <2>7. CASE ~disconnected
    <3>1. Moved(d, <<>>, posted) /\ Settled(posted) /\ pushed = received \o (d \o write_queue_)
      BY <2>1, <2>3, <2>7
    <3>2. /\ IsPrefix(received', received \o (d \o write_queue_))
          /\ \E w \in Seq(Units) :
               UnderWay(w)' /\ received \o (d \o write_queue_) = received' \o (w \o write_queue_)
      BY <1>1, <2>2, <3>1, MovedContiguous, ZenonT(30)
    <3> QED BY <2>1, <3>1, <3>2 DEF Contiguous
  <2> QED BY <2>6, <2>7
<1> QED BY <1>4, <1>5, <1>6, <1>7, <1>8, <1>9, <1>10 DEF OutputStep

OutputInv ==
  /\ PhaseOutput
  /\ Once(write_queue_, Later(commands))
  /\ ~overlapped => Contiguous(pushed, write_queue_)

(* Nothing has been sent when the connection is accepted. *)
LEMMA InitOutput == Init => OutputInv
<1> SUFFICES ASSUME Init PROVE OutputInv
  OBVIOUS
<1>1. /\ write_queue_ = <<>> /\ reactor = <<>> /\ posted = <<>> /\ received = <<>> /\ pushed = <<>>
  BY DEF Init
<1>2. PhaseOutput
  BY DEF Init, PhaseOutput
<1>3. Once(write_queue_, Later(commands))
  BY <1>1, EmptyOnce DEF Once, Apart, Away
<1>4. Contiguous(pushed, write_queue_)
  <2>1. <<>> \in Seq(Units) /\ <<>> \o (<<>> \o <<>>) = <<>>
    BY ConcatEmptySeq
  <2>2. IsPrefix(<<>>, <<>>)
    BY DEF IsPrefix
  <2>3. UnderWay(<<>>)
    BY <1>1 DEF UnderWay, Settled
  <2> QED BY <1>1, <2>1, <2>2, <2>3 DEF Contiguous
<1> QED BY <1>2, <1>3, <1>4 DEF OutputInv

(* The handshake and then the replies reach the socket whole and in the    *)
(* order they were pushed, unless a write began over an unfinished one;    *)
(* even then none reaches it twice.                                        *)
THEOREM RepliesGoOut == Spec => []RepliesIntact
<1>1. TypeOK /\ TypeOK' /\ OutputInv /\ [Next]_vars => OutputInv'
  BY NextOutput, NextOnce, NextContiguous DEF OutputInv
<1>2. TypeOK /\ OutputInv => RepliesIntact
  BY DEF OutputInv, Once, NoRepeat, Contiguous, RepliesIntact
<1> QED BY <1>1, <1>2, InitOutput, ConnectionTyped, PTL DEF Spec
=============================================================================
