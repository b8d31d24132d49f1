----------------------------- MODULE Connection -----------------------------
(***************************************************************************)
(* The life of one connection: accept, handshake, the read loop, the       *)
(* replies of RtmpHandler, the write queue, composed asynchronous writes   *)
(* and the send timer (network/Connection.cpp, network/Server.cpp,         *)
(* logic/RtmpHandler.cpp).                                                 *)
(*                                                                         *)
(* One io thread runs the handlers one at a time and each to its end.      *)
(* The kernel and the client act between and during handlers.  What a      *)
(* handler does with media is the subject of Publisher, how bytes become   *)
(* messages that of ChunkReader.                                           *)
(***************************************************************************)
EXTENDS Naturals, Sequences, SequencesExt

CONSTANTS
  MaxCommands,  \* bound on the client's messages and the parser's acknowledgements
  SlowPeer      \* may the send buffer of the socket be full?

ASSUME ConnectionAssumption == MaxCommands \in Nat /\ SlowPeer \in BOOLEAN

VARIABLES
  phase,        \* which handler the connection waits for
  reading,      \* an asynchronous read is outstanding
  write_queue_, \* replies queued by handlers
  reply_streambuf_, \* replies serialized and not consumed
  reactor,      \* writes waiting for room in the send buffer, oldest first
  posted,       \* completions of async_write_some the io thread has yet to run
  is_continuous_send_state_,
  timer,        \* a wait on continuous_send_timer_ is outstanding
  disconnected, \* disconnect() has run: notify_disconnect and shutdown
  stopped,      \* handle_stop() has stopped the io service
  clientGone,   \* the client has closed its end
  commands,     \* messages handled and acknowledgements sent so far
  received,     \* what the socket has taken, in order
  pushed,       \* history: everything meant for the client, in order
  overlapped,   \* history: a write began while another was unfinished
  unpublished   \* history: the commands that were FCUnpublish

link == <<disconnected, stopped, clientGone>>
output == <<write_queue_, reply_streambuf_, reactor, posted, received, overlapped>>
vars == <<phase, reading, output, is_continuous_send_state_, timer, link,
          commands, pushed, unpublished>>

(***************************************************************************)
(* A reply is the number of the command it answers and its name (the       *)
(* parser's Acknowledgement has a number of its own); a message of a queue *)
(* or a stream is a reply.  Bytes of a pending write that were overwritten *)
(* are Garbage.                                                            *)
(***************************************************************************)
Handshake == <<0, "S0S1S2">>
Garbage == <<0, "garbage">>

ReplyNames == {"WindowAcknowledgementSize", "SetPeerBandwidth", "StreamBegin",
  "ConnectResult", "SimpleResult", "OnFCPublish", "PublishStart", "PlayReset",
  "PlayStart", "RtmpSampleAccess", "OnMetaData", "Acknowledgement"}
Replies == (1 .. MaxCommands) \X ReplyNames
Units == Replies \union {Handshake, Garbage}
Writes == [rest : Seq(Units), error : BOOLEAN]

(* The io thread is free to run another handler. *)
Idle == phase \notin {"accepting", "parsing"} /\ ~stopped

(* No outstanding operation holds the connection: it is destroyed and its *)
(* socket closed.                                                         *)
Released == /\ phase \notin {"accepting", "parsing"}
            /\ ~reading /\ reactor = <<>> /\ posted = <<>> /\ ~timer

Init ==
  /\ phase = "accepting"
  /\ reading = FALSE
  /\ write_queue_ = <<>> /\ reply_streambuf_ = <<>>
  /\ reactor = <<>> /\ posted = <<>>
  /\ is_continuous_send_state_ = FALSE /\ timer = FALSE
  /\ disconnected = FALSE /\ stopped = FALSE /\ clientGone = FALSE
  /\ commands = 0
  /\ received = <<>> /\ pushed = <<>>
  /\ overlapped = FALSE
  /\ unpublished = {}

-----------------------------------------------------------------------------
(* Asynchronous writes. *)

(* async_write_some: the kernel is tried at once if no other write waits;  *)
(* it takes some of the data, has no room, or reports a broken connection. *)
AsyncWriteSome(data, waiting, done) ==
  \/ /\ waiting # <<>> \/ (SlowPeer /\ ~disconnected)
     /\ reactor' = Append(waiting, data)
     /\ posted' = done
     /\ UNCHANGED received
  \/ /\ waiting = <<>> /\ ~disconnected
     /\ \E n \in 1 .. Len(data) :
          /\ n = Len(data) \/ SlowPeer
          /\ received' = received \o SubSeq(data, 1, n)
          /\ posted' = Append(done, [rest |-> SubSeq(data, n + 1, Len(data)),
                                     error |-> FALSE])
     /\ reactor' = waiting
  \/ /\ waiting = <<>> /\ (disconnected \/ clientGone)
     /\ posted' = Append(done, [rest |-> data, error |-> TRUE])
     /\ reactor' = waiting
     /\ UNCHANGED received

Unfinished == \E i \in DOMAIN posted : posted[i].rest # <<>>

(* A pending write reads its bytes from the reply buffer; they were        *)
(* consumed when it began, so serializing more replies may overwrite them. *)
Overwrite(data) == [i \in DOMAIN data |-> Garbage]

AsyncWrite(data) ==
  LET pending == reactor # <<>> \/ Unfinished
  IN  /\ overlapped' = (overlapped \/ pending)
      /\ \/ AsyncWriteSome(data, reactor, posted)
         \/ /\ pending
            /\ AsyncWriteSome(data,
                 [i \in DOMAIN reactor |-> Overwrite(reactor[i])],
                 [i \in DOMAIN posted |->
                    [posted[i] EXCEPT !.rest = Overwrite(@)]])

Consume_OneShort(buffer, n) ==
  IF n <= Len(buffer) THEN SubSeq(buffer, n, Len(buffer)) ELSE <<>>

(* consume(n) drops the first n of what the buffer holds. *)
Consume(buffer, n) == IF n < Len(buffer) THEN SubSeq(buffer, n + 1, Len(buffer))
                                         ELSE <<>>

(* write_message: everything queued, in one write. *)
WriteMessage(queue) ==
  IF queue = <<>>
  THEN write_queue_' = queue
       /\ UNCHANGED <<reply_streambuf_, reactor, posted, received, overlapped>>
  ELSE /\ AsyncWrite(reply_streambuf_ \o queue)
       /\ reply_streambuf_' = Consume(reply_streambuf_ \o queue, Len(queue))
       /\ write_queue_' = <<>>

(* The kernel takes more of the oldest waiting write, or fails it. *)
Writable ==
  /\ reactor # <<>> /\ ~stopped
  /\ LET data == Head(reactor) IN
     \/ /\ ~disconnected
        /\ \E n \in 1 .. Len(data) :
             /\ received' = received \o SubSeq(data, 1, n)
             /\ posted' = Append(posted, [rest |-> SubSeq(data, n + 1, Len(data)),
                                          error |-> FALSE])
     \/ /\ disconnected \/ clientGone
        /\ posted' = Append(posted, [rest |-> data, error |-> TRUE])
        /\ UNCHANGED received
  /\ reactor' = Tail(reactor)
  /\ UNCHANGED <<phase, reading, write_queue_, reply_streambuf_, overlapped,
                 is_continuous_send_state_, timer, link, commands, pushed, unpublished>>

(* disconnect *)
Disconnect == disconnected' = TRUE /\ UNCHANGED <<stopped, clientGone>>

-----------------------------------------------------------------------------
(* The io thread runs the completion of the oldest async_write_some: the   *)
(* composed write goes on, or it ends and its handler runs.                *)
ContinueWrite ==
  /\ posted # <<>> /\ ~Head(posted).error /\ Head(posted).rest # <<>>
  /\ AsyncWriteSome(Head(posted).rest, reactor, Tail(posted))
  /\ UNCHANGED <<phase, reading, reply_streambuf_, link>>

(* handle_S0_S1_S2_write *)
HandleS0S1S2Write ==
  /\ posted # <<>> /\ phase = "S0S1S2"
  /\ Head(posted).error \/ Head(posted).rest = <<>>
  /\ posted' = Tail(posted)
  /\ IF Head(posted).error
     THEN Disconnect /\ UNCHANGED <<phase, reading, reply_streambuf_>>
     ELSE /\ phase' = "C2" /\ reading' = TRUE
          /\ reply_streambuf_' = Consume(reply_streambuf_, 1)
          /\ UNCHANGED link
  /\ UNCHANGED <<reactor, received>>

(* handle_write.  async_write consumes what it wrote before it calls the   *)
(* handler; the buffer is empty by then.                                   *)
HandleWrite ==
  /\ posted # <<>> /\ phase # "S0S1S2"
  /\ Head(posted).error \/ Head(posted).rest = <<>>
  /\ posted' = Tail(posted)
  /\ IF Head(posted).error THEN Disconnect ELSE UNCHANGED link
  /\ UNCHANGED <<phase, reading, reply_streambuf_, reactor, received>>

RunCompletion ==
  /\ Idle
  /\ ContinueWrite \/ HandleS0S1S2Write \/ HandleWrite
  /\ UNCHANGED <<write_queue_, overlapped, is_continuous_send_state_, timer,
                 commands, pushed, unpublished>>

-----------------------------------------------------------------------------
(* Accept and handshake. *)

(* server::handle_accept: start() reads C0 and C1; after an error the      *)
(* server accepts again with a new connection.                             *)
HandleAccept ==
  /\ phase = "accepting" /\ ~stopped
  /\ \/ phase' = "C0C1" /\ reading' = TRUE
     \/ UNCHANGED <<phase, reading>>
  /\ UNCHANGED <<output, is_continuous_send_state_, timer, link, commands, pushed, unpublished>>

(* server::handle_stop: outstanding handlers never run. *)
HandleStop ==
  /\ ~stopped /\ stopped' = TRUE
  /\ UNCHANGED <<phase, reading, output, is_continuous_send_state_, timer,
                 disconnected, clientGone, commands, pushed, unpublished>>

ClientCloses ==
  /\ ~clientGone /\ phase # "accepting" /\ ~stopped /\ clientGone' = TRUE
  /\ UNCHANGED <<phase, reading, output, is_continuous_send_state_, timer,
                 disconnected, stopped, commands, pushed, unpublished>>

ReadFails_Rearms ==
  /\ reading /\ Idle /\ (clientGone \/ disconnected)
  /\ Disconnect
  /\ UNCHANGED <<phase, reading, output, is_continuous_send_state_, timer,
                 commands, pushed, unpublished>>

(* The error branch of the three read handlers. *)
ReadFails ==
  /\ reading /\ Idle /\ (clientGone \/ disconnected)
  /\ reading' = FALSE
  /\ Disconnect
  /\ UNCHANGED <<phase, output, is_continuous_send_state_, timer, commands, pushed, unpublished>>

(* handle_read_handshake_C0_C1: a version other than 3 arms nothing. *)
HandleReadHandshakeC0C1 ==
  /\ reading /\ Idle /\ phase = "C0C1"
  /\ reading' = FALSE
  /\ \/ /\ phase' = "rejected"
        /\ UNCHANGED <<output, pushed>>
     \/ /\ phase' = "S0S1S2"
        /\ pushed' = <<Handshake>>
        /\ reply_streambuf_' = <<Handshake>>
        /\ AsyncWrite(<<Handshake>>)
        /\ UNCHANGED write_queue_
  /\ UNCHANGED <<is_continuous_send_state_, timer, link, commands, unpublished>>

(* handle_read_handshake_C2 *)
HandleReadHandshakeC2 ==
  /\ reading /\ Idle /\ phase = "C2"
  /\ phase' = "open"
  /\ UNCHANGED <<reading, output, is_continuous_send_state_, timer, link,
                 commands, pushed, unpublished>>

-----------------------------------------------------------------------------
(* handle_read: the messages complete in what was read are handled one     *)
(* after the other; then the next read is armed.                           *)
HandleRead ==
  /\ reading /\ Idle /\ phase = "open"
  /\ reading' = FALSE /\ phase' = "parsing"
  /\ UNCHANGED <<output, is_continuous_send_state_, timer, link, commands, pushed, unpublished>>

ReadAgain_Forgotten ==
  /\ phase = "parsing" /\ ~stopped
  /\ phase' = "open" /\ reading' = (write_queue_ = <<>>)
  /\ UNCHANGED <<output, is_continuous_send_state_, timer, link, commands, pushed, unpublished>>

ReadAgain ==
  /\ phase = "parsing" /\ ~stopped
  /\ phase' = "open" /\ reading' = TRUE
  /\ UNCHANGED <<output, is_continuous_send_state_, timer, link, commands, pushed, unpublished>>

Receives == phase = "parsing" /\ ~stopped /\ commands < MaxCommands

ParseFails ==
  /\ Receives
  /\ commands' = commands + 1
  /\ phase' = "open"
  /\ Disconnect
  /\ UNCHANGED <<reading, output, is_continuous_send_state_, timer, pushed, unpublished>>

Queued_EarlierId(names) == [i \in DOMAIN names |-> <<commands, names[i]>>]

(* push_to_send_queue for each reply, then signal_send_message, which      *)
(* writes only while the timer does not.                                   *)
Queued(names) == [i \in DOMAIN names |-> <<commands + 1, names[i]>>]

Push(names) ==
  /\ Receives
  /\ commands' = commands + 1
  /\ pushed' = pushed \o Queued(names)
  /\ UNCHANGED <<phase, reading, link>>

SignalSendMessage(queue) ==
  IF is_continuous_send_state_
  THEN write_queue_' = queue
       /\ UNCHANGED <<reply_streambuf_, reactor, posted, received, overlapped>>
  ELSE WriteMessage(queue)

Answer(names) ==
  /\ Push(names)
  /\ SignalSendMessage(write_queue_ \o Queued(names))
  /\ UNCHANGED <<is_continuous_send_state_, timer, unpublished>>

(* RtmpParser::parse: a call that completes a window of bytes pushes and    *)
(* signals an Acknowledgement, whatever it returns to handle_read then.     *)
Acknowledge == Answer(<<"Acknowledgement">>)

HandleConnectMessage ==
  Answer(<<"WindowAcknowledgementSize", "SetPeerBandwidth", "StreamBegin",
           "ConnectResult">>)

HandleReleaseStream == Answer(<<"SimpleResult">>)

HandleFCPublish == Answer(<<"SimpleResult", "OnFCPublish">>)

(* handle_fc_unpublish pushes its result and signals nothing. *)
HandleFCUnpublish ==
  /\ Push(<<"SimpleResult">>)
  /\ unpublished' = unpublished \union {commands + 1}
  /\ write_queue_' = write_queue_ \o Queued(<<"SimpleResult">>)
  /\ UNCHANGED <<reply_streambuf_, reactor, posted, received, overlapped,
                 is_continuous_send_state_, timer>>

HandleCreateStream_Unsignalled ==
  /\ Push(<<"SimpleResult">>)
  /\ write_queue_' = write_queue_ \o Queued(<<"SimpleResult">>)
  /\ UNCHANGED <<reply_streambuf_, reactor, posted, received, overlapped,
                 is_continuous_send_state_, timer, unpublished>>

HandleCreateStream == Answer(<<"SimpleResult">>)

HandleDeleteStream == Answer(<<"SimpleResult">>)

HandlePublish == Answer(<<"PublishStart">>)

(* handle_play switches to sending by the timer first, so its own signal   *)
(* writes nothing.                                                         *)
PlayReplies == <<"StreamBegin", "PlayReset", "PlayStart", "RtmpSampleAccess",
                 "OnMetaData">>

ChangeContinuousSendState ==
  /\ is_continuous_send_state_' = TRUE
  /\ timer' = (timer \/ ~is_continuous_send_state_)

HandlePlay ==
  /\ Push(PlayReplies)
  /\ ChangeContinuousSendState
  /\ write_queue_' = write_queue_ \o Queued(PlayReplies)
  /\ UNCHANGED <<reply_streambuf_, reactor, posted, received, overlapped,
                 unpublished>>

(* Messages without a reply: media, metadata, chunk size, unknown ones. *)
HandleUnanswered ==
  /\ Push(<<>>)
  /\ UNCHANGED <<output, is_continuous_send_state_, timer, unpublished>>

HandleRequest ==
  \/ HandleConnectMessage \/ HandleReleaseStream \/ HandleFCPublish
  \/ HandleFCUnpublish \/ HandleCreateStream \/ HandleDeleteStream
  \/ HandlePublish \/ HandlePlay \/ HandleUnanswered

HandleSendTimer_Once ==
  /\ timer /\ Idle
  /\ WriteMessage(write_queue_)
  /\ timer' = FALSE
  /\ UNCHANGED <<phase, reading, is_continuous_send_state_, link, commands, pushed, unpublished>>

(* handle_send_timer waits again as long as the state is continuous, which *)
(* nothing ever resets.                                                    *)
HandleSendTimer ==
  /\ timer /\ Idle
  /\ WriteMessage(write_queue_)
  /\ timer' = is_continuous_send_state_
  /\ UNCHANGED <<phase, reading, is_continuous_send_state_, link, commands, pushed, unpublished>>

(* Nothing is left to happen. *)
Ended == (Released \/ stopped) /\ UNCHANGED vars

Next ==
  \/ HandleAccept \/ HandleReadHandshakeC0C1 \/ HandleReadHandshakeC2
  \/ HandleRead \/ Acknowledge \/ HandleRequest \/ ParseFails \/ ReadAgain \/ ReadFails
  \/ HandleSendTimer \/ RunCompletion \/ Writable \/ ClientCloses
  \/ HandleStop \/ Ended

Spec == Init /\ [][Next]_vars

(***************************************************************************)
(* Fairness of the io thread and of the kernel.  The io service runs ready *)
(* handlers first in, first out, so an expired timer or a posted           *)
(* completion is not passed by reads for ever; parsing a buffer comes to   *)
(* its end; on a socket that was shut down reads and writes fail, after    *)
(* the data that had already arrived.  Nothing is assumed of the client,   *)
(* nor of a full send buffer.                                              *)
(***************************************************************************)
FairSpec ==
  /\ Spec
  /\ WF_vars(ReadAgain) /\ SF_vars(HandleSendTimer) /\ SF_vars(RunCompletion)
  /\ SF_vars(disconnected /\ ReadFails) /\ WF_vars(disconnected /\ Writable)

-----------------------------------------------------------------------------
(* Every variable has its type: the connection is in one of the phases of  *)
(* its handlers, and what is queued or sent is replies.                    *)
TypeOK ==
  /\ phase \in {"accepting", "C0C1", "rejected", "S0S1S2", "C2", "open", "parsing"}
  /\ {reading, is_continuous_send_state_, timer, disconnected, stopped,
      clientGone, overlapped} \subseteq BOOLEAN
  /\ write_queue_ \in Seq(Replies)
  /\ {reply_streambuf_, received, pushed} \subseteq Seq(Units)
  /\ reactor \in Seq(Seq(Units))
  /\ posted \in Seq(Writes)
  /\ commands \in 0 .. MaxCommands
  /\ unpublished \subseteq 1 .. commands

(* The handshake and then the replies go out complete and in the order     *)
(* they were pushed, unless write_message began a write while an earlier   *)
(* one was unfinished (it consumes the buffer as soon as it has begun);    *)
(* even then it gives no reply to the socket twice.                        *)
RepliesIntact ==
  /\ ~overlapped => IsPrefix(received, pushed)
  /\ \A i, j \in DOMAIN received :
       i < j /\ received[i] = received[j] => received[i] = Garbage

(* Between handlers, and as long as no play has handed sending to the      *)
(* timer, only results of FCUnpublish can be waiting in the write queue:   *)
(* every other handler signals after its last push.                        *)
OnlyUnsignalledWait ==
  Idle /\ ~is_continuous_send_state_ =>
    \A i \in DOMAIN write_queue_ : write_queue_[i][1] \in unpublished

(* A connection is only let go (no read, write or timer outstanding, so    *)
(* that it is destroyed) after disconnect, which is what ends its upload,  *)
(* or when its handshake was rejected.                                     *)
KeptAlive == Released => disconnected \/ phase = "rejected"

Waiting(command) == \E i \in DOMAIN write_queue_ : write_queue_[i][1] = command

(* A reply followed by a signal is handed to the socket, by its handler or *)
(* by the timer, unless the connection or the server ends first.           *)
RepliesAreWritten ==
  \A c \in 1 .. MaxCommands :
    Waiting(c) /\ c \notin unpublished ~> ~Waiting(c) \/ disconnected \/ stopped

(* The result of every command is handed to the socket, FCUnpublish        *)
(* included ("send response", logic/RtmpHandler.cpp:219).                  *)
EveryCommandAnswered ==
  \A c \in 1 .. MaxCommands : Waiting(c) ~> ~Waiting(c) \/ disconnected \/ stopped

(* After disconnect every outstanding operation ends and the connection is *)
(* released, unless a play has started the timer, which nothing stops.     *)
ReleasedWhenOver ==
  disconnected ~> Released \/ stopped \/ is_continuous_send_state_

=============================================================================
