----------------------------- MODULE Publisher ------------------------------
(***************************************************************************)
(* The media path of one RTMP connection: the MediaPublishEsContext that   *)
(* Connection creates, RtmpHandler's messages that touch it                *)
(* (audio, video, createStream, deleteStream, notify_disconnect),          *)
(* process_flv_es_message, and publish_to_streamer with the HTTP requests  *)
(* it makes.                                                               *)
(*                                                                         *)
(* main.cpp runs one io thread, so a handler runs to its end before the    *)
(* next one starts; what interleaves with it is the streamer.  pc says     *)
(* where a handler stands: the next HTTP request publish_to_streamer       *)
(* makes, or "idle" between handlers.  HTTP (castis::http::AsyncClient) is *)
(* external: a request is refused, or processed with its reply lost, or    *)
(* processed and acknowledged.                                             *)
(***************************************************************************)
EXTENDS Integers, Sequences

CONSTANTS
  MaxFrames,    \* bound: frames the client sends that are accepted
  MaxFailures,  \* bound: HTTP exchanges that do not succeed
  MaxRequests   \* bound: no handler starts once the streamer has seen so many

ASSUME BoundsAssumption ==
  MaxFrames \in Nat /\ MaxFailures \in Nat /\ MaxRequests \in Nat

VARIABLES
  reading,                    \* a read is outstanding, or being handled
  pc,                         \* the request publish_to_streamer makes next
  publish_state,              \* context->publish_state_
  publish_id,                 \* context->publish_id_, 0 while empty
  media_es,                   \* context->media_es_
  frame_number,               \* context->frame_number_
  audio_frame_number,         \* context->audio_frame_number_
  video_frame_number,         \* context->video_frame_number_
  audio_codec_info,           \* audio_init_es_.codecInfo is not empty
  video_codec_info,           \* video_init_es_.codecInfo is not empty
  video_eos,                  \* video_eos_ is not empty
  ready_to_end_of_stream,     \* context->ready_to_end_of_stream_
  first_video_key_frame_sent, \* context->first_video_key_frame_sent_
  failures,                   \* HTTP exchanges that failed so far
  aborted,                    \* history: the last publish_to_streamer gave up
  accepted,                   \* history: every frame ever put in media_es
  requests                    \* external: what the streamer has processed

track   == <<audio_codec_info, video_codec_info, video_eos,
             first_video_key_frame_sent>>
counts  == <<frame_number, audio_frame_number, video_frame_number, accepted>>
session == <<reading, ready_to_end_of_stream>>
upload  == <<publish_state, publish_id>>
http    == <<requests, failures>>

vars == <<pc, media_es, aborted, track, counts, session, upload, http>>

U == INSTANCE UploadProtocol
       WITH phase <- publish_state, done <- frame_number - Len(media_es)

TypeOK ==
  /\ reading \in BOOLEAN
  /\ pc \in {"idle"} \cup U!Op
  /\ publish_state \in U!Phase
  /\ publish_id \in Nat
  /\ media_es \in Seq(U!Frame)
  /\ frame_number \in 0 .. MaxFrames
  /\ audio_frame_number \in Nat
  /\ video_frame_number \in Nat
  /\ audio_codec_info \in BOOLEAN
  /\ video_codec_info \in BOOLEAN
  /\ video_eos \in BOOLEAN
  /\ ready_to_end_of_stream \in BOOLEAN
  /\ first_video_key_frame_sent \in BOOLEAN
  /\ failures \in 0 .. MaxFailures
  /\ aborted \in BOOLEAN
  /\ accepted \in Seq(U!Frame)
  /\ requests \in Seq(U!Request)

Init ==
  /\ reading = TRUE
  /\ pc = "idle"
  /\ publish_state = "begin"
  /\ publish_id = 0
  /\ media_es = <<>>
  /\ frame_number = 0
  /\ audio_frame_number = 0
  /\ video_frame_number = 0
  /\ audio_codec_info = FALSE
  /\ video_codec_info = FALSE
  /\ video_eos = FALSE
  /\ ready_to_end_of_stream = FALSE
  /\ first_video_key_frame_sent = FALSE
  /\ failures = 0
  /\ aborted = FALSE
  /\ accepted = <<>>
  /\ requests = <<>>

-----------------------------------------------------------------------------
(* Definitions named X_... are mutants: the definition X that follows with *)
(* a plausible mistake in it.  No run and no proof of the project uses     *)
(* them; putting one in the place of X breaks a property (see README.md).  *)
ready_to_send_NoAudio ==
  audio_codec_info /\ video_codec_info /\ video_frame_number >= 1

(* READY_TO_SEND_VIDEO_FRAME_COUNT and READY_TO_SEND_AUDIO_FRAME_COUNT     *)
ready_to_send ==
  /\ audio_codec_info
  /\ video_codec_info
  /\ video_frame_number >= 1
  /\ audio_frame_number >= 1

end_of_video_es == video_eos

NextRequest_NoIdle == IF publish_state = "begin" THEN "begin" ELSE publish_state

NextRequest_EarlyEnd ==
  IF publish_state = "begin" THEN "begin"
  ELSE IF ready_to_end_of_stream \/ end_of_video_es THEN "end"
  ELSE IF publish_state = "init" /\ ready_to_send THEN "init"
  ELSE IF publish_state = "publishing" /\ media_es # <<>> THEN "es" ELSE "idle"

NextRequest_EosOnly ==
  IF publish_state = "begin" THEN "begin"
  ELSE IF publish_state = "init" /\ ready_to_send THEN "init"
  ELSE IF publish_state = "publishing" /\ media_es # <<>> THEN "es"
  ELSE IF media_es = <<>> /\ end_of_video_es THEN "end" ELSE "idle"

(* The request publish_to_streamer(context) comes to next: its state tests *)
(* in their order.  Each request that succeeds moves on to the next test;  *)
(* one that fails returns.                                                 *)
NextRequest ==
  IF publish_state = "begin" THEN "begin"
  ELSE IF publish_state = "init" /\ ready_to_send THEN "init"
  ELSE IF publish_state = "publishing" /\ media_es # <<>> THEN "es"
  ELSE IF media_es = <<>> /\ (ready_to_end_of_stream \/ end_of_video_es) THEN "end"
  ELSE "idle"

(* publish_to_streamer(context) is called *)
Enter == pc' = NextRequest' /\ aborted' = FALSE

(* One HTTP exchange.  ok: the streamer processed the request and its 2xx  *)
(* answer arrived.  Otherwise the code sees ec # 0, whether or not the     *)
(* streamer processed the request.                                         *)
Exchange(op, id, n, ok) ==
  LET processed == Append(requests, [op |-> op, id |-> id, n |-> n, ok |-> ok])
  IN  \/ /\ ok
         /\ requests' = processed
         /\ failures' = failures
      \/ /\ ~ok
         /\ failures < MaxFailures
         /\ failures' = failures + 1
         /\ requests' \in {requests, processed}

(* ec # 0: publish_to_streamer returns with everything else as it was.     *)
GiveUp == pc' = "idle" /\ aborted' = TRUE /\ UNCHANGED <<upload, media_es>>

Continue == pc' = NextRequest' /\ UNCHANGED aborted

begin_publish ==
  /\ pc = "begin"
  /\ UNCHANGED <<track, counts, session>>
  /\ \/ /\ Exchange("begin", Len(requests) + 1, frame_number, TRUE)
        /\ publish_id' = Len(requests) + 1
        /\ publish_state' = "init"
        /\ UNCHANGED media_es
        /\ Continue
     \/ Exchange("begin", Len(requests) + 1, frame_number, FALSE) /\ GiveUp

init_publish_StartsOver ==
  /\ pc = "init"
  /\ UNCHANGED <<track, counts, session, publish_id, media_es>>
  /\ \/ /\ Exchange("init", publish_id, frame_number, TRUE)
        /\ publish_state' = "publishing"
        /\ Continue
     \/ /\ Exchange("init", publish_id, frame_number, FALSE)
        /\ publish_state' = "begin"
        /\ pc' = "idle" /\ aborted' = TRUE

init_publish ==
  /\ pc = "init"
  /\ UNCHANGED <<track, counts, session>>
  /\ \/ /\ Exchange("init", publish_id, frame_number, TRUE)
        /\ publish_state' = "publishing"
        /\ UNCHANGED <<publish_id, media_es>>
        /\ Continue
     \/ Exchange("init", publish_id, frame_number, FALSE) /\ GiveUp

publish_es_Failing(rest) ==
  /\ pc = "es"
  /\ UNCHANGED <<track, counts, session, upload>>
  /\ \E ok \in BOOLEAN :
       /\ Exchange("es", publish_id, Head(media_es).n, ok)
       /\ media_es' = IF ok THEN Tail(media_es) ELSE rest
       /\ IF ok THEN Continue ELSE pc' = "idle" /\ aborted' = TRUE

publish_es_PopsFirst == publish_es_Failing(Tail(media_es))

publish_es_Requeues == publish_es_Failing(Append(Tail(media_es), Head(media_es)))

(* publish_es and the pop_front after it.  A frame without payload is      *)
(* popped without a request.                                               *)
publish_es ==
  /\ pc = "es"
  /\ UNCHANGED <<track, counts, session>>
  /\ \/ /\ IF Head(media_es).empty
           THEN UNCHANGED http
           ELSE Exchange("es", publish_id, Head(media_es).n, TRUE)
        /\ media_es' = Tail(media_es)
        /\ UNCHANGED upload
        /\ Continue
     \/ /\ ~Head(media_es).empty
        /\ Exchange("es", publish_id, Head(media_es).n, FALSE)
        /\ GiveUp

end_publish ==
  /\ pc = "end"
  /\ UNCHANGED <<track, counts, session>>
  /\ \/ /\ Exchange("end", publish_id, frame_number, TRUE)
        /\ publish_state' = "end"
        /\ UNCHANGED <<publish_id, media_es, aborted>>
        /\ pc' = "idle"
     \/ Exchange("end", publish_id, frame_number, FALSE) /\ GiveUp

publish_to_streamer == begin_publish \/ init_publish \/ publish_es \/ end_publish

-----------------------------------------------------------------------------
(* A handler starts: the io thread is free, and the bound allows it.       *)
Handling == pc = "idle" /\ Len(requests) < MaxRequests

(* handle_read delivers a message while the connection is read.            *)
Receiving == reading /\ Handling

QueueFrame_OldNumber(kind, key, empty) ==
  LET es == [n |-> frame_number, kind |-> kind, key |-> key, isKeyFrame |-> 1, empty |-> empty]
  IN  /\ frame_number < MaxFrames
      /\ media_es' = Append(media_es, es)
      /\ accepted' = Append(accepted, es)
      /\ frame_number' = frame_number + 1

(* The tail of process_flv_es_message for a frame: numbered, queued,       *)
(* counted.  make_media_es drops its is_key_frame argument, so isKeyFrame  *)
(* keeps its initial 1; key, which nothing after this reads, is history.   *)
QueueFrame(kind, key, empty) ==
  LET es == [n |-> frame_number + 1, kind |-> kind, key |-> key,
             isKeyFrame |-> 1, empty |-> empty]
  IN  /\ frame_number < MaxFrames
      /\ media_es' = Append(media_es, es)
      /\ accepted' = Append(accepted, es)
      /\ frame_number' = frame_number + 1

AudioSequenceHeader_Returns ==
  /\ Receiving
  /\ audio_codec_info' = TRUE
  /\ UNCHANGED <<video_codec_info, video_eos, first_video_key_frame_sent,
                 pc, aborted, media_es, counts, session, upload, http>>

AudioSequenceHeader ==
  /\ Receiving
  /\ audio_codec_info' = TRUE
  /\ UNCHANGED <<video_codec_info, video_eos, first_video_key_frame_sent,
                 media_es, counts, session, upload, http>>
  /\ Enter

VideoSequenceHeader ==
  /\ Receiving
  /\ video_codec_info' = TRUE
  /\ UNCHANGED <<audio_codec_info, video_eos, first_video_key_frame_sent,
                 media_es, counts, session, upload, http>>
  /\ Enter

AudioRaw(empty) ==
  /\ Receiving
  /\ QueueFrame("audio", TRUE, empty)
  /\ audio_frame_number' = audio_frame_number + 1
  /\ UNCHANGED <<video_frame_number, track, session, upload, http>>
  /\ Enter

VideoNalu_NoKeyTest(key, empty) ==
  /\ Receiving
  /\ QueueFrame("video", key, empty)
  /\ video_frame_number' = video_frame_number + 1
  /\ UNCHANGED <<track, audio_frame_number, session, upload, http>>
  /\ Enter

(* A video frame is dropped while no key frame has been taken; then        *)
(* process_flv_es_message fails and publish_to_streamer is not reached.    *)
VideoNalu(key, empty) ==
  /\ Receiving
  /\ key \/ first_video_key_frame_sent
  /\ first_video_key_frame_sent' = (key \/ first_video_key_frame_sent)
  /\ QueueFrame("video", key, empty)
  /\ video_frame_number' = video_frame_number + 1
  /\ UNCHANGED <<audio_codec_info, video_codec_info, video_eos,
                 audio_frame_number, session, upload, http>>
  /\ Enter

VideoEndOfSequence ==
  /\ Receiving
  /\ video_eos' = TRUE
  /\ UNCHANGED <<audio_codec_info, video_codec_info, first_video_key_frame_sent,
                 media_es, counts, session, upload, http>>
  /\ Enter

(* An early inter frame, or a message process_flv_es_message cannot parse: *)
(* dropped, with no attempt to publish what is queued.                     *)
Dropped == Receiving /\ UNCHANGED vars

handle_media_message ==
  \/ AudioSequenceHeader
  \/ VideoSequenceHeader
  \/ \E empty \in BOOLEAN : AudioRaw(empty)
  \/ \E key, empty \in BOOLEAN : VideoNalu(key, empty)
  \/ VideoEndOfSequence
  \/ Dropped

handle_create_stream ==
  /\ Receiving
  /\ ready_to_end_of_stream' = FALSE
  /\ UNCHANGED <<reading, pc, media_es, aborted, track, counts, upload, http>>

(* The flag only: the upload is closed by whatever calls                   *)
(* publish_to_streamer next.                                               *)
handle_delete_stream ==
  /\ Receiving
  /\ ready_to_end_of_stream' = TRUE
  /\ UNCHANGED <<reading, pc, media_es, aborted, track, counts, upload, http>>

notify_disconnect_NoFlag ==
  /\ UNCHANGED <<ready_to_end_of_stream, media_es, track, counts, upload, http>>
  /\ Enter

notify_disconnect ==
  /\ ready_to_end_of_stream' = TRUE
  /\ UNCHANGED <<media_es, track, counts, upload, http>>
  /\ Enter

(* Connection::disconnect after a read error or a message that does not    *)
(* parse: nothing is read any more.                                        *)
ReadEnds ==
  /\ reading
  /\ pc = "idle"
  /\ reading' = FALSE
  /\ notify_disconnect

(* Connection::disconnect after a write error: the outstanding read still  *)
(* completes, with what had arrived or with an error of its own.           *)
WriteFails ==
  /\ Handling
  /\ reading' = reading
  /\ notify_disconnect

(* The connection is closed and no handler runs.                           *)
Closed == ~reading /\ pc = "idle" /\ UNCHANGED vars

Next ==
  \/ publish_to_streamer
  \/ handle_media_message
  \/ handle_create_stream
  \/ handle_delete_stream
  \/ ReadEnds
  \/ WriteFails
  \/ Closed

Spec == Init /\ [][Next]_vars

(* A handler that has started runs to its end (AsyncClient::SendAndReceive *)
(* always returns).                                                        *)
FairSpec == Spec /\ WF_vars(publish_to_streamer)

-----------------------------------------------------------------------------
(* Implementation: what the streamer sees of publish_to_streamer is the    *)
(* upload UploadProtocol specifies.                                        *)
Upload == U!Spec

(* publish_es is retried for the same frame until it succeeds and pop_front*)
(* comes after: no gap at the streamer.                                    *)
NoGap == U!NoGap

(* Frames arrive in the order of media_es_, again only after a lost reply. *)
InOrder == U!InOrder

(* publish_id_ is set once: an upload whose begin_publish reply was lost is*)
(* never used, and the retry starts another one.                           *)
OneUpload == U!OneUpload

(* publish_es only in state publishing, reached once through init_publish. *)
FramesAfterInit == U!FramesAfterInit

(* ready_to_send, doc/rtmp_dev.md:228: the upload of frames starts when at *)
(* least one audio and one video frame have been made.                     *)
InitHasBothTracks == U!InitHasBothTracks

(* end_publish only when media_es_ is empty: what was accepted before the  *)
(* DELETE has been acknowledged before it.                                 *)
EndAfterDrain == U!EndAfterDrain

(* State end is final: a later frame, createStream or disconnect sends     *)
(* nothing but, perhaps, the DELETE again.                                 *)
QuietAfterEnd == U!QuietAfterEnd

(* first_video_key_frame_sent_: an inter frame is queued only behind a key *)
(* frame.                                                                  *)
KeyFrameFirst == U!KeyFrameFirst

(* init_publish once both tracks are known, publish_es only after it, and  *)
(* the first frame of video_es a key frame.                                *)
StartsComplete == InitHasBothTracks /\ FramesAfterInit /\ KeyFrameFirst

(* end_publish when media_es_ is drained, nothing but the DELETE after it. *)
EndsComplete == EndAfterDrain /\ QuietAfterEnd

(* media_es_ is what remains of the accepted frames: nothing queued is     *)
(* lost, duplicated or renumbered, whatever fails.                         *)
QueueIsRemainder ==
  /\ frame_number = Len(accepted)
  /\ Len(media_es) <= frame_number
  /\ media_es = SubSeq(accepted, frame_number - Len(media_es) + 1, frame_number)
  /\ \A k \in 1 .. frame_number : accepted[k].n = k

(* After the last notify_disconnect, unless a request failed in it: the    *)
(* upload is closed, or frames remain because ready_to_send never held or  *)
(* because they came after the close.                                      *)
FlushedAtDisconnect ==
  ~reading /\ pc = "idle" /\ ~aborted =>
    \/ publish_state = "end"
    \/ publish_state = "init" /\ media_es # <<>> /\ ~ready_to_send

(* The same as a promise: a disconnect during publishing leads to the      *)
(* DELETE or to a failed request.                                          *)
DisconnectClosesUpload ==
  ~reading /\ publish_state = "publishing" ~> publish_state = "end" \/ aborted

(* A frame the streamer refused is offered again by the messages that      *)
(* follow, until the queue is empty, if the client keeps sending: the      *)
(* sequence header stands for any message that reaches publish_to_streamer.*)
RefusedFramesAreRetried ==
  WF_vars(AudioSequenceHeader) =>
    (publish_state = "publishing" /\ media_es # <<>>
       ~> media_es = <<>> \/ ~reading)

(* RtmpHandler.cpp:42 "send remains", said of the publish_to_streamer call *)
(* in notify_disconnect.                                                   *)
RemainsAreSent == ~reading ~> media_es = <<>>
=============================================================================
