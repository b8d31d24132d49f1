-------------------------- MODULE PublisherProofs ---------------------------
(***************************************************************************)
(* Publisher for every bound: its type invariant, the invariant that ties  *)
(* the queue, the phase and the program counter to what the streamer has   *)
(* processed, and that it implements UploadProtocol, whose safety          *)
(* properties it therefore has.                                            *)
(***************************************************************************)
EXTENDS Publisher, SequenceTheorems, TLAPS

P == INSTANCE UploadProtocolProofs
       WITH phase <- publish_state, done <- frame_number - Len(media_es)

(* QueueIsRemainder, element by element *)
Remainder ==
  /\ frame_number = Len(accepted)
  /\ Len(media_es) <= frame_number
  /\ \A i \in 1 .. Len(media_es) : media_es[i] = accepted[frame_number - Len(media_es) + i]
  /\ \A k \in 1 .. frame_number : accepted[k].n = k

(* A request is made only where the state tests of publish_to_streamer led *)
(* to it.                                                                  *)
PcAgrees ==
  /\ pc = "begin" => publish_state = "begin"
  /\ pc = "init" => publish_state = "init" /\ ready_to_send
  /\ pc = "es" => publish_state = "publishing" /\ media_es # <<>>
  /\ pc = "end" => publish_state # "begin" /\ media_es = <<>>

HasKeyFrame == \E i \in 1 .. Len(accepted) : accepted[i].kind = "video" /\ accepted[i].key

(* What the counters and the key-frame flag say was indeed accepted.       *)
TracksSeen ==
  /\ audio_frame_number >= 1 => U!HasKind("audio", Len(accepted))
  /\ video_frame_number >= 1 => U!HasKind("video", Len(accepted))
  /\ first_video_key_frame_sent => HasKeyFrame

(* publish_id names an upload whose start was acknowledged.                *)
IdStarted == publish_state # "begin" => publish_id \in U!Started

PInv ==
  /\ TypeOK
  /\ Remainder
  /\ PcAgrees
  /\ TracksSeen
  /\ IdStarted

-----------------------------------------------------------------------------
(* The pieces of the state the handlers leave alone, taken apart.          *)
LEMMA AppendFacts ==
  ASSUME NEW S, NEW s \in Seq(S), NEW e \in S
  PROVE  /\ Append(s, e) \in Seq(S)
         /\ Len(s) \in Nat
         /\ Len(Append(s, e)) = Len(s) + 1
         /\ Append(s, e)[Len(s) + 1] = e
         /\ \A i \in 1 .. Len(s) : Append(s, e)[i] = s[i]
  OBVIOUS

(* A connection just accepted has nothing queued, no upload and no request under way. *)
LEMMA InitPInv == Init => PInv
<1> SUFFICES ASSUME Init PROVE PInv
  OBVIOUS
<1>1. TypeOK
  <2>1. 0 \in 0 .. MaxFrames /\ 0 \in 0 .. MaxFailures
    BY BoundsAssumption
  <2>2. <<>> \in Seq(U!Frame) /\ <<>> \in Seq(U!Request)
    OBVIOUS
  <2>3. "begin" \in U!Phase
    BY DEF U!Phase
  <2> QED BY <2>1, <2>2, <2>3 DEF Init, TypeOK
<1>2. Remainder
  BY DEF Init, Remainder
<1>3. PcAgrees /\ TracksSeen /\ IdStarted
  BY DEF Init, PcAgrees, TracksSeen, IdStarted
<1> QED BY <1>1, <1>2, <1>3 DEF PInv

(* Where the state tests lead, the request fits the state.                 *)
LEMMA NextRequestFacts ==
  ASSUME pc' = NextRequest'
  PROVE  PcAgrees' /\ pc' \in {"idle"} \cup U!Op
BY DEF NextRequest, PcAgrees, U!Op

(* Between handlers no request of the upload is under way. *)
LEMMA IdleFacts ==
  ASSUME pc' = "idle"
  PROVE  PcAgrees' /\ pc' \in {"idle"} \cup U!Op
BY DEF PcAgrees, U!Op

(* One exchange with the streamer                                          *)
LEMMA ExchangeFacts ==
  ASSUME TypeOK, NEW op \in U!Op, NEW id \in Nat, NEW n \in Nat, NEW ok \in BOOLEAN,
         Exchange(op, id, n, ok)
  PROVE  /\ requests' \in Seq(U!Request)
         /\ failures' \in 0 .. MaxFailures
         /\ U!Process(op, id, n, ok) \/ (~ok /\ requests' = requests)
         /\ U!Started \subseteq U!Started'
         /\ op = "begin" /\ ok => id \in U!Started'
<1> DEFINE r == [op |-> op, id |-> id, n |-> n, ok |-> ok]
<1>1. r \in U!Request /\ requests \in Seq(U!Request) /\ failures \in Nat /\ MaxFailures \in Nat
  BY BoundsAssumption DEF TypeOK, U!Request
<1>2. failures' \in 0 .. MaxFailures
  BY <1>1 DEF Exchange, TypeOK
<1>3. requests' = Append(requests, r) \/ (~ok /\ requests' = requests)
  BY DEF Exchange
<1>4. CASE requests' = Append(requests, r)
  <2>1. /\ requests' \in Seq(U!Request)
        /\ Len(requests) \in Nat
        /\ Len(requests') = Len(requests) + 1
        /\ requests'[Len(requests) + 1] = r
        /\ \A i \in 1 .. Len(requests) : requests'[i] = requests[i]
    BY <1>1, <1>4, AppendFacts
  <2>2. U!Process(op, id, n, ok)
    BY <1>4 DEF U!Process
  <2>3. ASSUME NEW x \in U!Started PROVE x \in U!Started'
    <3>1. PICK i \in 1 .. Len(requests) :
            requests[i].op = "begin" /\ requests[i].ok /\ requests[i].id = x
      BY <2>3 DEF U!Started
    <3>2. /\ i \in 1 .. Len(requests')
          /\ requests'[i].op = "begin" /\ requests'[i].ok /\ requests'[i].id = x
      BY <2>1, <3>1
    <3> QED BY <3>2 DEF U!Started
  <2>4. ASSUME op = "begin", ok PROVE id \in U!Started'
    <3>1. PICK i \in 1 .. Len(requests') : i = Len(requests) + 1
      BY <2>1
    <3>2. requests'[i].op = "begin" /\ requests'[i].ok /\ requests'[i].id = id
      BY <2>1, <2>4, <3>1
    <3> QED BY <3>2 DEF U!Started
  <2> QED BY <1>2, <2>1, <2>2, <2>3, <2>4
<1>5. CASE ~ok /\ requests' = requests
  BY <1>1, <1>2, <1>5 DEF U!Started
<1> QED BY <1>3, <1>4, <1>5

(* A step that touches neither the queue, nor the upload, nor the streamer.*)
LEMMA QuietStep ==
  ASSUME PInv,
         UNCHANGED <<media_es, counts, upload, http>>,
         first_video_key_frame_sent' = first_video_key_frame_sent,
         reading' \in BOOLEAN, ready_to_end_of_stream' \in BOOLEAN, aborted' \in BOOLEAN,
         audio_codec_info' \in BOOLEAN, video_codec_info' \in BOOLEAN, video_eos' \in BOOLEAN,
         pc' = NextRequest' \/ pc' = "idle"
  PROVE  PInv' /\ UNCHANGED U!vars
<1>1. PcAgrees' /\ pc' \in {"idle"} \cup U!Op
  BY NextRequestFacts, IdleFacts
<1>2. TypeOK'
  BY <1>1 DEF PInv, TypeOK, counts, upload, http
<1>3. Remainder' /\ IdStarted'
  BY DEF PInv, Remainder, IdStarted, U!Started, counts, upload, http
<1>4. TracksSeen'
  BY DEF PInv, TracksSeen, HasKeyFrame, U!HasKind, counts
<1>5. UNCHANGED U!vars
  BY DEF U!vars, counts, upload, http
<1> QED BY <1>1, <1>2, <1>3, <1>4, <1>5 DEF PInv

(* A handler that queues no frame only reads: the upload does not see it. *)
LEMMA EnterStep ==
  ASSUME PInv, Enter,
         UNCHANGED <<media_es, counts, upload, http>>,
         first_video_key_frame_sent' = first_video_key_frame_sent,
         reading' \in BOOLEAN, ready_to_end_of_stream' \in BOOLEAN,
         audio_codec_info' \in BOOLEAN, video_codec_info' \in BOOLEAN, video_eos' \in BOOLEAN
  PROVE  PInv' /\ UNCHANGED U!vars
BY QuietStep DEF Enter

(* A frame is queued: both sequences grow by the same frame.               *)
LEMMA QueueFrameFacts ==
  ASSUME PInv, NEW kind \in U!Kind, NEW key \in BOOLEAN, NEW empty \in BOOLEAN,
         QueueFrame(kind, key, empty)
  PROVE  /\ media_es' \in Seq(U!Frame) /\ accepted' \in Seq(U!Frame)
         /\ frame_number' \in 0 .. MaxFrames
         /\ Remainder'
         /\ accepted' = Append(accepted, [n |-> Len(accepted) + 1, kind |-> kind,
                                          key |-> key, isKeyFrame |-> 1, empty |-> empty])
         /\ frame_number' - Len(media_es') = frame_number - Len(media_es)
         /\ \A k \in U!Kind : U!HasKind(k, Len(accepted)) => U!HasKind(k, Len(accepted))'
         /\ U!HasKind(kind, Len(accepted))'
         /\ HasKeyFrame => HasKeyFrame'
         /\ kind = "video" /\ key => HasKeyFrame'
<1> DEFINE es == [n |-> frame_number + 1, kind |-> kind, key |-> key,
                  isKeyFrame |-> 1, empty |-> empty]
<1>1. /\ frame_number \in Nat /\ MaxFrames \in Nat /\ frame_number < MaxFrames
      /\ frame_number' = frame_number + 1
      /\ media_es' = Append(media_es, es) /\ accepted' = Append(accepted, es)
      /\ media_es \in Seq(U!Frame) /\ accepted \in Seq(U!Frame)
      /\ Len(accepted) = frame_number
  BY BoundsAssumption DEF PInv, TypeOK, Remainder, QueueFrame
<1>2. /\ es \in U!Frame
      /\ es.n = frame_number + 1 /\ es.kind = kind /\ es.key = key
  BY <1>1 DEF U!Frame
<1> HIDE DEF es
<1>3. /\ media_es' \in Seq(U!Frame) /\ Len(media_es) \in Nat
      /\ Len(media_es') = Len(media_es) + 1 /\ media_es'[Len(media_es) + 1] = es
      /\ \A i \in 1 .. Len(media_es) : media_es'[i] = media_es[i]
  BY <1>1, <1>2, AppendFacts
<1>4. /\ accepted' \in Seq(U!Frame)
      /\ Len(accepted') = frame_number + 1 /\ accepted'[frame_number + 1] = es
      /\ \A i \in 1 .. frame_number : accepted'[i] = accepted[i]
  BY <1>1, <1>2, AppendFacts
<1>5. Remainder'
  <2>1. /\ Len(media_es) <= frame_number
        /\ \A i \in 1 .. Len(media_es) : media_es[i] = accepted[frame_number - Len(media_es) + i]
        /\ \A k \in 1 .. frame_number : accepted[k].n = k
    BY DEF PInv, Remainder
  <2>2. PICK d \in Nat : d = frame_number - Len(media_es)
    <3>1. frame_number - Len(media_es) \in Nat
      BY <1>1, <1>3, <2>1
    <3> QED BY <3>1
  <2>3. frame_number' - Len(media_es') = d
    BY <1>1, <1>3, <2>2
  <2>4. ASSUME NEW i \in 1 .. Len(media_es') PROVE media_es'[i] = accepted'[d + i]
    <3>1. CASE i \in 1 .. Len(media_es)
      <4>1. media_es[i] = accepted[d + i] /\ d + i \in 1 .. frame_number
        BY <1>1, <1>3, <2>1, <2>2, <3>1
      <4> QED BY <4>1, <3>1, <1>3, <1>4
    <3>2. CASE i = Len(media_es) + 1
      BY <3>2, <1>1, <1>3, <1>4, <2>2
    <3> QED BY <3>1, <3>2, <1>3
  <2>5. ASSUME NEW k \in 1 .. frame_number' PROVE accepted'[k].n = k
    <3>1. CASE k \in 1 .. frame_number
      BY <3>1, <1>4, <2>1
    <3>2. CASE k = frame_number + 1
      BY <3>2, <1>2, <1>4
    <3> QED BY <3>1, <3>2, <1>1
  <2>6. frame_number' = Len(accepted') /\ Len(media_es') <= frame_number'
    BY <1>1, <1>3, <1>4, <2>1
  <2> QED BY <2>3, <2>4, <2>5, <2>6 DEF Remainder
<1>6. \A k \in U!Kind : U!HasKind(k, Len(accepted)) => U!HasKind(k, Len(accepted))'
  BY <1>1, <1>4 DEF U!HasKind
<1>7. U!HasKind(kind, Len(accepted))'
  BY <1>1, <1>2, <1>4 DEF U!HasKind
<1>8. HasKeyFrame => HasKeyFrame'
  BY <1>1, <1>4 DEF HasKeyFrame
<1>9. kind = "video" /\ key => HasKeyFrame'
  <2> SUFFICES ASSUME kind = "video", key PROVE HasKeyFrame'
    OBVIOUS
  <2>1. PICK i \in 1 .. Len(accepted') : i = frame_number + 1
    BY <1>1, <1>4
  <2>2. accepted'[i].kind = "video" /\ accepted'[i].key
    BY <1>2, <1>4, <2>1
  <2> QED BY <2>2 DEF HasKeyFrame
<1>10. accepted' = Append(accepted, [n |-> Len(accepted) + 1, kind |-> kind,
                                     key |-> key, isKeyFrame |-> 1, empty |-> empty])
  BY <1>1 DEF es
<1> QED BY <1>1, <1>3, <1>4, <1>5, <1>6, <1>7, <1>8, <1>9, <1>10

(* An audio frame put in media_es_ is a frame the upload accepts. *)
LEMMA AudioRawStep ==
  ASSUME PInv, NEW empty \in BOOLEAN, AudioRaw(empty)
  PROVE  PInv' /\ U!Accept("audio", TRUE, empty)
<1>1. /\ QueueFrame("audio", TRUE, empty)
      /\ audio_frame_number' = audio_frame_number + 1
      /\ UNCHANGED <<video_frame_number, track, session, upload, http>>
      /\ Enter
      /\ "audio" \in U!Kind /\ "video" \in U!Kind /\ audio_frame_number \in Nat
  BY DEF AudioRaw, U!Kind, PInv, TypeOK
<1>2. /\ media_es' \in Seq(U!Frame) /\ accepted' \in Seq(U!Frame)
      /\ frame_number' \in 0 .. MaxFrames
      /\ Remainder'
      /\ U!HasKind("audio", Len(accepted))'
      /\ U!HasKind("video", Len(accepted)) => U!HasKind("video", Len(accepted))'
      /\ HasKeyFrame => HasKeyFrame'
  BY <1>1, QueueFrameFacts
<1>3. PcAgrees' /\ pc' \in {"idle"} \cup U!Op
  BY <1>1, NextRequestFacts DEF Enter
<1>4. TypeOK'
  <2>1. /\ UNCHANGED <<video_frame_number, audio_codec_info, video_codec_info, video_eos,
                       first_video_key_frame_sent, reading, ready_to_end_of_stream,
                       publish_state, publish_id, requests, failures>>
        /\ aborted' = FALSE /\ audio_frame_number' \in Nat
    BY <1>1 DEF track, session, upload, http, Enter
  <2> QED BY <1>2, <1>3, <2>1 DEF PInv, TypeOK
<1>5. TracksSeen'
  BY <1>1, <1>2 DEF PInv, TracksSeen, track
<1>6. IdStarted'
  BY <1>1 DEF PInv, IdStarted, U!Started, upload, http
<1>7. U!Accept("audio", TRUE, empty)
  <2>1. accepted' = Append(accepted, [n |-> Len(accepted) + 1, kind |-> "audio",
                                      key |-> TRUE, isKeyFrame |-> 1, empty |-> empty])
        /\ frame_number' - Len(media_es') = frame_number - Len(media_es)
    BY <1>1, QueueFrameFacts
  <2> QED BY <2>1, <1>1 DEF U!Accept, upload, http
<1> QED BY <1>2, <1>3, <1>4, <1>5, <1>6, <1>7 DEF PInv

(* A video frame put in media_es_ is a frame the upload accepts. *)
LEMMA VideoNaluStep ==
  ASSUME PInv, NEW key \in BOOLEAN, NEW empty \in BOOLEAN, VideoNalu(key, empty)
  PROVE  PInv' /\ U!Accept("video", key, empty)
<1>1. /\ key \/ first_video_key_frame_sent
      /\ first_video_key_frame_sent' \in BOOLEAN
      /\ QueueFrame("video", key, empty)
      /\ video_frame_number' = video_frame_number + 1
      /\ UNCHANGED <<audio_codec_info, video_codec_info, video_eos,
                     audio_frame_number, session, upload, http>>
      /\ Enter
      /\ "audio" \in U!Kind /\ "video" \in U!Kind /\ video_frame_number \in Nat
  BY DEF VideoNalu, U!Kind, PInv, TypeOK
<1>2. /\ media_es' \in Seq(U!Frame) /\ accepted' \in Seq(U!Frame)
      /\ frame_number' \in 0 .. MaxFrames
      /\ Remainder'
      /\ U!HasKind("video", Len(accepted))'
      /\ U!HasKind("audio", Len(accepted)) => U!HasKind("audio", Len(accepted))'
      /\ HasKeyFrame => HasKeyFrame'
      /\ key => HasKeyFrame'
  BY <1>1, QueueFrameFacts
<1>3. PcAgrees' /\ pc' \in {"idle"} \cup U!Op
  BY <1>1, NextRequestFacts DEF Enter
<1>4. TypeOK'
  <2>1. /\ UNCHANGED <<audio_frame_number, audio_codec_info, video_codec_info, video_eos,
                       reading, ready_to_end_of_stream,
                       publish_state, publish_id, requests, failures>>
        /\ aborted' = FALSE /\ video_frame_number' \in Nat
    BY <1>1 DEF session, upload, http, Enter
  <2> QED BY <1>1, <1>2, <1>3, <2>1 DEF PInv, TypeOK
<1>5. TracksSeen'
  BY <1>1, <1>2 DEF PInv, TracksSeen
<1>6. IdStarted'
  BY <1>1 DEF PInv, IdStarted, U!Started, upload, http
<1>7. U!Accept("video", key, empty)
  <2>1. accepted' = Append(accepted, [n |-> Len(accepted) + 1, kind |-> "video",
                                      key |-> key, isKeyFrame |-> 1, empty |-> empty])
        /\ frame_number' - Len(media_es') = frame_number - Len(media_es)
    BY <1>1, QueueFrameFacts
  <2>2. ~key => HasKeyFrame
    BY <1>1 DEF PInv, TracksSeen
  <2> QED BY <2>1, <2>2, <1>1 DEF U!Accept, HasKeyFrame, upload, http
<1> QED BY <1>2, <1>3, <1>4, <1>5, <1>6, <1>7 DEF PInv

(* A request that leaves the queue alone                                   *)
LEMMA RequestStep ==
  ASSUME PInv, NEW op \in U!Op, NEW id \in Nat, NEW n \in Nat, NEW ok \in BOOLEAN,
         Exchange(op, id, n, ok),
         UNCHANGED <<track, counts, session, media_es>>,
         publish_state' \in U!Phase, publish_id' \in Nat, aborted' \in BOOLEAN,
         pc' = NextRequest' \/ pc' = "idle",
         publish_state' # "begin" => publish_id' \in U!Started'
  PROVE  PInv'
<1>1. /\ requests' \in Seq(U!Request)
      /\ failures' \in 0 .. MaxFailures
  BY ExchangeFacts DEF PInv
<1>2. PcAgrees' /\ pc' \in {"idle"} \cup U!Op
  BY NextRequestFacts, IdleFacts
<1>3. TypeOK'
  <2>1. UNCHANGED <<audio_frame_number, video_frame_number, frame_number, accepted,
                    audio_codec_info, video_codec_info, video_eos, media_es,
                    first_video_key_frame_sent, reading, ready_to_end_of_stream>>
    BY DEF track, counts, session
  <2> QED BY <1>1, <1>2, <2>1 DEF PInv, TypeOK
<1>4. Remainder'
  BY DEF PInv, Remainder, counts
<1>5. TracksSeen'
  BY DEF PInv, TracksSeen, HasKeyFrame, U!HasKind, counts, track
<1>6. IdStarted'
  BY DEF IdStarted
<1> QED BY <1>2, <1>3, <1>4, <1>5, <1>6 DEF PInv

(* A request that failed: publish_to_streamer returns.                     *)
LEMMA GiveUpStep ==
  ASSUME PInv, NEW op \in U!Op, NEW n \in Nat,
         Exchange(op, publish_id, n, FALSE) \/
           (op = "begin" /\ Exchange("begin", Len(requests) + 1, n, FALSE)),
         GiveUp, UNCHANGED <<track, counts, session>>
  PROVE  PInv'
<1>1. PICK id \in Nat : Exchange(op, id, n, FALSE)
  <2>1. publish_id \in Nat /\ Len(requests) + 1 \in Nat
    BY DEF PInv, TypeOK
  <2> QED BY <2>1
<1>2. /\ UNCHANGED media_es /\ UNCHANGED upload
      /\ pc' = "idle" /\ aborted' = TRUE
  BY DEF GiveUp
<1>3. publish_state' \in U!Phase /\ publish_id' \in Nat
  BY <1>2 DEF upload, PInv, TypeOK
<1>4. U!Started \subseteq U!Started'
  BY <1>1, ExchangeFacts DEF PInv
<1>5. publish_state' # "begin" => publish_id' \in U!Started'
  BY <1>2, <1>4 DEF PInv, IdStarted, upload
<1> QED BY <1>1, <1>2, <1>3, <1>5, RequestStep

(* begin_publish is a start of the upload, or nothing to it. *)
LEMMA BeginStep ==
  ASSUME PInv, begin_publish
  PROVE  PInv' /\ ((\E ok \in BOOLEAN : U!Start(ok)) \/ UNCHANGED U!vars)
<1>1. /\ publish_state = "begin"
      /\ UNCHANGED <<track, counts, session>>
      /\ frame_number \in Nat /\ frame_number = Len(accepted)
      /\ Len(requests) + 1 \in Nat /\ "begin" \in U!Op
  BY DEF begin_publish, PInv, PcAgrees, Remainder, TypeOK, U!Op
<1>2. CASE /\ Exchange("begin", Len(requests) + 1, frame_number, TRUE)
           /\ publish_id' = Len(requests) + 1
           /\ publish_state' = "init"
           /\ UNCHANGED media_es
           /\ Continue
  <2>1. /\ publish_id' \in U!Started'
        /\ U!Process("begin", Len(requests) + 1, frame_number, TRUE)
    BY <1>1, <1>2, ExchangeFacts DEF PInv
  <2>2. /\ "init" \in U!Phase /\ aborted' \in BOOLEAN /\ pc' = NextRequest'
        /\ publish_id' \in Nat
    BY <1>1, <1>2 DEF Continue, PInv, TypeOK, U!Phase
  <2>3. PInv'
    BY <1>1, <1>2, <2>1, <2>2, RequestStep
  <2>4. U!Start(TRUE)
    BY <1>1, <1>2, <2>1 DEF U!Start, counts
  <2> QED BY <2>3, <2>4
<1>3. CASE Exchange("begin", Len(requests) + 1, frame_number, FALSE) /\ GiveUp
  <2>1. PInv'
    BY <1>1, <1>3, GiveUpStep
  <2>2. \/ U!Process("begin", Len(requests) + 1, frame_number, FALSE)
        \/ requests' = requests
    BY <1>1, <1>3, ExchangeFacts DEF PInv
  <2>3. U!Start(FALSE) \/ UNCHANGED U!vars
    BY <1>1, <1>3, <2>2 DEF U!Start, U!vars, counts, GiveUp, upload
  <2> QED BY <2>1, <2>3
<1> QED BY <1>2, <1>3 DEF begin_publish

(* init_publish is an initialisation of the upload, or nothing to it. *)
LEMMA InitPublishStep ==
  ASSUME PInv, init_publish
  PROVE  PInv' /\ ((\E id \in U!Started, ok \in BOOLEAN : U!Initialise(id, ok))
                     \/ UNCHANGED U!vars)
<1>1. /\ publish_state = "init" /\ ready_to_send
      /\ UNCHANGED <<track, counts, session>>
      /\ frame_number \in Nat /\ frame_number = Len(accepted)
      /\ publish_id \in Nat /\ publish_id \in U!Started /\ "init" \in U!Op
  BY DEF init_publish, PInv, PcAgrees, Remainder, TypeOK, IdStarted, U!Op
<1>1a. \A k \in U!Kind : U!HasKind(k, Len(accepted))
  BY <1>1 DEF ready_to_send, PInv, TracksSeen, U!Kind
<1>2. CASE /\ Exchange("init", publish_id, frame_number, TRUE)
           /\ publish_state' = "publishing"
           /\ UNCHANGED <<publish_id, media_es>>
           /\ Continue
  <2>1. /\ U!Started \subseteq U!Started'
        /\ U!Process("init", publish_id, frame_number, TRUE)
    BY <1>1, <1>2, ExchangeFacts DEF PInv
  <2>2. "publishing" \in U!Phase /\ aborted' \in BOOLEAN /\ pc' = NextRequest'
    BY <1>2 DEF Continue, PInv, TypeOK, U!Phase
  <2>2a. publish_id' \in Nat /\ publish_id' \in U!Started'
    BY <1>1, <1>2, <2>1
  <2>3. PInv'
    BY <1>1, <1>2, <2>2a, <2>2, RequestStep
  <2>4. U!Initialise(publish_id, TRUE)
    BY <1>1, <1>1a, <1>2, <2>1 DEF U!Initialise, counts
  <2> QED BY <1>1, <2>3, <2>4
<1>3. CASE Exchange("init", publish_id, frame_number, FALSE) /\ GiveUp
  <2>1. PInv'
    BY <1>1, <1>3, GiveUpStep
  <2>2. \/ U!Process("init", publish_id, frame_number, FALSE)
        \/ requests' = requests
    BY <1>1, <1>3, ExchangeFacts DEF PInv
  <2>3. U!Initialise(publish_id, FALSE) \/ UNCHANGED U!vars
    BY <1>1, <1>1a, <1>3, <2>2 DEF U!Initialise, U!vars, counts, GiveUp, upload
  <2> QED BY <1>1, <2>1, <2>3
<1> QED BY <1>2, <1>3 DEF init_publish

(* end_publish finishes the upload, or is nothing to it. *)
LEMMA EndStep ==
  ASSUME PInv, end_publish
  PROVE  PInv' /\ ((\E id \in U!Started, ok \in BOOLEAN : U!Finish(id, ok))
                     \/ UNCHANGED U!vars)
<1>1. /\ publish_state # "begin" /\ media_es = <<>>
      /\ UNCHANGED <<track, counts, session>>
      /\ frame_number \in Nat /\ frame_number = Len(accepted)
      /\ publish_id \in Nat /\ publish_id \in U!Started /\ "end" \in U!Op
  BY DEF end_publish, PInv, PcAgrees, Remainder, TypeOK, IdStarted, U!Op
<1>1a. frame_number - Len(media_es) = Len(accepted)
  BY <1>1
<1>2. CASE /\ Exchange("end", publish_id, frame_number, TRUE)
           /\ publish_state' = "end"
           /\ UNCHANGED <<publish_id, media_es, aborted>>
           /\ pc' = "idle"
  <2>1. /\ U!Started \subseteq U!Started'
        /\ U!Process("end", publish_id, frame_number, TRUE)
    BY <1>1, <1>2, ExchangeFacts DEF PInv
  <2>2. "end" \in U!Phase /\ aborted' \in BOOLEAN
    BY <1>2 DEF PInv, TypeOK, U!Phase
  <2>2a. publish_id' \in Nat /\ publish_id' \in U!Started'
    BY <1>1, <1>2, <2>1
  <2>3. PInv'
    BY <1>1, <1>2, <2>2a, <2>2, RequestStep
  <2>4. U!Finish(publish_id, TRUE)
    BY <1>1, <1>1a, <1>2, <2>1 DEF U!Finish, counts
  <2> QED BY <1>1, <2>3, <2>4
<1>3. CASE Exchange("end", publish_id, frame_number, FALSE) /\ GiveUp
  <2>1. PInv'
    BY <1>1, <1>3, GiveUpStep
  <2>2. \/ U!Process("end", publish_id, frame_number, FALSE)
        \/ requests' = requests
    BY <1>1, <1>3, ExchangeFacts DEF PInv
  <2>3. U!Finish(publish_id, FALSE) \/ UNCHANGED U!vars
    BY <1>1, <1>1a, <1>3, <2>2 DEF U!Finish, U!vars, counts, GiveUp, upload
  <2> QED BY <1>1, <2>1, <2>3
<1> QED BY <1>2, <1>3 DEF end_publish

(* The frame at the head is the first one not settled; pop_front leaves    *)
(* the remainder without it.                                               *)
LEMMA PopFacts ==
  ASSUME PInv, media_es # <<>>
  PROVE  /\ frame_number - Len(media_es) < Len(accepted)
         /\ Head(media_es) = accepted[frame_number - Len(media_es) + 1]
         /\ Head(media_es).n = frame_number - Len(media_es) + 1
         /\ Head(media_es).n \in Nat
         /\ Tail(media_es) \in Seq(U!Frame)
         /\ frame_number - Len(Tail(media_es)) = frame_number - Len(media_es) + 1
         /\ media_es' = Tail(media_es) /\ UNCHANGED counts => Remainder'
<1>1. /\ media_es \in Seq(U!Frame) /\ frame_number \in Nat
      /\ Len(media_es) \in Nat /\ Len(media_es) >= 1
      /\ frame_number = Len(accepted) /\ Len(media_es) <= frame_number
      /\ \A i \in 1 .. Len(media_es) : media_es[i] = accepted[frame_number - Len(media_es) + i]
      /\ \A k \in 1 .. frame_number : accepted[k].n = k
  BY DEF PInv, TypeOK, Remainder
<1>2. /\ Head(media_es) = media_es[1]
      /\ Tail(media_es) \in Seq(U!Frame)
      /\ Len(Tail(media_es)) = Len(media_es) - 1
      /\ \A i \in 1 .. Len(media_es) - 1 : Tail(media_es)[i] = media_es[i + 1]
  BY <1>1
<1>3. Head(media_es) = accepted[frame_number - Len(media_es) + 1]
  BY <1>1, <1>2
<1>4. accepted[frame_number - Len(media_es) + 1].n = frame_number - Len(media_es) + 1
  BY <1>1
<1>5. ASSUME media_es' = Tail(media_es), UNCHANGED counts PROVE Remainder'
  <2>1. frame_number' = frame_number /\ accepted' = accepted
    BY <1>5 DEF counts
  <2>2. ASSUME NEW i \in 1 .. Len(Tail(media_es))
        PROVE  Tail(media_es)[i] = accepted[frame_number - Len(Tail(media_es)) + i]
    <3>1. /\ i \in 1 .. Len(media_es) - 1 /\ i + 1 \in 1 .. Len(media_es)
          /\ frame_number - Len(Tail(media_es)) + i = frame_number - Len(media_es) + (i + 1)
      BY <1>1, <1>2
    <3> QED BY <3>1, <1>1, <1>2
  <2> QED BY <1>1, <1>2, <1>5, <2>1, <2>2 DEF Remainder
<1> QED BY <1>1, <1>2, <1>3, <1>4, <1>5

(* publish_es uploads the frame in front, skips an empty one, or is nothing to the upload. *)
LEMMA PublishEsStep ==
  ASSUME PInv, publish_es
  PROVE  PInv' /\ ((\E id \in U!Started, ok \in BOOLEAN : U!Upload(id, ok))
                     \/ U!SkipEmpty \/ UNCHANGED U!vars)
<1> DEFINE d == frame_number - Len(media_es)
           n == Head(media_es).n
<1>1. /\ publish_state = "publishing" /\ media_es # <<>>
      /\ UNCHANGED <<track, counts, session>>
      /\ publish_id \in Nat /\ publish_id \in U!Started /\ "es" \in U!Op
  BY DEF publish_es, PInv, PcAgrees, TypeOK, IdStarted, U!Op
<1>2. /\ d < Len(accepted) /\ Head(media_es) = accepted[d + 1]
      /\ n = d + 1 /\ n \in Nat
      /\ Tail(media_es) \in Seq(U!Frame)
      /\ frame_number - Len(Tail(media_es)) = d + 1
  BY <1>1, PopFacts
<1>3. CASE /\ IF Head(media_es).empty
              THEN UNCHANGED http
              ELSE Exchange("es", publish_id, n, TRUE)
           /\ media_es' = Tail(media_es)
           /\ UNCHANGED upload
           /\ Continue
  <2>1. /\ requests' \in Seq(U!Request) /\ failures' \in 0 .. MaxFailures
        /\ U!Started \subseteq U!Started'
        /\ IF Head(media_es).empty
           THEN requests' = requests
           ELSE U!Process("es", publish_id, n, TRUE)
    <3>1. CASE Head(media_es).empty
      BY <1>3, <3>1 DEF http, PInv, TypeOK, U!Started
    <3>2. CASE ~Head(media_es).empty
      BY <1>1, <1>2, <1>3, <3>2, ExchangeFacts DEF PInv
    <3> QED BY <3>1, <3>2
  <2>2. Remainder'
    BY <1>1, <1>3, PopFacts
  <2>3. PcAgrees' /\ pc' \in {"idle"} \cup U!Op
    BY <1>3, NextRequestFacts DEF Continue
  <2>4. TypeOK'
    <3>1. UNCHANGED <<audio_frame_number, video_frame_number, frame_number, accepted,
                      audio_codec_info, video_codec_info, video_eos,
                      first_video_key_frame_sent, reading, ready_to_end_of_stream,
                      publish_state, publish_id, aborted>>
      BY <1>1, <1>3 DEF track, counts, session, upload, Continue
    <3>2. media_es' \in Seq(U!Frame)
      BY <1>2, <1>3
    <3> QED BY <2>1, <2>3, <3>1, <3>2 DEF PInv, TypeOK
  <2>5. TracksSeen' /\ IdStarted'
    BY <1>1, <1>3, <2>1
       DEF PInv, TracksSeen, HasKeyFrame, IdStarted, U!HasKind, counts, track, upload
  <2>6. d' = d + 1
    BY <1>1, <1>2, <1>3 DEF counts
  <2>7. U!Upload(publish_id, TRUE) \/ U!SkipEmpty
    BY <1>1, <1>2, <1>3, <2>1, <2>6 DEF U!Upload, U!SkipEmpty, counts, upload
  <2> QED BY <1>1, <2>2, <2>3, <2>4, <2>5, <2>7 DEF PInv
<1>4. CASE /\ ~Head(media_es).empty
           /\ Exchange("es", publish_id, n, FALSE)
           /\ GiveUp
  <2>1. PInv'
    BY <1>1, <1>2, <1>4, GiveUpStep
  <2>2. \/ U!Process("es", publish_id, n, FALSE)
        \/ requests' = requests
    BY <1>1, <1>2, <1>4, ExchangeFacts DEF PInv
  <2>3. d' = d /\ UNCHANGED <<accepted, publish_state>>
    BY <1>1, <1>4 DEF counts, GiveUp, upload
  <2>4. U!Upload(publish_id, FALSE) \/ UNCHANGED U!vars
    BY <1>1, <1>2, <1>4, <2>2, <2>3 DEF U!Upload, U!vars
  <2> QED BY <1>1, <2>1, <2>4
<1> QED BY <1>3, <1>4 DEF publish_es

(* Every step of the code preserves the invariant and is a step of the     *)
(* upload, or one the streamer does not see.                               *)
LEMMA NextStep ==
  ASSUME PInv, [Next]_vars
  PROVE  PInv' /\ [U!Next]_U!vars
<1>1. CASE AudioSequenceHeader
  <2>1. PInv' /\ UNCHANGED U!vars
    BY <1>1, EnterStep DEF AudioSequenceHeader, session, PInv, TypeOK
  <2> QED BY <2>1
<1>2. CASE VideoSequenceHeader
  <2>1. PInv' /\ UNCHANGED U!vars
    BY <1>2, EnterStep DEF VideoSequenceHeader, session, PInv, TypeOK
  <2> QED BY <2>1
<1>3. CASE \E empty \in BOOLEAN : AudioRaw(empty)
  <2>1. PICK empty \in BOOLEAN : AudioRaw(empty)
    BY <1>3
  <2>2. "audio" \in U!Kind /\ TRUE \in BOOLEAN
    BY DEF U!Kind
  <2> QED BY <2>1, <2>2, AudioRawStep DEF U!Next
<1>4. CASE \E key, empty \in BOOLEAN : VideoNalu(key, empty)
  <2>1. PICK key \in BOOLEAN, empty \in BOOLEAN : VideoNalu(key, empty)
    BY <1>4
  <2>2. "video" \in U!Kind
    BY DEF U!Kind
  <2> QED BY <2>1, <2>2, VideoNaluStep DEF U!Next
<1>5. CASE VideoEndOfSequence
  <2>1. PInv' /\ UNCHANGED U!vars
    BY <1>5, EnterStep DEF VideoEndOfSequence, session, PInv, TypeOK
  <2> QED BY <2>1
<1>6. CASE UNCHANGED vars
  <2>1. PInv'
    BY <1>6 DEF vars, track, counts, session, upload, http, PInv, TypeOK, Remainder,
                PcAgrees, TracksSeen, HasKeyFrame, IdStarted, ready_to_send,
                U!HasKind, U!Started
  <2>2. UNCHANGED U!vars
    BY <1>6 DEF vars, counts, upload, http, U!vars
  <2> QED BY <2>1, <2>2
<1>7. CASE handle_create_stream \/ handle_delete_stream
  <2>1. /\ UNCHANGED <<media_es, counts, upload, http, aborted, track, reading>>
        /\ ready_to_end_of_stream' \in BOOLEAN /\ pc' = "idle"
    BY <1>7 DEF handle_create_stream, handle_delete_stream, Receiving, Handling
  <2>2. PInv' /\ UNCHANGED U!vars
    BY <2>1, QuietStep DEF track, PInv, TypeOK
  <2> QED BY <2>2
<1>8. CASE ReadEnds \/ WriteFails
  <2>1. /\ Enter /\ UNCHANGED <<media_es, counts, upload, http, track>>
        /\ ready_to_end_of_stream' \in BOOLEAN /\ reading' \in BOOLEAN
    BY <1>8 DEF ReadEnds, WriteFails, notify_disconnect, PInv, TypeOK
  <2>2. PInv' /\ UNCHANGED U!vars
    BY <2>1, EnterStep DEF track, PInv, TypeOK
  <2> QED BY <2>2
<1>9. CASE publish_to_streamer
  BY <1>9, BeginStep, InitPublishStep, PublishEsStep, EndStep
     DEF publish_to_streamer, U!Next
<1> QED BY <1>1, <1>2, <1>3, <1>4, <1>5, <1>6, <1>7, <1>8, <1>9
        DEF Next, handle_media_message, Dropped, Closed

(* The types, for every bound: what every step of the code may rely on.    *)
THEOREM TypeCorrect == Spec => []TypeOK
<1>1. PInv => TypeOK
  BY DEF PInv
<1> QED BY <1>1, InitPInv, NextStep, PTL DEF Spec

(* A connection just accepted is an upload not begun. *)
LEMMA InitUpload == Init => U!Init
<1>1. Len(media_es) = 0 => 0 - Len(media_es) = 0
  OBVIOUS
<1>2. media_es = <<>> => Len(media_es) = 0
  BY EmptySeq
<1> QED BY <1>1, <1>2 DEF Init, U!Init

(* publish_to_streamer implements the upload, whatever the bounds.         *)
THEOREM Refinement == Spec => Upload
BY InitPInv, InitUpload, NextStep, PTL DEF Spec, Upload, U!Spec

(* media_es_ is what remains of the accepted frames, whatever fails.       *)
THEOREM NothingQueuedIsLost == Spec => []QueueIsRemainder
<1>1. PInv => QueueIsRemainder
  <2> SUFFICES ASSUME PInv
               PROVE  media_es = SubSeq(accepted, frame_number - Len(media_es) + 1, frame_number)
    BY DEF PInv, Remainder, QueueIsRemainder
  <2>1. /\ media_es \in Seq(U!Frame) /\ accepted \in Seq(U!Frame) /\ Len(media_es) \in Nat
        /\ frame_number \in Nat /\ frame_number = Len(accepted) /\ Len(media_es) <= frame_number
        /\ \A i \in 1 .. Len(media_es) : media_es[i] = accepted[frame_number - Len(media_es) + i]
    BY DEF PInv, TypeOK, Remainder
  <2> DEFINE m == frame_number - Len(media_es) + 1
             q == SubSeq(accepted, m, frame_number)
  <2>2. m \in 1 .. Len(accepted) + 1 /\ frame_number \in m - 1 .. Len(accepted)
    BY <2>1
  <2>3. /\ q \in Seq(U!Frame)
        /\ Len(q) = frame_number - m + 1
        /\ \A i \in 1 .. frame_number - m + 1 : q[i] = accepted[m + i - 1]
    BY <2>1, <2>2, SubSeqProperties
  <2>4. Len(q) = Len(media_es) /\ \A i \in 1 .. Len(media_es) : q[i] = media_es[i]
    BY <2>1, <2>3
  <2> HIDE DEF q
  <2>5. q = media_es
    BY <2>1, <2>3, <2>4, SeqEqual
  <2> QED BY <2>5 DEF q
<1> QED BY <1>1, InitPInv, NextStep, PTL DEF Spec

(* The upload has no gap and never goes back, is one upload, initialised   *)
(* once with both tracks before any frame, closed when drained and then    *)
(* left alone: the code inherits it from UploadProtocol.                   *)
THEOREM UploadIsSafe ==
  Spec => [](/\ NoGap /\ InOrder /\ OneUpload /\ FramesAfterInit /\ InitHasBothTracks
             /\ EndAfterDrain /\ QuietAfterEnd /\ KeyFrameFirst)
<1>1. Init => P!Init
  BY InitUpload DEF U!Init, P!Init
<1>2. PInv /\ [Next]_vars => PInv' /\ [P!Next]_P!vars
  <2>1. [U!Next]_U!vars => [P!Next]_P!vars
    BY DEF U!Next, U!vars, U!Accept, U!Start, U!Initialise, U!Upload, U!SkipEmpty,
           U!Finish, U!Started, U!Process, U!HasKind, U!Kind,
           P!Next, P!vars, P!Accept, P!Start, P!Initialise, P!Upload, P!SkipEmpty,
           P!Finish, P!Started, P!Process, P!HasKind, P!Kind
  <2> QED BY <2>1, NextStep
<1>3. Spec => P!Spec
  BY <1>1, <1>2, InitPInv, PTL DEF Spec, P!Spec
<1>4. /\ P!NoGap => NoGap
      /\ P!InOrder => InOrder
      /\ P!OneUpload => OneUpload
      /\ P!FramesAfterInit => FramesAfterInit
      /\ P!InitHasBothTracks => InitHasBothTracks
      /\ P!EndAfterDrain => EndAfterDrain
      /\ P!QuietAfterEnd => QuietAfterEnd
      /\ P!KeyFrameFirst => KeyFrameFirst
  BY DEF NoGap, U!NoGap, P!NoGap, InOrder, U!InOrder, P!InOrder, OneUpload, U!OneUpload,
         P!OneUpload, FramesAfterInit, U!FramesAfterInit, P!FramesAfterInit,
         InitHasBothTracks, U!InitHasBothTracks, P!InitHasBothTracks,
         EndAfterDrain, U!EndAfterDrain, P!EndAfterDrain,
         QuietAfterEnd, U!QuietAfterEnd, P!QuietAfterEnd,
         KeyFrameFirst, U!KeyFrameFirst, P!KeyFrameFirst,
         U!Acknowledged, P!Acknowledged, U!Settled, P!Settled, U!HasKind, P!HasKind,
         U!Kind, P!Kind
<1> QED BY <1>3, <1>4, P!UploadSafety, PTL

(* The same, one promise of the run at a time: no gap at the streamer,     *)
THEOREM StreamerSeesNoGap == Spec => []NoGap
BY UploadIsSafe, PTL

(* frames in the order of media_es_, again only after a lost reply,        *)
THEOREM FramesComeInOrder == Spec => []InOrder
BY UploadIsSafe, PTL

(* one upload, whatever was retried,                                       *)
THEOREM UploadIsOne == Spec => []OneUpload
BY UploadIsSafe, PTL

(* initialised once with both tracks before any frame, the first video     *)
(* frame a key frame,                                                      *)
THEOREM UploadStartsComplete == Spec => []StartsComplete
<1>1. InitHasBothTracks /\ FramesAfterInit /\ KeyFrameFirst => StartsComplete
  BY DEF StartsComplete
<1> QED BY <1>1, UploadIsSafe, PTL

(* and closed when drained, with nothing but the DELETE after it.          *)
THEOREM UploadEndsComplete == Spec => []EndsComplete
<1>1. EndAfterDrain /\ QuietAfterEnd => EndsComplete
  BY DEF EndsComplete
<1> QED BY <1>1, UploadIsSafe, PTL

-----------------------------------------------------------------------------
(* Reading ends only with notify_disconnect, which asks for the end of the *)
(* stream; what takes that back (createStream) needs a message.            *)
EndIsAsked == reading \/ ready_to_end_of_stream

FlushInv == EndIsAsked /\ FlushedAtDisconnect

(* Once the end is asked for, publish_to_streamer stops of its own accord  *)
(* only where FlushedAtDisconnect allows it.                               *)
LEMMA StopsFlushed ==
  ASSUME ready_to_end_of_stream', publish_state' \in U!Phase, pc' = NextRequest'
  PROVE  FlushedAtDisconnect'
BY DEF NextRequest, FlushedAtDisconnect, U!Phase

(* Every step keeps FlushInv. *)
LEMMA NextFlush == PInv /\ PInv' /\ FlushInv /\ [Next]_vars => FlushInv'
<1> SUFFICES ASSUME PInv, PInv', FlushInv, [Next]_vars PROVE FlushInv'
  OBVIOUS
<1>a. publish_state' \in U!Phase /\ ready_to_end_of_stream \in BOOLEAN /\ reading \in BOOLEAN
  BY DEF PInv, TypeOK
<1>1. CASE reading'
  BY <1>1 DEF FlushInv, EndIsAsked, FlushedAtDisconnect
<1>2. CASE ~reading' /\ ReadEnds
  BY <1>a, <1>2, StopsFlushed DEF ReadEnds, notify_disconnect, Enter, FlushInv, EndIsAsked
<1>3. CASE ~reading' /\ WriteFails
  BY <1>a, <1>3, StopsFlushed DEF WriteFails, notify_disconnect, Enter, FlushInv, EndIsAsked
<1>4. CASE ~reading' /\ publish_to_streamer
  <2>1. UNCHANGED <<reading, ready_to_end_of_stream>> /\ ready_to_end_of_stream'
    <3>1. UNCHANGED session
      BY <1>4 DEF publish_to_streamer, begin_publish, init_publish, publish_es, end_publish
    <3>2. reading' = reading /\ ready_to_end_of_stream' = ready_to_end_of_stream
      BY <3>1 DEF session
    <3> QED BY <1>4, <3>2, Zenon DEF FlushInv, EndIsAsked
  <2>2. \/ pc' = NextRequest' \/ aborted' = TRUE \/ publish_state' = "end"
    BY <1>4 DEF publish_to_streamer, begin_publish, init_publish, publish_es, end_publish,
         Continue, GiveUp
  <2> QED BY <1>a, <2>1, <2>2, StopsFlushed DEF FlushInv, EndIsAsked, FlushedAtDisconnect
<1>5. CASE UNCHANGED vars
  BY <1>5 DEF vars, session, upload, track, counts, FlushInv, EndIsAsked, FlushedAtDisconnect,
       ready_to_send
<1>6. CASE ~reading' /\ (handle_media_message \/ handle_create_stream \/ handle_delete_stream)
  <2>1. Receiving /\ (UNCHANGED session \/ UNCHANGED reading \/ UNCHANGED vars)
    BY <1>6 DEF handle_media_message, AudioSequenceHeader, VideoSequenceHeader, AudioRaw,
         VideoNalu, VideoEndOfSequence, Dropped, handle_create_stream, handle_delete_stream
  <2>2. reading /\ reading' = reading
    BY <2>1 DEF Receiving, vars, session
  <2> QED BY <1>6, <2>2, Zenon
<1> QED BY <1>1, <1>2, <1>3, <1>4, <1>5, <1>6 DEF Next, Closed

(* A connection that has ended without a failed request has closed its     *)
(* upload, or never had both tracks for it, or took frames after the close.*)
THEOREM FlushedWhenOver == Spec => []FlushedAtDisconnect
<1>1. Init => FlushInv
  BY DEF Init, FlushInv, EndIsAsked, FlushedAtDisconnect
<1>2. PInv /\ FlushInv /\ [Next]_vars => PInv' /\ FlushInv'
  BY NextStep, NextFlush
<1>3. FlushInv => FlushedAtDisconnect
  BY DEF FlushInv
<1> QED BY <1>1, <1>2, <1>3, InitPInv, PTL DEF Spec
=============================================================================
