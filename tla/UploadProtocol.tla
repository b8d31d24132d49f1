--------------------------- MODULE UploadProtocol ---------------------------
(***************************************************************************)
(* What one RTMP connection promises to the streamer it uploads to: one    *)
(* upload, started, initialised, fed with the accepted frames in their     *)
(* order at least once and without a gap, and closed.                      *)
(*                                                                         *)
(* This is the abstract specification of the upload.  It knows nothing of  *)
(* the queue, of RTMP messages, of the handlers or of the order in which   *)
(* the code tries things; Publisher.tla models those and is shown to       *)
(* implement this module.                                                  *)
(***************************************************************************)
EXTENDS Integers, Sequences

VARIABLES
  accepted,   \* every elementary-stream frame taken from the client, in order
  requests,   \* every HTTP request the streamer has processed, in order
  phase,      \* how far the upload has come, as the uploader knows it
  done        \* the first done frames of accepted need no further attention

vars == <<accepted, requests, phase, done>>

Kind  == {"audio", "video"}
Phase == {"begin", "init", "publishing", "end"}
Op    == {"begin", "init", "es", "end"}

(* A frame: its number in the upload, its track, whether it came as a key  *)
(* frame, the flag that is sent with it (see make_media_es), and whether   *)
(* it has no payload at all.                                               *)
Frame == [n : Nat, kind : Kind, key : BOOLEAN, isKeyFrame : {1}, empty : BOOLEAN]

(* A request: its operation, the upload it names, the frame it carries     *)
(* (for the other operations: how many frames had been accepted when it    *)
(* was made) and whether the uploader learnt that it succeeded.            *)
Request == [op : Op, id : Nat, n : Nat, ok : BOOLEAN]

TypeOK ==
  /\ accepted \in Seq(Frame)
  /\ requests \in Seq(Request)
  /\ phase \in Phase
  /\ done \in 0 .. Len(accepted)

Init ==
  /\ accepted = <<>>
  /\ requests = <<>>
  /\ phase = "begin"
  /\ done = 0

-----------------------------------------------------------------------------
HasKind(k, upto) == \E i \in 1 .. upto : accepted[i].kind = k

(* The frame is numbered by its position and no video frame precedes the   *)
(* first key frame.                                                        *)
Accept(kind, key, empty) ==
  /\ kind = "video" /\ ~key =>
       \E i \in 1 .. Len(accepted) : accepted[i].kind = "video" /\ accepted[i].key
  /\ accepted' = Append(accepted, [n |-> Len(accepted) + 1, kind |-> kind,
                                   key |-> key, isKeyFrame |-> 1, empty |-> empty])
  /\ UNCHANGED <<requests, phase, done>>

Process(op, id, n, ok) ==
  requests' = Append(requests, [op |-> op, id |-> id, n |-> n, ok |-> ok])

(* Upload ids are given out by the streamer: the id of an upload is the    *)
(* position of the request that created it, so that no two coincide.       *)
Start(ok) ==
  /\ phase = "begin"
  /\ Process("begin", Len(requests) + 1, Len(accepted), ok)
  /\ phase' = IF ok THEN "init" ELSE phase
  /\ UNCHANGED <<accepted, done>>

(* The uploads this uploader knows it has started *)
Started ==
  {requests[i].id : i \in {j \in 1 .. Len(requests) :
                             requests[j].op = "begin" /\ requests[j].ok}}

Initialise(id, ok) ==
  /\ phase = "init"
  /\ \A k \in Kind : HasKind(k, Len(accepted))
  /\ Process("init", id, Len(accepted), ok)
  /\ phase' = IF ok THEN "publishing" ELSE phase
  /\ UNCHANGED <<accepted, done>>

Upload(id, ok) ==
  /\ phase = "publishing"
  /\ done < Len(accepted)
  /\ ~accepted[done + 1].empty
  /\ Process("es", id, done + 1, ok)
  /\ done' = IF ok THEN done + 1 ELSE done
  /\ UNCHANGED <<accepted, phase>>

SkipEmpty ==
  /\ phase = "publishing"
  /\ done < Len(accepted)
  /\ accepted[done + 1].empty
  /\ done' = done + 1
  /\ UNCHANGED <<accepted, requests, phase>>

Finish(id, ok) ==
  /\ phase # "begin"
  /\ done = Len(accepted)
  /\ Process("end", id, Len(accepted), ok)
  /\ phase' = IF ok THEN "end" ELSE phase
  /\ UNCHANGED <<accepted, done>>

Next ==
  \/ \E kind \in Kind, key, empty \in BOOLEAN : Accept(kind, key, empty)
  \/ \E ok \in BOOLEAN : Start(ok)
  \/ \E id \in Started, ok \in BOOLEAN :
       Initialise(id, ok) \/ Upload(id, ok) \/ Finish(id, ok)
  \/ SkipEmpty

Spec == Init /\ [][Next]_vars

-----------------------------------------------------------------------------
Acknowledged(op, j) == requests[j].op = op /\ requests[j].ok

(* Frame k needs nothing more: it is empty, or one of the first m requests *)
(* carried it and was acknowledged.                                        *)
Settled(k, m) ==
  \/ accepted[k].empty
  \/ \E i \in 1 .. m : Acknowledged("es", i) /\ requests[i].n = k

(* When the streamer processes a frame, every earlier frame has already    *)
(* been acknowledged (publish_to_streamer.cpp pops a frame only after its  *)
(* POST succeeded): no gap, whatever failed and was retried.               *)
NoGap ==
  \A j \in 1 .. Len(requests) :
    requests[j].op = "es" =>
      /\ requests[j].n \in 1 .. Len(accepted)
      /\ \A k \in 1 .. requests[j].n - 1 : Settled(k, j - 1)

(* Frames reach the streamer in their order; a frame that comes again is a *)
(* retry of the one whose reply was lost, never an older one.              *)
InOrder ==
  \A i, j \in 1 .. Len(requests) :
    i < j /\ requests[i].op = "es" /\ requests[j].op = "es" =>
      \/ requests[i].n < requests[j].n
      \/ requests[i].n = requests[j].n /\ ~requests[i].ok

(* Every request after the start names one and the same upload, which this *)
(* uploader started; an upload whose start was not acknowledged is never   *)
(* used.                                                                   *)
OneUpload ==
  \A j \in 1 .. Len(requests) :
    /\ requests[j].op # "begin" =>
         \E i \in 1 .. j - 1 : Acknowledged("begin", i) /\ requests[i].id = requests[j].id
    /\ Acknowledged("begin", j) =>
         \A i \in 1 .. Len(requests) : requests[i].op = "begin" => i <= j

(* No frame reaches the streamer before an acknowledged init, and the init *)
(* is acknowledged at most once.                                           *)
FramesAfterInit ==
  \A j \in 1 .. Len(requests) :
    /\ requests[j].op = "es" => \E i \in 1 .. j - 1 : Acknowledged("init", i)
    /\ Acknowledged("init", j) =>
         \A i \in 1 .. Len(requests) : requests[i].op = "init" => i <= j

(* The upload is initialised only when an audio and a video frame exist.   *)
InitHasBothTracks ==
  \A j \in 1 .. Len(requests) :
    requests[j].op = "init" => \A k \in Kind : HasKind(k, requests[j].n)

(* The upload is closed only when every frame accepted until then is       *)
(* settled.                                                                *)
EndAfterDrain ==
  \A j \in 1 .. Len(requests) :
    requests[j].op = "end" => \A k \in 1 .. requests[j].n : Settled(k, j - 1)

(* After an acknowledged close nothing but a repeated close is sent.       *)
QuietAfterEnd ==
  \A i, j \in 1 .. Len(requests) :
    i < j /\ Acknowledged("end", i) => requests[j].op = "end"

(* Video starts with a key frame.                                          *)
KeyFrameFirst ==
  \A k \in 1 .. Len(accepted) :
    accepted[k].kind = "video" =>
      \E i \in 1 .. k : accepted[i].kind = "video" /\ accepted[i].key

=============================================================================
