---------------------------- MODULE FlvRecorder ----------------------------
(***************************************************************************)
(* The recorder (logic/write_flv.cpp): what the media messages of several  *)
(* connections leave on disk.  Files are named after the stream, opened    *)
(* for append at every message and shared by whatever connection has the   *)
(* same name; the flag and the counters that number and head them are in   *)
(* the media context of one connection.                                    *)
(*                                                                         *)
(* The bytes of a tag are the subject of FlvMedia; here a tag is the message *)
(* it holds.  The process may stop between two messages, in a tag or among *)
(* the dump files of a message; files stay, contexts do not.               *)
(***************************************************************************)
EXTENDS Naturals, Sequences, FiniteSets

CONSTANTS
  Connections,   \* the connections the server accepts
  StreamNames,   \* the names they publish
  MaxMessages,   \* bound on the media messages of all connections
  MaxRestarts,   \* bound on the restarts of the process
  MaxPublishes   \* bound on the publish commands of all connections

Anonymous == "anonymous"

ASSUME RecorderAssumption ==
  /\ Anonymous \notin StreamNames /\ "" \notin StreamNames
  /\ {MaxMessages, MaxRestarts, MaxPublishes} \subseteq Nat

VARIABLES
  open,         \* the connections that are open
  ended,        \* the connections that are closed or died with the process
  stream_name_, \* of each context, empty before publish
  write_flv_header_done,
  index,        \* media_index, audio_index and video_index of each context
  flv,          \* the FLV file of each name
  dump,         \* the dump files, by name, directory and number
  messages,     \* history: the kinds of the media messages of each connection
  names,        \* history: the names each connection recorded under
  halted,       \* history: the connections in whose last message the process ended
  restarts, publishes

context == <<stream_name_, write_flv_header_done, index>>
disk == <<flv, dump>>
history == <<messages, names, halted>>
vars == <<open, ended, context, disk, history, restarts, publishes>>

Files == StreamNames \union {Anonymous}
MediaKinds == {"audio", "video"}
Directories == {"media_message_header_and_data", "audio_message_header",
                "audio_message_data", "video_message_header", "video_message_data"}

(* The n-th media message of a connection in a dump file, whole or cut. *)
Message == Connections \X (1 .. MaxMessages) \X BOOLEAN
FlvHeader(c) == [part |-> "header", connection |-> c, message |-> 0, whole |-> TRUE]
Tag(c, n, whole) == [part |-> "tag", connection |-> c, message |-> n, whole |-> whole]

DumpFiles == Files \X Directories \X (1 .. MaxMessages)

Init ==
  /\ open = {} /\ ended = {}
  /\ stream_name_ = [c \in Connections |-> ""]
  /\ write_flv_header_done = [c \in Connections |-> FALSE]
  /\ index = [c \in Connections |-> [media |-> 0, audio |-> 0, video |-> 0]]
  /\ flv = [f \in Files |-> <<>>]
  /\ dump = [d \in {} |-> <<>>]
  /\ messages = [c \in Connections |-> <<>>]
  /\ names = [c \in Connections |-> {}] /\ halted = {}
  /\ restarts = 0 /\ publishes = 0

MessageCount ==
  Cardinality(UNION {{c} \X DOMAIN messages[c] : c \in Connections})

-----------------------------------------------------------------------------
Accept(c) ==
  /\ c \notin open \union ended
  /\ open' = open \union {c}
  /\ UNCHANGED <<ended, context, disk, history, restarts, publishes>>

Close(c) ==
  /\ c \in open
  /\ open' = open \ {c} /\ ended' = ended \union {c}
  /\ UNCHANGED <<context, disk, history, restarts, publishes>>

HandlePublish_NewHeader(c, name) ==
  /\ c \in open /\ publishes < MaxPublishes
  /\ publishes' = publishes + 1
  /\ stream_name_' = [stream_name_ EXCEPT ![c] = name]
  /\ write_flv_header_done' = [write_flv_header_done EXCEPT ![c] = FALSE]
  /\ UNCHANGED <<open, ended, index, disk, history, restarts>>

(* handle_publish: the name may change at any time, also between messages. *)
HandlePublish(c, name) ==
  /\ c \in open /\ publishes < MaxPublishes
  /\ publishes' = publishes + 1
  /\ stream_name_' = [stream_name_ EXCEPT ![c] = name]
  /\ UNCHANGED <<open, ended, write_flv_header_done, index, disk, history, restarts>>

RecordName(c) == IF stream_name_[c] = "" THEN Anonymous ELSE stream_name_[c]

WriteFlv_EveryTime(c, n, whole) ==
  /\ write_flv_header_done' = [write_flv_header_done EXCEPT ![c] = TRUE]
  /\ flv' = [flv EXCEPT ![RecordName(c)] =
               @ \o <<FlvHeader(c), Tag(c, n, whole)>>]

WriteFlv_HeaderLast(c, n, whole) ==
  /\ write_flv_header_done' = [write_flv_header_done EXCEPT ![c] = TRUE]
  /\ flv' = [flv EXCEPT ![RecordName(c)] =
               @ \o <<Tag(c, n, whole)>> \o
               (IF write_flv_header_done[c] THEN <<>> ELSE <<FlvHeader(c)>>)]

(* write_flv: the header once per context, then the tag; a process that    *)
(* dies may leave the tag cut short.                                       *)
WriteFlv(c, n, whole) ==
  /\ write_flv_header_done' = [write_flv_header_done EXCEPT ![c] = TRUE]
  /\ flv' = [flv EXCEPT ![RecordName(c)] =
               (IF write_flv_header_done[c] THEN @ ELSE Append(@, FlvHeader(c)))
               \o <<Tag(c, n, whole)>>]

DumpNumber_Shared(next, directory) == next.media

DumpNumber(next, directory) ==
  CASE directory = "media_message_header_and_data" -> next.media
    [] directory \in {"audio_message_header", "audio_message_data"} -> next.audio
    [] OTHER -> next.video

(* write_flv_media_message_dump: one file with header and data, and one    *)
(* each in the directories of the kind, in this order.                     *)
DirectoriesOf(kind) ==
  {"media_message_header_and_data"} \union
  IF kind = "audio" THEN {"audio_message_header", "audio_message_data"}
                    ELSE {"video_message_header", "video_message_data"}

DumpOrder(directory) ==
  CASE directory = "media_message_header_and_data" -> 1
    [] directory \in {"audio_message_header", "video_message_header"} -> 2
    [] OTHER -> 3

FirstDumps(kind, k) == {d \in DirectoriesOf(kind) : DumpOrder(d) <= k}

Dumped(d) == IF d \in DOMAIN dump THEN dump[d] ELSE <<>>

(* The files it opened, and of those the ones it finished: all of them     *)
(* unless the process ends.                                                *)
WriteDump(c, n, kind, opened, finished) ==
  LET next == [index[c] EXCEPT !.media = @ + 1, ![kind] = @ + 1]
      files == {<<RecordName(c), d, DumpNumber(next, d)>> : d \in opened}
  IN  /\ index' = [index EXCEPT ![c] = next]
      /\ dump' = [d \in DOMAIN dump \union files |->
                    IF d \in files THEN Append(Dumped(d), <<c, n, d[2] \in finished>>)
                                   ELSE dump[d]]

Receive(c, kind) ==
  /\ c \in open /\ MessageCount < MaxMessages
  /\ messages' = [messages EXCEPT ![c] = Append(@, kind)]
  /\ names' = [names EXCEPT ![c] = @ \union {RecordName(c)}]

(* handle_media_message, as far as the disk is concerned. *)
HandleMediaMessage(c, kind) ==
  LET n == Len(messages[c]) + 1 IN
  /\ Receive(c, kind)
  /\ WriteFlv(c, n, TRUE)
  /\ WriteDump(c, n, kind, DirectoriesOf(kind), DirectoriesOf(kind))
  /\ UNCHANGED <<open, ended, stream_name_, halted, restarts, publishes>>

ProcessEnds_KeepsOpen ==
  /\ restarts < MaxRestarts
  /\ restarts' = restarts + 1
  /\ open' = open /\ ended' = ended \union open

(* The process stops: contexts and connections are gone. *)
ProcessEnds ==
  /\ restarts < MaxRestarts
  /\ restarts' = restarts + 1
  /\ open' = {} /\ ended' = ended \union open

Restart ==
  /\ ProcessEnds
  /\ UNCHANGED <<context, disk, history, publishes>>

(* It stops while write_flv writes a tag; no dump is written.              *)
RestartInTag(c, kind) ==
  /\ Receive(c, kind)
  /\ WriteFlv(c, Len(messages[c]) + 1, FALSE)
  /\ halted' = halted \union {c}
  /\ ProcessEnds
  /\ UNCHANGED <<stream_name_, index, dump, publishes>>

(* It stops after the tag, before the last dump file is written: the first *)
(* k are whole, and the next may be there, cut.                            *)
RestartInDumps(c, kind) ==
  LET n == Len(messages[c]) + 1 IN
  /\ Receive(c, kind)
  /\ WriteFlv(c, n, TRUE)
  /\ \E k \in 0 .. 2 : \E reached \in {k, k + 1} :
       WriteDump(c, n, kind, FirstDumps(kind, reached), FirstDumps(kind, k))
  /\ halted' = halted \union {c}
  /\ ProcessEnds
  /\ UNCHANGED <<stream_name_, publishes>>

Ended == ended = Connections /\ UNCHANGED vars

Next ==
  \/ \E c \in Connections :
       \/ Accept(c) \/ Close(c)
       \/ \E name \in StreamNames : HandlePublish(c, name)
       \/ \E kind \in MediaKinds :
            \/ HandleMediaMessage(c, kind)
            \/ RestartInTag(c, kind) \/ RestartInDumps(c, kind)
  \/ Restart
  \/ Ended

Spec == Init /\ [][Next]_vars

-----------------------------------------------------------------------------
FileRange(file) == {file[i] : i \in DOMAIN file}
Writers(f) == {item.connection : item \in FileRange(flv[f])}

(* Every variable has its type; a context numbers its messages by kind. *)
TypeOK ==
  /\ open \subseteq Connections /\ ended \subseteq Connections \ open
  /\ halted \subseteq ended
  /\ stream_name_ \in [Connections -> StreamNames \union {""}]
  /\ write_flv_header_done \in [Connections -> BOOLEAN]
  /\ index \in [Connections -> [{"media", "audio", "video"} -> 0 .. MaxMessages]]
  /\ \A f \in Files : \A item \in FileRange(flv[f]) :
       item.connection \in Connections /\ item.message \in 0 .. MaxMessages
  /\ DOMAIN dump \subseteq DumpFiles
  /\ \A d \in DOMAIN dump : dump[d] \in Seq(Message) /\ dump[d] # <<>>
  /\ restarts \in 0 .. MaxRestarts /\ publishes \in 0 .. MaxPublishes

OneWriter ==
  \A c \in Connections, f \in Files :
    Writers(f) = {c} /\ names[c] = {f} =>
      /\ Len(flv[f]) = Len(messages[c]) + 1
      /\ flv[f][1] = FlvHeader(c)
      /\ \A n \in DOMAIN messages[c] : flv[f][n + 1].message = n

HeadersAreWritersFirst ==
  \A f \in Files : flv[f] # <<>> =>
    \/ flv[f][1].part = "header"
    \/ Cardinality(names[flv[f][1].connection]) > 1

(* A file that one connection wrote alone, and whose name is the only one  *)
(* that connection recorded under, is a recording: one header, then a tag  *)
(* for each of its media messages, in order.  Of the others, write_flv     *)
(* leaves without a header at their head only those begun by a connection  *)
(* that had changed its name.                                              *)
RecordingIsWhole == OneWriter /\ HeadersAreWritersFirst

InOneFile ==
  \A c \in Connections :
    LET entries == {e \in Files \X (1 .. 2 * MaxMessages) :
                      /\ e[2] <= Len(flv[e[1]])
                      /\ flv[e[1]][e[2]].connection = c}
        entry(e) == flv[e[1]][e[2]].message
    IN  /\ Cardinality(entries) =
             Len(messages[c]) + (IF messages[c] = <<>> THEN 0 ELSE 1)
        /\ {entry(e) : e \in entries} =
             IF messages[c] = <<>> THEN {} ELSE 0 .. Len(messages[c])
        /\ \A d, e \in entries :
             d[1] = e[1] /\ d[2] < e[2] => entry(d) < entry(e)

KindCount(c, n) ==
  Cardinality({m \in 1 .. n : messages[c][m] = messages[c][n]})

NumberIn(c, n, d) ==
  IF d = "media_message_header_and_data" THEN n ELSE KindCount(c, n)

WholeIn(n, f) == \E i \in DOMAIN flv[f] : flv[f][i].message = n /\ flv[f][i].whole

(* The process ended in this message: cut can only be what it was writing. *)
Halted(c, n) == c \in halted /\ n = Len(messages[c])

CutTags ==
  \A f \in Files : \A i \in DOMAIN flv[f] :
    ~flv[f][i].whole => Halted(flv[f][i].connection, flv[f][i].message)

(* The dump file of a message in a directory, when k of the three were     *)
(* finished.                                                               *)
DumpHolds(c, n, f, d, k) ==
  LET content == Dumped(<<f, d, NumberIn(c, n, d)>>)
  IN  IF WholeIn(n, f) /\ DumpOrder(d) <= k
        THEN content = <<<<c, n, TRUE>>>>
        ELSE \/ content = <<>>
             \/ /\ content = <<<<c, n, FALSE>>>>
                /\ WholeIn(n, f) /\ DumpOrder(d) = k + 1

Finished(c, n) == IF Halted(c, n) THEN 0 .. 2 ELSE {3}

DumpedOnce ==
  \A c \in Connections, f \in Files :
    Writers(f) = {c} =>
      \A n \in DOMAIN messages[c] :
        \E k \in Finished(c, n) :
          \A d \in DirectoriesOf(messages[c][n]) : DumpHolds(c, n, f, d, k)

(* Whatever files it shares and however often it changes its name, a       *)
(* connection leaves one header, and each of its messages once, in order   *)
(* within each file.  No tag is cut but that of a message the process      *)
(* ended in, which is the last of its connection, and there is at most one *)
(* for each end.  Under a name that only one connection used, a message    *)
(* whose tag is whole is in the file with its number among all, and in     *)
(* those with its number among its kind, whole and alone: in all three, or *)
(* in the first few of them and perhaps cut in the next one when the       *)
(* process ended in it.  A message whose tag is cut is in none.            *)
EveryMessageOnce ==
  InOneFile /\ CutTags /\ Cardinality(halted) <= restarts /\ DumpedOnce

=============================================================================
