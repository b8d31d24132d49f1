------------------------- MODULE FlvRecorderProofs -------------------------
(***************************************************************************)
(* What the recorder leaves on disk, proved for every set of connections   *)
(* and of stream names, neither taken to be finite, and for every bound.   *)
(***************************************************************************)
EXTENDS FlvRecorder, FiniteSetTheorems, FunctionTheorems, SequenceTheorems, TLAPS

(* The header or a tag of a connection's recording. *)
Item == [part : {"header", "tag"}, connection : Connections,
         message : 0 .. MaxMessages, whole : BOOLEAN]

(* The types of what write_flv reads and writes. *)
RecorderTyped ==
  /\ open \subseteq Connections /\ ended \subseteq Connections \ open
  /\ stream_name_ \in [Connections -> StreamNames \union {""}]
  /\ write_flv_header_done \in [Connections -> BOOLEAN]
  /\ flv \in [Files -> Seq(Item)]
  /\ messages \in [Connections -> Seq(MediaKinds)]
  /\ names \in [Connections -> SUBSET Files]
  /\ restarts \in 0 .. MaxRestarts /\ publishes \in 0 .. MaxPublishes

(* The messages of all connections; there are finitely many, whatever the  *)
(* set of connections.                                                     *)
Numbered == UNION {{c} \X DOMAIN messages[c] : c \in Connections}

Counted ==
  /\ IsFiniteSet(Numbered) /\ Cardinality(Numbered) <= MaxMessages
  /\ \A f \in Files : Len(flv[f]) <= 2 * Cardinality(Numbered)

(* An item of a file is the header of a connection that has sent a message *)
(* or one of its messages.                                                 *)
ItemsAreMessages ==
  \A f \in Files : \A i \in DOMAIN flv[f] :
    LET item == flv[f][i] IN
    /\ messages[item.connection] # <<>>
    /\ item.message \in 0 .. Len(messages[item.connection])
    /\ f \in names[item.connection]

SameMessage(x, y) == x.connection = y.connection /\ x.message = y.message

WrittenOnce ==
  \A f, g \in Files : \A i \in DOMAIN flv[f], j \in DOMAIN flv[g] :
    SameMessage(flv[f][i], flv[g][j]) => f = g /\ i = j

InFile(c, n, f) ==
  \E i \in DOMAIN flv[f] : flv[f][i].connection = c /\ flv[f][i].message = n

EveryMessageWritten ==
  \A c \in Connections :
    messages[c] # <<>> =>
      \A n \in 0 .. Len(messages[c]) : \E f \in Files : InFile(c, n, f)

WrittenInOrder ==
  \A f \in Files : \A i, j \in DOMAIN flv[f] :
    i < j /\ flv[f][i].connection = flv[f][j].connection =>
      flv[f][i].message < flv[f][j].message

(* The flag of a context is set with its first message; the names of a     *)
(* connection are those of the files it has written to.                    *)
ContextsRemember ==
  /\ \A c \in Connections : write_flv_header_done[c] <=> messages[c] # <<>>
  /\ \A c \in Connections : IsFiniteSet(names[c])
  /\ \A c \in Connections : \A f \in names[c] : c \in Writers(f)
  /\ \A c \in Connections : messages[c] # <<>> => names[c] # {}

FilesInv ==
  /\ Counted /\ ItemsAreMessages /\ WrittenOnce /\ EveryMessageWritten
  /\ WrittenInOrder /\ ContextsRemember /\ RecordingIsWhole

(* The messages of a kind. *)
OfKind(c, kind) == {m \in DOMAIN messages[c] : messages[c][m] = kind}

(* The counters of a context that is there number its last messages; those *)
(* of one that is gone may lack the message it was cut in.                 *)
IndexCounts ==
  /\ index \in [Connections -> [{"media", "audio", "video"} -> 0 .. MaxMessages]]
  /\ \A c \in Connections :
       /\ c \notin ended => index[c].media = Len(messages[c])
       /\ c \notin ended =>
            \A kind \in MediaKinds : index[c][kind] = Cardinality(OfKind(c, kind))

(* A dump file holds messages of writers of the FLV file of its name, under *)
(* numbers their contexts have given.                                      *)
DumpsAreNumbered ==
  /\ DOMAIN dump \subseteq DumpFiles
  /\ \A d \in DOMAIN dump :
       /\ dump[d] \in Seq(Message) /\ dump[d] # <<>>
       /\ \A i \in DOMAIN dump[d] :
            /\ dump[d][i][1] \in Writers(d[1])
            /\ d[3] <= DumpNumber(index[dump[d][i][1]], d[2])

(* Under a name that no other connection used. *)
DumpedAlone ==
  \A c \in Connections, f \in Files :
    Writers(f) \subseteq {c} =>
      \A n \in DOMAIN messages[c] :
        \E k \in Finished(c, n) :
          \A d \in DirectoriesOf(messages[c][n]) : DumpHolds(c, n, f, d, k)

DumpsInv == IndexCounts /\ DumpsAreNumbered /\ DumpedAlone

(* Each end of the process halts at most one connection, and ends it.      *)
HaltedInv ==
  /\ halted \subseteq ended
  /\ IsFiniteSet(halted) /\ Cardinality(halted) <= restarts

RecorderInv == RecorderTyped /\ FilesInv /\ DumpsInv /\ HaltedInv /\ CutTags

-----------------------------------------------------------------------------
(* What Append leaves in a sequence.                                       *)
LEMMA AppendedFacts ==
  ASSUME NEW S, NEW s \in Seq(S), NEW e \in S
  PROVE  /\ Append(s, e) \in Seq(S)
         /\ Len(s) \in Nat /\ Len(Append(s, e)) = Len(s) + 1
         /\ DOMAIN s = 1 .. Len(s) /\ DOMAIN Append(s, e) = 1 .. Len(s) + 1
         /\ Append(s, e)[Len(s) + 1] = e
         /\ \A i \in 1 .. Len(s) : Append(s, e)[i] = s[i]
OBVIOUS

(* What concatenation with one more element leaves in a sequence.          *)
LEMMA ConcatOneFacts ==
  ASSUME NEW S, NEW s \in Seq(S), NEW e \in S
  PROVE  /\ s \o <<e>> \in Seq(S)
         /\ Len(s) \in Nat /\ Len(s \o <<e>>) = Len(s) + 1
         /\ DOMAIN s = 1 .. Len(s) /\ DOMAIN (s \o <<e>>) = 1 .. Len(s) + 1
         /\ (s \o <<e>>)[Len(s) + 1] = e
         /\ \A i \in 1 .. Len(s) : (s \o <<e>>)[i] = s[i]
OBVIOUS

(* The header and the tags are items.                                      *)
LEMMA ItemTypes ==
  ASSUME NEW c \in Connections
  PROVE  /\ FlvHeader(c) \in Item
         /\ \A n \in 1 .. MaxMessages, whole \in BOOLEAN : Tag(c, n, whole) \in Item
<1>1. MaxMessages \in Nat
  BY RecorderAssumption
<1>2. FlvHeader(c) \in Item
  BY <1>1 DEF FlvHeader, Item
<1>3. ASSUME NEW n \in 1 .. MaxMessages, NEW whole \in BOOLEAN
      PROVE  Tag(c, n, whole) \in Item
  BY <1>1 DEF Tag, Item
<1> QED BY <1>2, <1>3

(* RecordName is the name of a file.                                       *)
LEMMA RecordNameType ==
  ASSUME RecorderTyped, NEW c \in Connections
  PROVE  RecordName(c) \in Files
BY DEF RecorderTyped, RecordName, Files

(* The pairs of one connection are as many as its messages.                *)
LEMMA OwnNumbers ==
  ASSUME NEW c, NEW n \in Nat
  PROVE  /\ IsFiniteSet({c} \X (1 .. n))
         /\ Cardinality({c} \X (1 .. n)) = n
<1>1. IsFiniteSet({c}) /\ Cardinality({c}) = 1
  BY FS_Singleton
<1>2. IsFiniteSet(1 .. n) /\ Cardinality(1 .. n) = n
  BY FS_Interval
<1>3. /\ IsFiniteSet({c} \X (1 .. n))
      /\ Cardinality({c} \X (1 .. n)) = Cardinality({c}) * Cardinality(1 .. n)
  BY <1>1, <1>2, FS_Product
<1> QED BY <1>1, <1>2, <1>3

(* A message more is a number more, of its connection.                     *)
LEMMA NextNumbered ==
  ASSUME RecorderTyped, Counted, NEW c \in Connections, NEW kind \in MediaKinds,
         Receive(c, kind)
  PROVE  /\ Len(messages[c]) \in Nat /\ Len(messages[c]) + 1 <= MaxMessages
         /\ IsFiniteSet(Numbered') /\ Cardinality(Numbered') <= MaxMessages
         /\ Cardinality(Numbered) \in Nat
         /\ Cardinality(Numbered') = Cardinality(Numbered) + 1
<1> DEFINE n == Len(messages[c]) + 1
<1>1. messages[c] \in Seq(MediaKinds) /\ messages \in [Connections -> Seq(MediaKinds)]
  BY DEF RecorderTyped
<1>2. /\ DOMAIN messages[c] = 1 .. n - 1 /\ n \in Nat
      /\ DOMAIN Append(messages[c], kind) = 1 .. n
  BY <1>1, AppendedFacts
<1>3. /\ messages'[c] = Append(messages[c], kind)
      /\ \A b \in Connections : b # c => messages'[b] = messages[b]
  BY <1>1 DEF Receive
<1> HIDE DEF n
<1>4. Numbered' = Numbered \union {<<c, n>>}
  <2>1. Numbered' = UNION {{b} \X DOMAIN messages'[b] : b \in Connections}
    BY DEF Numbered
  <2>2. \A b \in Connections : {b} \X DOMAIN messages[b] \subseteq Numbered'
    <3> SUFFICES ASSUME NEW b \in Connections, NEW m \in DOMAIN messages[b]
                 PROVE  <<b, m>> \in Numbered'
      OBVIOUS
    <3>1. m \in DOMAIN messages'[b]
      BY <1>2, <1>3
    <3> QED BY <2>1, <3>1
  <2>3. <<c, n>> \in Numbered'
    BY <2>1, <1>2, <1>3
  <2>4. \A b \in Connections : {b} \X DOMAIN messages'[b] \subseteq Numbered \union {<<c, n>>}
    <3> SUFFICES ASSUME NEW b \in Connections, NEW m \in DOMAIN messages'[b]
                 PROVE  <<b, m>> \in Numbered \union {<<c, n>>}
      OBVIOUS
    <3>1. CASE b = c
      BY <3>1, <1>2, <1>3 DEF Numbered
    <3>2. CASE b # c
      BY <3>2, <1>3 DEF Numbered
    <3> QED BY <3>1, <3>2
  <2> QED BY <2>1, <2>2, <2>3, <2>4 DEF Numbered
<1>5. <<c, n>> \notin Numbered
  BY <1>2 DEF Numbered
<1>6. IsFiniteSet(Numbered) /\ Cardinality(Numbered) \in Nat
  BY FS_CardinalityType DEF Counted
<1>7. Cardinality(Numbered) < MaxMessages
  BY DEF Receive, MessageCount, Numbered
<1>8. IsFiniteSet(Numbered') /\ Cardinality(Numbered') = Cardinality(Numbered) + 1
  BY <1>4, <1>5, <1>6, FS_AddElement
<1>9. n - 1 <= Cardinality(Numbered)
  <2>1. {c} \X (1 .. n - 1) \subseteq Numbered
    BY <1>2 DEF Numbered
  <2>2. Cardinality({c} \X (1 .. n - 1)) = n - 1
    <3>1. n - 1 \in Nat
      BY <1>1, LenProperties DEF n
    <3> QED BY <3>1, OwnNumbers
  <2> QED BY <2>1, <2>2, <1>6, FS_Subset
<1>10. MaxMessages \in Nat
  BY RecorderAssumption
<1> QED BY <1>1, <1>2, <1>6, <1>7, <1>8, <1>9, <1>10, LenProperties DEF n

-----------------------------------------------------------------------------
(* A message arrives and write_flv records it, whole or cut short; this is *)
(* what HandleMediaMessage and RestartInTag have in common.                *)
Records(c, kind, whole) ==
  Receive(c, kind) /\ WriteFlv(c, Len(messages[c]) + 1, whole)

(* The number of the next message of a connection, and how many headers go *)
(* before it.                                                              *)
NextNumber(c) == Len(messages[c]) + 1
Headers(c) == IF write_flv_header_done[c] THEN 0 ELSE 1

(* What a message leaves in its connection.                                *)
LEMMA ReceivedFacts ==
  ASSUME RecorderTyped, NEW c \in Connections, NEW kind \in MediaKinds,
         Receive(c, kind)
  PROVE  /\ NextNumber(c) \in Nat /\ NextNumber(c) >= 1
         /\ messages' \in [Connections -> Seq(MediaKinds)]
         /\ DOMAIN messages[c] = 1 .. NextNumber(c) - 1
         /\ DOMAIN messages'[c] = 1 .. NextNumber(c)
         /\ Len(messages'[c]) = NextNumber(c) /\ messages'[c] # <<>>
         /\ messages'[c][NextNumber(c)] = kind
         /\ \A m \in 1 .. NextNumber(c) - 1 : messages'[c][m] = messages[c][m]
         /\ \A b \in Connections : b # c => messages'[b] = messages[b]
         /\ names' \in [Connections -> SUBSET Files]
         /\ names'[c] = names[c] \union {RecordName(c)}
         /\ \A b \in Connections : b # c => names'[b] = names[b]
<1>1. messages[c] \in Seq(MediaKinds) /\ messages \in [Connections -> Seq(MediaKinds)]
  BY DEF RecorderTyped
<1>2. messages' = [messages EXCEPT ![c] = Append(messages[c], kind)]
  BY DEF Receive
<1>3. /\ Append(messages[c], kind) \in Seq(MediaKinds)
      /\ Append(messages[c], kind) # <<>>
      /\ NextNumber(c) \in Nat /\ NextNumber(c) >= 1
      /\ Len(Append(messages[c], kind)) = NextNumber(c)
      /\ DOMAIN messages[c] = 1 .. NextNumber(c) - 1
      /\ DOMAIN Append(messages[c], kind) = 1 .. NextNumber(c)
      /\ Append(messages[c], kind)[NextNumber(c)] = kind
      /\ \A m \in 1 .. NextNumber(c) - 1 : Append(messages[c], kind)[m] = messages[c][m]
  BY <1>1, AppendedFacts, AppendProperties DEF NextNumber
<1>4. /\ messages'[c] = Append(messages[c], kind)
      /\ messages' \in [Connections -> Seq(MediaKinds)]
      /\ \A b \in Connections : b # c => messages'[b] = messages[b]
  BY <1>1, <1>2, <1>3
<1>5. names \in [Connections -> SUBSET Files] /\ RecordName(c) \in Files
  BY RecordNameType DEF RecorderTyped
<1>6. names' = [names EXCEPT ![c] = names[c] \union {RecordName(c)}]
  BY DEF Receive
<1>7. /\ names' \in [Connections -> SUBSET Files]
      /\ names'[c] = names[c] \union {RecordName(c)}
      /\ \A b \in Connections : b # c => names'[b] = names[b]
  BY <1>5, <1>6
<1> QED BY <1>3, <1>4, <1>7

(* What write_flv leaves in the files.                                     *)
LEMMA RecordedFacts ==
  ASSUME RecorderTyped, Counted, NEW c \in Connections, NEW kind \in MediaKinds,
         NEW whole \in BOOLEAN, Records(c, kind, whole),
         NEW f, f = RecordName(c), NEW L, L = Len(flv[f]),
         NEW h, h = Headers(c), NEW n, n = NextNumber(c)
  PROVE  /\ f \in Files /\ L \in Nat /\ h \in {0, 1} /\ n \in 1 .. MaxMessages
         /\ flv' \in [Files -> Seq(Item)]
         /\ \A g \in Files : g # f => flv'[g] = flv[g]
         /\ DOMAIN flv[f] = 1 .. L /\ DOMAIN flv'[f] = 1 .. L + h + 1
         /\ Len(flv'[f]) = L + h + 1
         /\ \A i \in 1 .. L : flv'[f][i] = flv[f][i]
         /\ h = 1 => flv'[f][L + 1] = FlvHeader(c)
         /\ flv'[f][L + h + 1] = Tag(c, n, whole)
<1>1. f \in Files
  BY RecordNameType
<1>2. flv \in [Files -> Seq(Item)] /\ flv[f] \in Seq(Item)
  BY <1>1 DEF RecorderTyped
<1>3. n \in 1 .. MaxMessages
  <2>1. Len(messages[c]) \in Nat /\ Len(messages[c]) + 1 <= MaxMessages
    BY NextNumbered DEF Records
  <2>2. MaxMessages \in Nat
    BY RecorderAssumption
  <2> QED BY <2>1, <2>2 DEF NextNumber
<1>4. FlvHeader(c) \in Item /\ Tag(c, n, whole) \in Item
  BY <1>3, ItemTypes
<1>5. write_flv_header_done[c] \in BOOLEAN
  BY DEF RecorderTyped
<1> DEFINE start == IF write_flv_header_done[c] THEN flv[f] ELSE Append(flv[f], FlvHeader(c))
<1>6. flv' = [flv EXCEPT ![f] = start \o <<Tag(c, n, whole)>>]
  BY DEF Records, WriteFlv, NextNumber
<1>7. /\ start \in Seq(Item) /\ L \in Nat /\ h \in {0, 1}
      /\ Len(start) = L + h /\ DOMAIN flv[f] = 1 .. L
      /\ \A i \in 1 .. L : start[i] = flv[f][i]
      /\ h = 1 => start[L + 1] = FlvHeader(c)
  <2>1. CASE write_flv_header_done[c]
    BY <2>1, <1>2, LenProperties DEF Headers
  <2>2. CASE ~write_flv_header_done[c]
    BY <2>2, <1>2, <1>4, AppendedFacts DEF Headers
  <2> QED BY <2>1, <2>2
<1> HIDE DEF start
<1>8. ASSUME NEW tag \in Item
      PROVE  /\ start \o <<tag>> \in Seq(Item)
             /\ Len(start \o <<tag>>) = L + h + 1
             /\ DOMAIN (start \o <<tag>>) = 1 .. L + h + 1
             /\ (start \o <<tag>>)[L + h + 1] = tag
             /\ \A i \in 1 .. L + h : (start \o <<tag>>)[i] = start[i]
  <2>1. start \in Seq(Item) /\ Len(start) = L + h
    BY <1>7
  <2> QED BY <2>1, <1>8, ConcatOneFacts, SMTT(30)
<1>9. /\ flv'[f] = start \o <<Tag(c, n, whole)>>
      /\ flv' \in [Files -> Seq(Item)]
      /\ \A g \in Files : g # f => flv'[g] = flv[g]
  <2>1. start \o <<Tag(c, n, whole)>> \in Seq(Item)
    BY <1>4, <1>8
  <2> QED BY <1>1, <1>2, <1>6, <2>1
<1>10. /\ Len(flv'[f]) = L + h + 1 /\ DOMAIN flv'[f] = 1 .. L + h + 1
       /\ flv'[f][L + h + 1] = Tag(c, n, whole)
       /\ \A i \in 1 .. L + h : flv'[f][i] = start[i]
  <2> DEFINE tag == Tag(c, n, whole)
  <2>1. tag \in Item /\ flv'[f] = start \o <<tag>>
    BY <1>4, <1>9
  <2> HIDE DEF tag
  <2>2. /\ Len(start \o <<tag>>) = L + h + 1
        /\ DOMAIN (start \o <<tag>>) = 1 .. L + h + 1
        /\ (start \o <<tag>>)[L + h + 1] = tag
        /\ \A i \in 1 .. L + h : (start \o <<tag>>)[i] = start[i]
    BY <1>8, <2>1
  <2>3. \A i \in 1 .. L + h : flv'[f][i] = start[i]
    BY <2>1, <2>2, Zenon
  <2>4. Len(flv'[f]) = L + h + 1 /\ DOMAIN flv'[f] = 1 .. L + h + 1
    BY <2>1, <2>2, Zenon
  <2>5. flv'[f][L + h + 1] = tag
    BY <2>1, <2>2, Zenon
  <2> QED BY <2>3, <2>4, <2>5 DEF tag
<1>11. ASSUME NEW i \in 1 .. L PROVE flv'[f][i] = flv[f][i]
  <2>1. i \in 1 .. L + h
    BY <1>7
  <2>2. start[i] = flv[f][i]
    BY <1>7
  <2>3. flv'[f][i] = start[i]
    BY <1>10, <2>1, Zenon
  <2> QED BY <2>2, <2>3
<1>12. h = 1 => flv'[f][L + 1] = FlvHeader(c)
  BY <1>7, <1>10
<1> QED BY <1>1, <1>3, <1>7, <1>9, <1>10, <1>11, <1>12

(* What a message changes: f is the file it goes to, L its length before,  *)
(* h the number of headers written, n the number of the message.           *)
FileAfter(c, whole, f, L, h, n) ==
  /\ f \in Files /\ L \in Nat /\ h \in {0, 1} /\ n \in 1 .. MaxMessages
  /\ flv' \in [Files -> Seq(Item)]
  /\ \A g \in Files : g # f => flv'[g] = flv[g]
  /\ DOMAIN flv[f] = 1 .. L /\ DOMAIN flv'[f] = 1 .. L + h + 1
  /\ Len(flv[f]) = L /\ Len(flv'[f]) = L + h + 1
  /\ \A i \in 1 .. L : flv'[f][i] = flv[f][i]
  /\ h = 1 => flv'[f][L + 1] = FlvHeader(c)
  /\ flv'[f][L + h + 1] = Tag(c, n, whole)

MessagesAfter(c, kind, f, h, n) ==
  /\ n \in Nat /\ n >= 1 /\ h = Headers(c)
  /\ messages' \in [Connections -> Seq(MediaKinds)]
  /\ messages[c] \in Seq(MediaKinds)
  /\ Len(messages[c]) = n - 1 /\ DOMAIN messages[c] = 1 .. n - 1
  /\ Len(messages'[c]) = n /\ DOMAIN messages'[c] = 1 .. n /\ messages'[c] # <<>>
  /\ messages'[c][n] = kind
  /\ \A m \in 1 .. n - 1 : messages'[c][m] = messages[c][m]
  /\ \A b \in Connections : b # c => messages'[b] = messages[b]
  /\ names' \in [Connections -> SUBSET Files]
  /\ names'[c] = names[c] \union {f}
  /\ \A b \in Connections : b # c => names'[b] = names[b]

(* A message has these effects, for the file its connection records in.    *)
LEMMA RecordsEffect ==
  ASSUME RecorderTyped, Counted, NEW c \in Connections, NEW kind \in MediaKinds,
         NEW whole \in BOOLEAN, Records(c, kind, whole)
  PROVE  \E f, L, h, n :
           /\ f = RecordName(c)
           /\ FileAfter(c, whole, f, L, h, n) /\ MessagesAfter(c, kind, f, h, n)
<1> PICK f, L, h, n : f = RecordName(c) /\ L = Len(flv[f]) /\ h = Headers(c)
                      /\ n = NextNumber(c)
  OBVIOUS
<1>1. FileAfter(c, whole, f, L, h, n)
  BY RecordedFacts DEF FileAfter
<1>2. messages[c] \in Seq(MediaKinds) /\ Len(messages[c]) \in Nat
  BY LenProperties DEF RecorderTyped
<1>3. Len(messages[c]) = n - 1
  BY <1>2 DEF NextNumber
<1>4. MessagesAfter(c, kind, f, h, n)
  BY <1>2, <1>3, ReceivedFacts DEF Records, MessagesAfter
<1> QED BY <1>1, <1>4

(* Every item of a file is an old one, the header or the tag.              *)
LEMMA ItemsAfter ==
  ASSUME NEW c, NEW whole, NEW f, NEW L, NEW h, NEW n,
         FileAfter(c, whole, f, L, h, n), NEW i \in DOMAIN flv'[f]
  PROVE  \/ i \in 1 .. L /\ flv'[f][i] = flv[f][i]
         \/ h = 1 /\ i = L + 1 /\ flv'[f][i] = FlvHeader(c)
         \/ i = L + h + 1 /\ flv'[f][i] = Tag(c, n, whole)
<1>1. L \in Nat /\ h \in {0, 1} /\ i \in 1 .. L + h + 1
  BY DEF FileAfter
<1>2. i \in 1 .. L \/ (h = 1 /\ i = L + 1) \/ i = L + h + 1
  BY <1>1
<1> QED BY <1>2 DEF FileAfter

(* Whether a header goes before the tag is whether it is the first message. *)
LEMMA HeaderFirst ==
  ASSUME ContextsRemember, RecorderTyped, NEW c \in Connections, NEW kind, NEW f,
         NEW h, NEW n, MessagesAfter(c, kind, f, h, n)
  PROVE  IF messages[c] = <<>> THEN h = 1 /\ n = 1 ELSE h = 0 /\ n > 1
<1>1. write_flv_header_done[c] <=> messages[c] # <<>>
  BY DEF ContextsRemember
<1>2. n \in Nat /\ h = Headers(c) /\ Len(messages[c]) = n - 1
      /\ messages[c] \in Seq(MediaKinds)
  BY DEF MessagesAfter
<1>3. messages[c] = <<>> <=> n = 1
  BY <1>2, EmptySeq, LenProperties
<1>4. write_flv_header_done[c] \in BOOLEAN
  BY DEF RecorderTyped
<1>5. CASE messages[c] = <<>>
  BY <1>1, <1>2, <1>3, <1>5 DEF Headers
<1>6. CASE messages[c] # <<>>
  <2>1. n > 1
    BY <1>2, <1>3, <1>6, LenProperties
  <2> QED BY <1>1, <1>2, <1>6, <2>1 DEF Headers
<1> QED BY <1>5, <1>6

(* The types, when a message is recorded.                                  *)
LEMMA RecordsTyped ==
  ASSUME RecorderTyped, Counted, NEW c \in Connections, NEW kind \in MediaKinds,
         NEW whole \in BOOLEAN, Records(c, kind, whole)
  PROVE  /\ write_flv_header_done' \in [Connections -> BOOLEAN]
         /\ flv' \in [Files -> Seq(Item)]
         /\ messages' \in [Connections -> Seq(MediaKinds)]
         /\ names' \in [Connections -> SUBSET Files]
<1>1. /\ flv' \in [Files -> Seq(Item)]
      /\ messages' \in [Connections -> Seq(MediaKinds)]
      /\ names' \in [Connections -> SUBSET Files]
  BY RecordsEffect DEF FileAfter, MessagesAfter
<1> QED BY <1>1 DEF Records, WriteFlv, RecorderTyped

-----------------------------------------------------------------------------
(* Items stay where they are.                                              *)
LEMMA OldItems ==
  ASSUME NEW c, NEW whole, NEW f, NEW L, NEW h, NEW n,
         FileAfter(c, whole, f, L, h, n), NEW g \in Files, NEW i \in DOMAIN flv[g]
  PROVE  i \in DOMAIN flv'[g] /\ flv'[g][i] = flv[g][i]
<1>1. CASE g = f
  <2>1. i \in 1 .. L
    BY <1>1 DEF FileAfter
  <2>2. i \in 1 .. L + h + 1
    BY <2>1 DEF FileAfter
  <2> QED BY <1>1, <2>1, <2>2 DEF FileAfter
<1>2. CASE g # f
  BY <1>2 DEF FileAfter
<1> QED BY <1>1, <1>2

(* Every item of any file is an old one or one of the new ones.            *)
LEMMA AnyItem ==
  ASSUME NEW c, NEW whole, NEW f, NEW L, NEW h, NEW n,
         FileAfter(c, whole, f, L, h, n), NEW g \in Files, NEW i \in DOMAIN flv'[g]
  PROVE  \/ i \in DOMAIN flv[g] /\ flv'[g][i] = flv[g][i]
         \/ g = f /\ h = 1 /\ i = L + 1 /\ flv'[g][i] = FlvHeader(c)
         \/ g = f /\ i = L + h + 1 /\ flv'[g][i] = Tag(c, n, whole)
<1>1. CASE g = f
  <2>1. i \in DOMAIN flv'[f] /\ DOMAIN flv[f] = 1 .. L
    BY <1>1 DEF FileAfter
  <2> QED BY <1>1, <2>1, ItemsAfter
<1>2. CASE g # f
  BY <1>2 DEF FileAfter
<1> QED BY <1>1, <1>2

(* The items have the types of their fields.                               *)
LEMMA ItemFields ==
  ASSUME RecorderTyped, NEW g \in Files, NEW i \in DOMAIN flv[g]
  PROVE  /\ flv[g][i] \in Item /\ i \in Nat
         /\ flv[g][i].connection \in Connections
         /\ flv[g][i].message \in Nat
<1>1. flv[g] \in Seq(Item)
  BY DEF RecorderTyped
<1>2. flv[g][i] \in Item /\ i \in 1 .. Len(flv[g])
  BY <1>1, ElementOfSeq, LenProperties
<1> QED BY <1>1, <1>2, LenProperties DEF Item

(* What a connection has in the files is older than its next message.      *)
LEMMA OlderItems ==
  ASSUME RecorderTyped, ItemsAreMessages, ContextsRemember,
         NEW c \in Connections, NEW kind, NEW f, NEW h, NEW n,
         MessagesAfter(c, kind, f, h, n),
         NEW g \in Files, NEW i \in DOMAIN flv[g], flv[g][i].connection = c
  PROVE  h = 0 /\ flv[g][i].message \in 0 .. n - 1
<1>1. messages[c] # <<>> /\ flv[g][i].message \in 0 .. Len(messages[c])
  BY DEF ItemsAreMessages
<1>2. h = 0
  BY <1>1, HeaderFirst
<1> QED BY <1>1, <1>2 DEF MessagesAfter

(* The writers of a file stay its writers.                                 *)
LEMMA WritersGrow ==
  ASSUME NEW c, NEW whole, NEW f, NEW L, NEW h, NEW n,
         FileAfter(c, whole, f, L, h, n), NEW g \in Files
  PROVE  Writers(g) \subseteq Writers(g)'
<1> SUFFICES ASSUME NEW i \in DOMAIN flv[g]
             PROVE  \E j \in DOMAIN flv'[g] : flv[g][i].connection = flv'[g][j].connection
  BY DEF Writers, FileRange
<1> QED BY OldItems

(* Only the sender of the message is new among the writers of its file.    *)
LEMMA WritersAfter ==
  ASSUME NEW c, NEW whole, NEW f, NEW L, NEW h, NEW n,
         FileAfter(c, whole, f, L, h, n), NEW g \in Files
  PROVE  Writers(g)' = Writers(g) \union (IF g = f THEN {c} ELSE {})
<1>1. Writers(g) \subseteq Writers(g)'
  BY WritersGrow
<1>2. g = f => c \in Writers(g)'
  <2> SUFFICES ASSUME g = f PROVE c \in Writers(g)'
    OBVIOUS
  <2>1. L + h + 1 \in DOMAIN flv'[f] /\ flv'[f][L + h + 1] = Tag(c, n, whole)
    BY DEF FileAfter
  <2> QED BY <2>1 DEF Writers, FileRange, Tag
<1>3. ASSUME NEW i \in DOMAIN flv'[g]
      PROVE  flv'[g][i].connection \in Writers(g) \union (IF g = f THEN {c} ELSE {})
  <2>1. CASE i \in DOMAIN flv[g] /\ flv'[g][i] = flv[g][i]
    BY <2>1 DEF Writers, FileRange
  <2>2. CASE g = f /\ (flv'[g][i] = FlvHeader(c) \/ flv'[g][i] = Tag(c, n, whole))
    BY <2>2 DEF FlvHeader, Tag
  <2> QED BY <2>1, <2>2, AnyItem
<1> QED BY <1>1, <1>2, <1>3 DEF Writers, FileRange

(* The bounds on the messages and on the lengths of the files.             *)
LEMMA RecordsCounted ==
  ASSUME RecorderTyped, Counted, NEW c \in Connections, NEW kind \in MediaKinds,
         NEW whole \in BOOLEAN, Records(c, kind, whole)
  PROVE  Counted'
<1> PICK f, L, h, n : FileAfter(c, whole, f, L, h, n) /\ MessagesAfter(c, kind, f, h, n)
  BY RecordsEffect
<1> DEFINE k == Cardinality(Numbered)
           after == Cardinality(Numbered')
<1>1. IsFiniteSet(Numbered') /\ after <= MaxMessages /\ k \in Nat /\ after = k + 1
  BY NextNumbered DEF Records
<1>2. \A g \in Files : Len(flv[g]) <= 2 * k
  BY DEF Counted
<1> HIDE DEF k, after
<1>3. ASSUME NEW g \in Files PROVE Len(flv'[g]) <= 2 * after
  <2>1. CASE g = f
    <3>1. Len(flv'[g]) = L + h + 1 /\ L \in Nat /\ h \in {0, 1} /\ L = Len(flv[g])
      BY <2>1 DEF FileAfter
    <3> QED BY <1>1, <1>2, <3>1
  <2>2. CASE g # f
    <3>1. Len(flv'[g]) = Len(flv[g]) /\ Len(flv[g]) \in Nat
      BY <2>2, LenProperties DEF FileAfter, RecorderTyped
    <3> QED BY <1>1, <1>2, <3>1
  <2> QED BY <2>1, <2>2
<1> QED BY <1>1, <1>3 DEF Counted, k, after

(* Every item is a message or a header of a sender.                        *)
LEMMA RecordsMessages ==
  ASSUME RecorderTyped, Counted, ItemsAreMessages,
         NEW c \in Connections, NEW kind \in MediaKinds,
         NEW whole \in BOOLEAN, Records(c, kind, whole)
  PROVE  ItemsAreMessages'
<1> PICK f, L, h, n : FileAfter(c, whole, f, L, h, n) /\ MessagesAfter(c, kind, f, h, n)
  BY RecordsEffect
<1> SUFFICES ASSUME NEW g \in Files, NEW i \in DOMAIN flv'[g]
             PROVE  /\ messages'[flv'[g][i].connection] # <<>>
                    /\ flv'[g][i].message \in 0 .. Len(messages'[flv'[g][i].connection])
                    /\ g \in names'[flv'[g][i].connection]
  BY DEF ItemsAreMessages
<1>1. CASE i \in DOMAIN flv[g] /\ flv'[g][i] = flv[g][i]
  <2> DEFINE b == flv[g][i].connection
  <2>1. b \in Connections
    BY <1>1, ItemFields
  <2>2. messages[b] # <<>> /\ flv[g][i].message \in 0 .. Len(messages[b]) /\ g \in names[b]
    BY <1>1 DEF ItemsAreMessages
  <2>3. messages'[b] # <<>> /\ flv[g][i].message \in 0 .. Len(messages'[b]) /\ g \in names'[b]
    <3>1. CASE b = c
      <4>1. Len(messages[b]) = n - 1 /\ Len(messages'[b]) = n /\ n \in Nat
        BY <3>1 DEF MessagesAfter
      <4>2. flv[g][i].message \in 0 .. Len(messages'[b])
        BY <2>2, <4>1
      <4> QED BY <2>2, <3>1, <4>2 DEF MessagesAfter
    <3>2. CASE b # c
      BY <2>1, <2>2, <3>2 DEF MessagesAfter
    <3> QED BY <3>1, <3>2
  <2> QED BY <1>1, <2>3
<1>2. CASE g = f /\ (flv'[g][i] = FlvHeader(c) \/ flv'[g][i] = Tag(c, n, whole))
  <2>1. flv'[g][i].connection = c /\ flv'[g][i].message \in 0 .. n
    BY <1>2 DEF FlvHeader, Tag, MessagesAfter
  <2> QED BY <1>2, <2>1 DEF MessagesAfter
<1> QED BY <1>1, <1>2, AnyItem

(* No two items are the same message.                                      *)
LEMMA RecordsOnce ==
  ASSUME RecorderTyped, Counted, ItemsAreMessages, ContextsRemember, WrittenOnce,
         NEW c \in Connections, NEW kind \in MediaKinds,
         NEW whole \in BOOLEAN, Records(c, kind, whole)
  PROVE  WrittenOnce'
<1> PICK f, L, h, n : FileAfter(c, whole, f, L, h, n) /\ MessagesAfter(c, kind, f, h, n)
  BY RecordsEffect
<1> DEFINE Old(g, i) == i \in DOMAIN flv[g] /\ flv'[g][i] = flv[g][i]
           New(g, i) == \/ g = f /\ h = 1 /\ i = L + 1 /\ flv'[g][i] = FlvHeader(c)
                        \/ g = f /\ i = L + h + 1 /\ flv'[g][i] = Tag(c, n, whole)
<1> SUFFICES ASSUME NEW g \in Files, NEW k \in Files,
                    NEW i \in DOMAIN flv'[g], NEW j \in DOMAIN flv'[k],
                    SameMessage(flv'[g][i], flv'[k][j])
             PROVE  g = k /\ i = j
  BY DEF WrittenOnce, SameMessage
<1>1. n \in Nat /\ n >= 1
  BY DEF MessagesAfter
<1>2. ASSUME NEW a \in Files, NEW x, New(a, x), NEW b \in Files, NEW y, Old(b, y)
      PROVE  ~SameMessage(flv'[a][x], flv'[b][y]) /\ ~SameMessage(flv'[b][y], flv'[a][x])
  <2>1. CASE flv[b][y].connection # c
    BY <1>2, <2>1 DEF SameMessage, FlvHeader, Tag
  <2>2. CASE flv[b][y].connection = c
    <3>1. h = 0 /\ flv[b][y].message \in 0 .. n - 1
      BY <1>2, <2>2, OlderItems
    <3>2. flv'[a][x] = Tag(c, n, whole)
      BY <1>2, <3>1
    <3>3. flv'[a][x].message = n /\ flv'[b][y].message \in 0 .. n - 1
      BY <1>2, <3>1, <3>2 DEF Tag
    <3>4. flv'[a][x].message # flv'[b][y].message
      BY <1>1, <3>3
    <3> QED BY <3>4 DEF SameMessage
  <2> QED BY <2>1, <2>2
<1>3. CASE Old(g, i) /\ Old(k, j)
  BY <1>3 DEF WrittenOnce, SameMessage
<1>4. CASE New(g, i) /\ New(k, j)
  BY <1>1, <1>4 DEF SameMessage, FlvHeader, Tag
<1>5. (Old(g, i) \/ New(g, i)) /\ (Old(k, j) \/ New(k, j))
  BY AnyItem
<1> HIDE DEF Old, New
<1>6. ~(New(g, i) /\ Old(k, j)) /\ ~(Old(g, i) /\ New(k, j))
  BY <1>2
<1> QED BY <1>3, <1>4, <1>5, <1>6

(* A message that is in a file stays there.                                *)
LEMMA InFileStays ==
  ASSUME NEW c, NEW whole, NEW f, NEW L, NEW h, NEW n,
         FileAfter(c, whole, f, L, h, n), NEW g \in Files, NEW b, NEW m, InFile(b, m, g)
  PROVE  InFile(b, m, g)'
BY OldItems DEF InFile

(* Every message, and the header of its connection, is in some file.       *)
LEMMA RecordsEvery ==
  ASSUME RecorderTyped, Counted, ContextsRemember, EveryMessageWritten,
         NEW c \in Connections, NEW kind \in MediaKinds,
         NEW whole \in BOOLEAN, Records(c, kind, whole)
  PROVE  EveryMessageWritten'
<1> PICK f, L, h, n : FileAfter(c, whole, f, L, h, n) /\ MessagesAfter(c, kind, f, h, n)
  BY RecordsEffect
<1>1. f \in Files
  BY DEF FileAfter
<1> SUFFICES ASSUME NEW b \in Connections, messages'[b] # <<>>,
                    NEW m \in 0 .. Len(messages'[b])
             PROVE  \E g \in Files : InFile(b, m, g)'
  BY DEF EveryMessageWritten, InFile
<1>2. CASE b # c
  <2>1. messages'[b] = messages[b]
    BY <1>2 DEF MessagesAfter
  <2>2. PICK g \in Files : InFile(b, m, g)
    BY <2>1 DEF EveryMessageWritten
  <2> QED BY <2>2, InFileStays
<1>3. CASE b = c /\ m = n
  <2>1. L + h + 1 \in DOMAIN flv'[f] /\ flv'[f][L + h + 1] = Tag(c, n, whole)
    BY DEF FileAfter
  <2>2. InFile(b, m, f)'
    BY <1>3, <2>1 DEF InFile, Tag
  <2> QED BY <1>1, <2>2
<1>4. CASE b = c /\ m # n /\ messages[c] # <<>>
  <2>1. m \in 0 .. Len(messages[c])
    BY <1>4 DEF MessagesAfter
  <2>2. PICK g \in Files : InFile(b, m, g)
    BY <1>4, <2>1 DEF EveryMessageWritten
  <2> QED BY <2>2, InFileStays
<1>5. CASE b = c /\ m # n /\ messages[c] = <<>>
  <2>1. h = 1 /\ n = 1
    BY <1>5, HeaderFirst
  <2>2. m = 0
    <3>1. Len(messages'[c]) = 1
      BY <2>1 DEF MessagesAfter
    <3> QED BY <1>5, <2>1, <3>1
  <2>3. L + 1 \in DOMAIN flv'[f] /\ flv'[f][L + 1] = FlvHeader(c)
    BY <2>1 DEF FileAfter
  <2>4. InFile(b, m, f)'
    BY <1>5, <2>2, <2>3 DEF InFile, FlvHeader
  <2> QED BY <1>1, <2>4
<1> QED BY <1>2, <1>3, <1>4, <1>5

(* Within a file, what a connection wrote is in the order of its messages. *)
LEMMA RecordsInOrder ==
  ASSUME RecorderTyped, Counted, ItemsAreMessages, ContextsRemember, WrittenInOrder,
         NEW c \in Connections, NEW kind \in MediaKinds,
         NEW whole \in BOOLEAN, Records(c, kind, whole)
  PROVE  WrittenInOrder'
<1> PICK f, L, h, n : FileAfter(c, whole, f, L, h, n) /\ MessagesAfter(c, kind, f, h, n)
  BY RecordsEffect
<1> SUFFICES ASSUME NEW g \in Files, NEW i \in DOMAIN flv'[g], NEW j \in DOMAIN flv'[g],
                    i < j, flv'[g][i].connection = flv'[g][j].connection
             PROVE  flv'[g][i].message < flv'[g][j].message
  BY DEF WrittenInOrder
<1>1. CASE g # f
  <2>1. flv'[g] = flv[g]
    BY <1>1 DEF FileAfter
  <2> QED BY <2>1 DEF WrittenInOrder
<1>2. CASE g = f
  <2>1. L \in Nat /\ h \in {0, 1} /\ n \in Nat /\ n >= 1 /\ DOMAIN flv[f] = 1 .. L
    BY DEF FileAfter, MessagesAfter
  <2>2. i \in 1 .. L + h + 1 /\ j \in 1 .. L + h + 1
    BY <1>2 DEF FileAfter
  <2>3. CASE j \in 1 .. L
    <3>1. i \in 1 .. L
      BY <2>1, <2>2, <2>3
    <3>2. flv'[f][i] = flv[f][i] /\ flv'[f][j] = flv[f][j]
      BY <2>3, <3>1 DEF FileAfter
    <3> QED BY <1>2, <2>1, <2>3, <3>1, <3>2 DEF WrittenInOrder
  <2>4. CASE j \notin 1 .. L /\ i \in 1 .. L
    <3>1. flv'[f][i] = flv[f][i] /\ f \in Files
      BY <2>4 DEF FileAfter
    <3>2. (flv'[f][j] = FlvHeader(c) /\ h = 1) \/ flv'[f][j] = Tag(c, n, whole)
      BY <1>2, <2>4, ItemsAfter
    <3>3. flv[f][i].connection = c
      BY <1>2, <3>1, <3>2 DEF FlvHeader, Tag
    <3>4. h = 0 /\ flv[f][i].message \in 0 .. n - 1
      BY <2>1, <2>4, <3>1, <3>3, OlderItems
    <3>5. flv'[f][j].message = n
      BY <3>2, <3>4 DEF Tag
    <3>6. flv[f][i].message < n
      BY <2>1, <3>4
    <3> QED BY <1>2, <3>1, <3>5, <3>6
  <2>5. CASE j \notin 1 .. L /\ i \notin 1 .. L
    <3>1. h = 1 /\ i = L + 1 /\ j = L + h + 1
      BY <2>1, <2>2, <2>5
    <3>2. flv'[f][i].message = 0 /\ flv'[f][j].message = n
      BY <3>1 DEF FileAfter, FlvHeader, Tag
    <3> QED BY <1>2, <2>1, <3>2
  <2> QED BY <2>3, <2>4, <2>5
<1> QED BY <1>1, <1>2

(* The flag and the names of a context are those of what it wrote.         *)
LEMMA RecordsRemember ==
  ASSUME RecorderTyped, Counted, ContextsRemember,
         NEW c \in Connections, NEW kind \in MediaKinds,
         NEW whole \in BOOLEAN, Records(c, kind, whole)
  PROVE  ContextsRemember'
<1> PICK f, L, h, n : FileAfter(c, whole, f, L, h, n) /\ MessagesAfter(c, kind, f, h, n)
  BY RecordsEffect
<1>1. names'[c] = names[c] \union {f} /\ names \in [Connections -> SUBSET Files]
  BY DEF MessagesAfter, RecorderTyped
<1>2. \A b \in Connections : b # c =>
        names'[b] = names[b] /\ messages'[b] = messages[b]
        /\ write_flv_header_done'[b] = write_flv_header_done[b]
  BY DEF MessagesAfter, Records, WriteFlv, RecorderTyped
<1>3. \A b \in Connections : write_flv_header_done'[b] <=> messages'[b] # <<>>
  <2>1. write_flv_header_done'[c] /\ messages'[c] # <<>>
    BY DEF MessagesAfter, Records, WriteFlv, RecorderTyped
  <2> QED BY <1>2, <2>1 DEF ContextsRemember
<1>4. ASSUME NEW b \in Connections PROVE IsFiniteSet(names'[b])
  <2>1. IsFiniteSet(names[b])
    BY DEF ContextsRemember
  <2> QED BY <1>1, <1>2, <2>1, FS_AddElement
<1>5. ASSUME NEW b \in Connections, NEW g \in names'[b] PROVE b \in Writers(g)'
  <2>1. g \in names[b] \/ (b = c /\ g = f)
    BY <1>1, <1>2
  <2>2. g \in Files
    BY <1>1, <2>1 DEF FileAfter
  <2>3. g \in names[b] => b \in Writers(g)
    BY DEF ContextsRemember
  <2> QED BY <2>1, <2>2, <2>3, WritersAfter
<1>6. \A b \in Connections : messages'[b] # <<>> => names'[b] # {}
  BY <1>1, <1>2 DEF ContextsRemember
<1> QED BY <1>3, <1>4, <1>5, <1>6 DEF ContextsRemember, Writers, FileRange

(* A file without items has no writers, and one with items has the writer  *)
(* of each.                                                                *)
LEMMA WritersOfItems ==
  ASSUME RecorderTyped, NEW g \in Files
  PROVE  /\ Writers(g) = {} <=> Len(flv[g]) = 0
         /\ \A i \in DOMAIN flv[g] : flv[g][i].connection \in Writers(g)
<1>1. flv[g] \in Seq(Item) /\ DOMAIN flv[g] = 1 .. Len(flv[g]) /\ Len(flv[g]) \in Nat
  BY LenProperties DEF RecorderTyped
<1>2. \A i \in DOMAIN flv[g] : flv[g][i].connection \in Writers(g)
  BY DEF Writers, FileRange
<1>3. Len(flv[g]) = 0 => Writers(g) = {}
  BY <1>1 DEF Writers, FileRange
<1>4. Len(flv[g]) # 0 => 1 \in DOMAIN flv[g]
  BY <1>1
<1> QED BY <1>2, <1>3, <1>4

(* A recording that is whole stays whole.                                  *)
LEMMA RecordsOneWriter ==
  ASSUME RecorderTyped, Counted, ItemsAreMessages, ContextsRemember, OneWriter,
         NEW c \in Connections, NEW kind \in MediaKinds,
         NEW whole \in BOOLEAN, Records(c, kind, whole)
  PROVE  OneWriter'
<1> PICK f, L, h, n : FileAfter(c, whole, f, L, h, n) /\ MessagesAfter(c, kind, f, h, n)
  BY RecordsEffect
<1>1. f \in Files /\ L \in Nat /\ h \in {0, 1} /\ n \in Nat /\ n >= 1
  BY DEF FileAfter, MessagesAfter
<1> SUFFICES ASSUME NEW a \in Connections, NEW g \in Files,
                    Writers(g)' = {a}, names'[a] = {g}
             PROVE  /\ Len(flv'[g]) = Len(messages'[a]) + 1
                    /\ flv'[g][1] = FlvHeader(a)
                    /\ \A m \in DOMAIN messages'[a] : flv'[g][m + 1].message = m
  BY DEF OneWriter, FlvHeader
<1>2. Writers(f)' = Writers(f) \union {c}
  BY <1>1, WritersAfter
<1>3. CASE a # c
  <2>1. g # f
    BY <1>2, <1>3
  <2>2. flv'[g] = flv[g] /\ messages'[a] = messages[a] /\ names'[a] = names[a]
    BY <1>3, <2>1 DEF FileAfter, MessagesAfter
  <2>3. Writers(g) = {a}
    BY <2>1, WritersAfter
  <2> QED BY <2>2, <2>3 DEF OneWriter
<1>4. CASE a = c
  <2>1. names[c] \union {f} = {g}
    BY <1>4 DEF MessagesAfter
  <2>2. g = f /\ names[c] \subseteq {f} /\ Writers(f) \subseteq {c}
    BY <1>2, <1>4, <2>1
  <2>3. CASE messages[c] = <<>>
    <3>1. h = 1 /\ n = 1
      BY <2>3, HeaderFirst
    <3>2. L = 0
      <4>1. \A i \in DOMAIN flv[f] : flv[f][i].connection # c
        BY <1>1, <2>3 DEF ItemsAreMessages
      <4>2. c \notin Writers(f)
        BY <4>1 DEF Writers, FileRange
      <4>3. Writers(f) = {}
        BY <2>2, <4>2
      <4> QED BY <1>1, <4>3, WritersOfItems DEF FileAfter
    <3>3. Len(flv'[f]) = 2 /\ flv'[f][1] = FlvHeader(c) /\ flv'[f][2] = Tag(c, n, whole)
      BY <3>1, <3>2 DEF FileAfter
    <3>4. Len(messages'[c]) = 1 /\ DOMAIN messages'[c] = 1 .. 1
      BY <3>1 DEF MessagesAfter
    <3>5. \A m \in DOMAIN messages'[c] : flv'[f][m + 1].message = m
      BY <3>1, <3>3, <3>4 DEF Tag
    <3> QED BY <1>4, <2>2, <3>3, <3>4, <3>5
  <2>4. CASE messages[c] # <<>>
    <3>1. h = 0 /\ n > 1
      BY <2>4, HeaderFirst
    <3>2. names[c] = {f} /\ Writers(f) = {c}
      BY <2>2, <2>4 DEF ContextsRemember
    <3>3. /\ Len(flv[f]) = Len(messages[c]) + 1 /\ flv[f][1] = FlvHeader(c)
          /\ \A m \in DOMAIN messages[c] : flv[f][m + 1].message = m
      BY <1>1, <3>2 DEF OneWriter
    <3>4. L = n
      BY <1>1, <3>3 DEF FileAfter, MessagesAfter
    <3>5. Len(flv'[f]) = n + 1 /\ flv'[f][n + 1] = Tag(c, n, whole)
      BY <1>1, <3>1, <3>4 DEF FileAfter
    <3>6. \A i \in 1 .. n : flv'[f][i] = flv[f][i]
      BY <3>4 DEF FileAfter
    <3>7. flv'[f][1] = FlvHeader(c)
      BY <1>1, <3>3, <3>6
    <3>8. ASSUME NEW m \in DOMAIN messages'[c] PROVE flv'[f][m + 1].message = m
      <4>1. m \in 1 .. n
        BY DEF MessagesAfter
      <4>2. CASE m = n
        BY <3>5, <4>2 DEF Tag
      <4>3. CASE m # n
        <5>1. m \in 1 .. n - 1 /\ m + 1 \in 1 .. n
          BY <1>1, <4>1, <4>3
        <5>2. m \in DOMAIN messages[c]
          BY <5>1 DEF MessagesAfter
        <5> QED BY <3>3, <3>6, <5>1, <5>2
      <4> QED BY <4>2, <4>3
    <3> QED BY <1>4, <2>2, <3>5, <3>7, <3>8 DEF MessagesAfter
  <2> QED BY <2>3, <2>4
<1> QED BY <1>3, <1>4

(* Two names are more than one.                                            *)
LEMMA TwoNames ==
  ASSUME NEW S, IsFiniteSet(S), NEW a \in S, NEW b \in S, a # b
  PROVE  Cardinality(S) > 1
<1>1. IsFiniteSet({a}) /\ Cardinality({a}) = 1
  BY FS_Singleton
<1>2. b \notin {a}
  OBVIOUS
<1> DEFINE one == {a}
<1> HIDE DEF one
<1>4. IsFiniteSet(one \union {b}) /\ Cardinality(one \union {b}) = 1 + 1
  BY <1>1, <1>2, FS_AddElement DEF one
<1>3. one \union {b} \subseteq S
  BY DEF one
<1>5. Cardinality(one \union {b}) <= Cardinality(S) /\ Cardinality(S) \in Nat
  BY <1>3, FS_Subset, FS_CardinalityType
<1> QED BY <1>4, <1>5

(* More names than one stay more than one.                                 *)
LEMMA MoreNames ==
  ASSUME NEW S, NEW T, IsFiniteSet(T), S \subseteq T, Cardinality(S) > 1
  PROVE  Cardinality(T) > 1
<1>1. IsFiniteSet(S) /\ Cardinality(S) <= Cardinality(T)
  BY FS_Subset
<1>2. Cardinality(S) \in Nat /\ Cardinality(T) \in Nat
  BY <1>1, FS_CardinalityType
<1> QED BY <1>1, <1>2

(* A file begins with a header, unless its first writer had another name   *)
(* before.                                                                 *)
LEMMA RecordsHeadersFirst ==
  ASSUME RecorderTyped, Counted, ContextsRemember, ContextsRemember',
         HeadersAreWritersFirst,
         NEW c \in Connections, NEW kind \in MediaKinds,
         NEW whole \in BOOLEAN, Records(c, kind, whole)
  PROVE  HeadersAreWritersFirst'
<1> PICK f, L, h, n : FileAfter(c, whole, f, L, h, n) /\ MessagesAfter(c, kind, f, h, n)
  BY RecordsEffect
<1>1. f \in Files /\ L \in Nat /\ h \in {0, 1} /\ n \in Nat /\ n >= 1
  BY DEF FileAfter, MessagesAfter
<1>2. \A b \in Connections : IsFiniteSet(names'[b]) /\ names[b] \subseteq names'[b]
  BY DEF ContextsRemember, MessagesAfter
<1> SUFFICES ASSUME NEW g \in Files, flv'[g] # <<>>
             PROVE  \/ flv'[g][1].part = "header"
                    \/ Cardinality(names'[flv'[g][1].connection]) > 1
  BY DEF HeadersAreWritersFirst
<1>3. CASE flv[g] # <<>>
  <2>1. 1 \in DOMAIN flv[g]
    <3>1. flv[g] \in Seq(Item)
      BY DEF RecorderTyped
    <3>2. Len(flv[g]) \in Nat /\ Len(flv[g]) # 0 /\ DOMAIN flv[g] = 1 .. Len(flv[g])
      BY <1>3, <3>1, EmptySeq, LenProperties
    <3> QED BY <3>2
  <2>2. flv'[g][1] = flv[g][1]
    BY <2>1, OldItems
  <2>3. flv[g][1].connection \in Connections
    BY <2>1, ItemFields
  <2>4. flv[g][1].part = "header" \/ Cardinality(names[flv[g][1].connection]) > 1
    BY <1>3 DEF HeadersAreWritersFirst
  <2> QED BY <1>2, <2>2, <2>3, <2>4, MoreNames
<1>4. CASE flv[g] = <<>>
  <2>1. g = f
    BY <1>4 DEF FileAfter
  <2>2. L = 0
    BY <1>4, <2>1 DEF FileAfter
  <2>3. CASE h = 1
    <3>1. flv'[g][1] = FlvHeader(c)
      BY <2>1, <2>2, <2>3 DEF FileAfter
    <3> QED BY <3>1 DEF FlvHeader
  <2>4. CASE h = 0
    <3>1. flv'[g][1] = Tag(c, n, whole)
      BY <2>1, <2>2, <2>4 DEF FileAfter
    <3>2. messages[c] # <<>>
      BY <2>4, HeaderFirst
    <3>3. PICK k \in names[c] : c \in Writers(k)
      BY <3>2 DEF ContextsRemember
    <3>4. k # g
      BY <1>4, <3>3 DEF Writers, FileRange
    <3>5. k \in names'[c] /\ g \in names'[c] /\ IsFiniteSet(names'[c])
      BY <1>2, <2>1, <3>3 DEF MessagesAfter
    <3>6. Cardinality(names'[c]) > 1
      BY <3>4, <3>5, TwoNames
    <3> QED BY <3>1, <3>6 DEF Tag
  <2> QED BY <1>1, <2>3, <2>4
<1> QED BY <1>3, <1>4

(* All of it, when a message is recorded.                                  *)
LEMMA RecordsFiles ==
  ASSUME RecorderTyped, FilesInv, NEW c \in Connections, NEW kind \in MediaKinds,
         NEW whole \in BOOLEAN, Records(c, kind, whole)
  PROVE  FilesInv'
<1>1. /\ Counted /\ ItemsAreMessages /\ WrittenOnce /\ EveryMessageWritten
      /\ WrittenInOrder /\ ContextsRemember /\ OneWriter /\ HeadersAreWritersFirst
  BY DEF FilesInv, RecordingIsWhole
<1>2. Counted' /\ ItemsAreMessages'
  BY <1>1, RecordsCounted, RecordsMessages
<1>3. WrittenOnce' /\ EveryMessageWritten'
  BY <1>1, RecordsOnce, RecordsEvery
<1>4. WrittenInOrder' /\ ContextsRemember'
  BY <1>1, RecordsInOrder, RecordsRemember
<1>5. OneWriter' /\ HeadersAreWritersFirst'
  BY <1>1, <1>4, RecordsOneWriter, RecordsHeadersFirst
<1> QED BY <1>2, <1>3, <1>4, <1>5 DEF FilesInv, RecordingIsWhole

-----------------------------------------------------------------------------
(* The messages of each kind, when there is one more.                      *)
LEMMA OfKindAfter ==
  ASSUME RecorderTyped, NEW c \in Connections, NEW kind \in MediaKinds, NEW f, NEW h,
         NEW n, MessagesAfter(c, kind, f, h, n), NEW k \in MediaKinds
  PROVE  /\ Cardinality(OfKind(c, k)) \in Nat
         /\ Cardinality(OfKind(c, k)') =
              Cardinality(OfKind(c, k)) + (IF k = kind THEN 1 ELSE 0)
         /\ Cardinality(OfKind(c, k)') \in 0 .. n
         /\ \A b \in Connections : b # c => OfKind(b, k)' = OfKind(b, k)
<1> DEFINE S == OfKind(c, k)
           T == OfKind(c, k)'
<1>1. n \in Nat /\ n >= 1
  BY DEF MessagesAfter
<1>2. S = {m \in 1 .. n - 1 : messages[c][m] = k} /\ T = {m \in 1 .. n : messages'[c][m] = k}
  BY DEF OfKind, MessagesAfter
<1>3. T = IF k = kind THEN S \union {n} ELSE S
  <2>1. \A m \in 1 .. n : m # n => m \in 1 .. n - 1
    BY <1>1
  <2>2. \A m \in 1 .. n - 1 : m \in 1 .. n /\ m # n
    BY <1>1
  <2>3. n \in 1 .. n
    BY <1>1
  <2>4. messages'[c][n] = kind /\ \A m \in 1 .. n - 1 : messages'[c][m] = messages[c][m]
    BY DEF MessagesAfter
  <2> QED BY <1>2, <2>1, <2>2, <2>3, <2>4
<1>4. IsFiniteSet(1 .. n) /\ Cardinality(1 .. n) = n
  BY <1>1, FS_Interval
<1>5. T \subseteq 1 .. n /\ S \subseteq 1 .. n /\ n \notin S
  BY <1>1, <1>2
<1> HIDE DEF S, T
<1>6. IsFiniteSet(S) /\ IsFiniteSet(T) /\ Cardinality(T) <= n
  BY <1>4, <1>5, FS_Subset
<1>7. Cardinality(S) \in Nat /\ Cardinality(T) \in Nat
  BY <1>6, FS_CardinalityType
<1>8. Cardinality(S \union {n}) = Cardinality(S) + 1
  BY <1>5, <1>6, FS_AddElement
<1>9. \A b \in Connections : b # c => OfKind(b, k)' = OfKind(b, k)
  BY DEF OfKind, MessagesAfter
<1>10. Cardinality(T) = Cardinality(S) + (IF k = kind THEN 1 ELSE 0)
  BY <1>3, <1>7, <1>8
<1>11. Cardinality(T) \in 0 .. n
  BY <1>1, <1>6, <1>7
<1> QED BY <1>7, <1>9, <1>10, <1>11 DEF S, T

(* The number of the next message among those of its kind is one more than *)
(* there are; those of the messages before stay, and are no larger.        *)
LEMMA KindCounts ==
  ASSUME RecorderTyped, NEW c \in Connections, NEW kind \in MediaKinds, NEW f, NEW h,
         NEW n, MessagesAfter(c, kind, f, h, n)
  PROVE  /\ KindCount(c, n)' = Cardinality(OfKind(c, kind)) + 1
         /\ \A m \in 1 .. n - 1 :
              /\ KindCount(c, m)' = KindCount(c, m)
              /\ KindCount(c, m) \in Nat
              /\ KindCount(c, m) <= Cardinality(OfKind(c, messages[c][m]))
<1>1. n \in Nat /\ n >= 1 /\ DOMAIN messages[c] = 1 .. n - 1 /\ DOMAIN messages'[c] = 1 .. n
  BY DEF MessagesAfter
<1>2. messages'[c][n] = kind /\ \A m \in 1 .. n - 1 : messages'[c][m] = messages[c][m]
  BY DEF MessagesAfter
<1>3. KindCount(c, n)' = Cardinality(OfKind(c, kind)')
  BY <1>1, <1>2 DEF KindCount, OfKind
<1>4. Cardinality(OfKind(c, kind)') = Cardinality(OfKind(c, kind)) + 1
  BY OfKindAfter
<1>5. ASSUME NEW m \in 1 .. n - 1
      PROVE  /\ KindCount(c, m)' = KindCount(c, m)
             /\ KindCount(c, m) \in Nat
             /\ KindCount(c, m) <= Cardinality(OfKind(c, messages[c][m]))
  <2> DEFINE S == {x \in 1 .. m : messages[c][x] = messages[c][m]}
             T == OfKind(c, messages[c][m])
  <2>1. \A x \in 1 .. m : x \in 1 .. n - 1
    BY <1>1
  <2>2. {x \in 1 .. m : messages'[c][x] = messages'[c][m]} = S
    BY <1>2, <2>1
  <2>3. KindCount(c, m)' = Cardinality(S) /\ KindCount(c, m) = Cardinality(S)
    BY <2>2 DEF KindCount
  <2>4. S \subseteq T /\ T \subseteq 1 .. n - 1
    BY <1>1, <2>1 DEF OfKind
  <2>5. IsFiniteSet(1 .. n - 1)
    BY <1>1, FS_Interval
  <2> HIDE DEF S, T
  <2>6. IsFiniteSet(T) /\ IsFiniteSet(S) /\ Cardinality(S) <= Cardinality(T)
    BY <2>4, <2>5, FS_Subset
  <2>7. Cardinality(S) \in Nat
    BY <2>6, FS_CardinalityType
  <2> QED BY <2>3, <2>6, <2>7 DEF T
<1> QED BY <1>3, <1>4, <1>5

(* The counter of a directory that a message of a kind goes to.            *)
LEMMA NumbersOfKind ==
  ASSUME NEW r, NEW kind \in MediaKinds, NEW d \in DirectoriesOf(kind)
  PROVE  /\ d \in Directories
         /\ DumpNumber(r, d) =
              IF d = "media_message_header_and_data" THEN r.media ELSE r[kind]
BY DEF DumpNumber, DirectoriesOf, MediaKinds, Directories

(* A message is numbered one more than its context counts.                 *)
LEMMA NextInDirectory ==
  ASSUME RecorderTyped, IndexCounts, NEW c \in Connections, c \notin ended,
         NEW kind \in MediaKinds, NEW f, NEW h, NEW n, MessagesAfter(c, kind, f, h, n),
         NEW d \in DirectoriesOf(kind)
  PROVE  /\ DumpNumber(index[c], d) \in Nat
         /\ NumberIn(c, n, d)' = DumpNumber(index[c], d) + 1
<1>1. n \in Nat /\ n >= 1 /\ Len(messages[c]) = n - 1
  BY DEF MessagesAfter
<1>2. index[c].media = n - 1 /\ index[c][kind] = Cardinality(OfKind(c, kind))
  BY <1>1 DEF IndexCounts
<1>3. KindCount(c, n)' = Cardinality(OfKind(c, kind)) + 1
  BY KindCounts
<1>4. Cardinality(OfKind(c, kind)) \in Nat
  BY OfKindAfter
<1>5. CASE d = "media_message_header_and_data"
  <2>1. DumpNumber(index[c], d) = index[c].media
    BY <1>5, NumbersOfKind
  <2>2. NumberIn(c, n, d)' = n
    BY <1>5 DEF NumberIn
  <2> QED BY <1>1, <1>2, <2>1, <2>2
<1>6. CASE d # "media_message_header_and_data"
  <2>1. DumpNumber(index[c], d) = index[c][kind]
    BY <1>6, NumbersOfKind
  <2>2. NumberIn(c, n, d)' = KindCount(c, n)'
    BY <1>6 DEF NumberIn
  <2> QED BY <1>2, <1>3, <1>4, <2>1, <2>2
<1> QED BY <1>5, <1>6

(* An earlier message keeps its number, which no later one gets in a       *)
(* directory of both.                                                      *)
LEMMA EarlierInDirectory ==
  ASSUME RecorderTyped, IndexCounts, NEW c \in Connections, c \notin ended,
         NEW kind \in MediaKinds, NEW f, NEW h, NEW n, MessagesAfter(c, kind, f, h, n),
         NEW m \in 1 .. n - 1, NEW d
  PROVE  /\ NumberIn(c, m, d)' = NumberIn(c, m, d)
         /\ d \in DirectoriesOf(messages[c][m]) /\ d \in DirectoriesOf(kind) =>
              NumberIn(c, m, d) # NumberIn(c, n, d)'
<1>1. n \in Nat /\ n >= 1 /\ Len(messages[c]) = n - 1 /\ messages[c] \in Seq(MediaKinds)
      /\ DOMAIN messages[c] = 1 .. n - 1
  BY DEF MessagesAfter
<1>2. KindCount(c, m)' = KindCount(c, m) /\ KindCount(c, m) \in Nat
      /\ KindCount(c, m) <= Cardinality(OfKind(c, messages[c][m]))
  BY KindCounts
<1>3. NumberIn(c, m, d)' = NumberIn(c, m, d)
  BY <1>2 DEF NumberIn
<1>4. ASSUME d \in DirectoriesOf(messages[c][m]), d \in DirectoriesOf(kind)
      PROVE  NumberIn(c, m, d) # NumberIn(c, n, d)'
  <2>1. CASE d = "media_message_header_and_data"
    <3>1. NumberIn(c, m, d) = m /\ NumberIn(c, n, d)' = n
      BY <2>1 DEF NumberIn
    <3> QED BY <1>1, <3>1
  <2>2. CASE d # "media_message_header_and_data"
    <3>1. messages[c][m] \in MediaKinds
      BY <1>1, ElementOfSeq
    <3>2. messages[c][m] = kind
      BY <1>4, <2>2, <3>1 DEF DirectoriesOf, MediaKinds
    <3>3. NumberIn(c, m, d) = KindCount(c, m) /\ NumberIn(c, n, d)' = KindCount(c, n)'
      BY <2>2 DEF NumberIn
    <3>4. KindCount(c, n)' = Cardinality(OfKind(c, kind)) + 1
          /\ Cardinality(OfKind(c, kind)) \in Nat
      BY KindCounts, OfKindAfter
    <3> QED BY <1>2, <3>2, <3>3, <3>4
  <2> QED BY <2>1, <2>2
<1> QED BY <1>3, <1>4

(* No dump file of a name that only this connection used has the number of *)
(* its next message.                                                       *)
LEMMA NumberUnused ==
  ASSUME RecorderTyped, IndexCounts, DumpsAreNumbered,
         NEW c \in Connections, c \notin ended,
         NEW kind \in MediaKinds, NEW f, NEW h, NEW n, MessagesAfter(c, kind, f, h, n),
         NEW g \in Files, Writers(g) \subseteq {c}, NEW d \in DirectoriesOf(kind)
  PROVE  Dumped(<<g, d, NumberIn(c, n, d)'>>) = <<>>
<1> DEFINE k == NumberIn(c, n, d)'
           place == <<g, d, k>>
<1>1. DumpNumber(index[c], d) \in Nat /\ k = DumpNumber(index[c], d) + 1
  BY NextInDirectory
<1> HIDE DEF k
<1>2. ASSUME place \in DOMAIN dump PROVE FALSE
  <2>1. dump[place] \in Seq(Message) /\ dump[place] # <<>>
    BY <1>2 DEF DumpsAreNumbered
  <2>2. 1 \in DOMAIN dump[place]
    BY <2>1, EmptySeq, LenProperties
  <2>3. /\ dump[place][1][1] \in Writers(place[1])
        /\ place[3] <= DumpNumber(index[dump[place][1][1]], place[2])
    BY <1>2, <2>2 DEF DumpsAreNumbered
  <2>4. k <= DumpNumber(index[c], d)
    BY <2>3
  <2> QED BY <1>1, <2>4
<1> QED BY <1>2 DEF Dumped, k

(* The dump files a message is written to, and those it is not.            *)
Written(f, c, n, opened) == {<<f, d, NumberIn(c, n, d)'>> : d \in opened}

DumpAfter(c, n, places, finished) ==
  \A p : Dumped(p)' = IF p \in places THEN Append(Dumped(p), <<c, n, p[2] \in finished>>)
                                      ELSE Dumped(p)

DumpGrows(c, n, places, finished) ==
  /\ DOMAIN dump' = DOMAIN dump \union places
  /\ \A p \in DOMAIN dump' :
       dump'[p] = IF p \in places THEN Append(Dumped(p), <<c, n, p[2] \in finished>>)
                                  ELSE dump[p]

(* Of the files of a kind, k were finished and at most the next was opened. *)
DumpsDone(kind, k, opened, finished) ==
  /\ opened \subseteq DirectoriesOf(kind)
  /\ \A d \in DirectoriesOf(kind) :
       /\ DumpOrder(d) <= k => d \in opened /\ d \in finished
       /\ ~(DumpOrder(d) <= k) /\ d \in opened => DumpOrder(d) = k + 1 /\ d \notin finished

(* A dump file that stays what it was holds what it held.                  *)
LEMMA DumpStays ==
  ASSUME NEW a, NEW m, NEW g, NEW d, NEW k, DumpHolds(a, m, g, d, k),
         WholeIn(m, g)' <=> WholeIn(m, g),
         Dumped(<<g, d, NumberIn(a, m, d)>>)' = Dumped(<<g, d, NumberIn(a, m, d)>>)
  PROVE  DumpHolds(a, m, g, d, k)'
<1> DEFINE old == Dumped(<<g, d, NumberIn(a, m, d)>>)
           whole == WholeIn(m, g)
<1>1. old' = old /\ (whole' <=> whole)
  OBVIOUS
<1>2. IF whole /\ DumpOrder(d) <= k
        THEN old = <<<<a, m, TRUE>>>>
        ELSE old = <<>> \/ (old = <<<<a, m, FALSE>>>> /\ whole /\ DumpOrder(d) = k + 1)
  BY DEF DumpHolds
<1> HIDE DEF old, whole
<1>3. IF whole' /\ DumpOrder(d) <= k
        THEN old' = <<<<a, m, TRUE>>>>
        ELSE old' = <<>> \/ (old' = <<<<a, m, FALSE>>>> /\ whole' /\ DumpOrder(d) = k + 1)
  BY <1>1, <1>2
<1> QED BY <1>3 DEF DumpHolds, old, whole, DumpOrder

(* The dump files of the messages there were are not those of the next.    *)
LEMMA OldDumps ==
  ASSUME RecorderTyped, Counted, ItemsAreMessages, ContextsRemember, DumpsInv,
         NEW c \in Connections, c \notin ended, NEW kind \in MediaKinds,
         NEW whole \in BOOLEAN, NEW f, NEW L, NEW h, NEW n,
         FileAfter(c, whole, f, L, h, n), MessagesAfter(c, kind, f, h, n),
         NEW opened \in SUBSET DirectoriesOf(kind), NEW places, NEW finished,
         places \subseteq Written(f, c, n, opened), DumpAfter(c, n, places, finished),
         NEW a \in Connections, NEW g \in Files, Writers(g)' \subseteq {a},
         NEW m \in DOMAIN messages'[a], ~(a = c /\ m = n)
  PROVE  /\ m \in DOMAIN messages[a] /\ messages'[a][m] = messages[a][m]
         /\ WholeIn(m, g)' <=> WholeIn(m, g)
         /\ \A d \in DirectoriesOf(messages[a][m]) :
              Dumped(<<g, d, NumberIn(a, m, d)>>)' = Dumped(<<g, d, NumberIn(a, m, d)>>)
<1>1. f \in Files /\ L \in Nat /\ h \in {0, 1} /\ n \in Nat /\ n >= 1
      /\ DOMAIN messages[c] = 1 .. n - 1 /\ DOMAIN messages'[c] = 1 .. n
  BY DEF FileAfter, MessagesAfter
<1>2. IndexCounts /\ DumpsAreNumbered /\ DumpedAlone
  BY DEF DumpsInv
<1>3. Writers(g) \subseteq {a} /\ (g = f => a = c)
  BY WritersAfter
<1>4. \A p : p \in places => p[1] = f
  BY DEF Written
<1>5. a = c => m \in 1 .. n - 1
  BY <1>1
<1>6. m \in DOMAIN messages[a] /\ messages'[a][m] = messages[a][m]
  <2>1. CASE a = c
    <3>1. messages'[c][m] = messages[c][m]
      BY <1>5, <2>1 DEF MessagesAfter
    <3> QED BY <1>1, <1>5, <2>1, <3>1
  <2>2. CASE a # c
    <3>1. messages'[a] = messages[a]
      BY <2>2 DEF MessagesAfter
    <3> QED BY <3>1
  <2> QED BY <2>1, <2>2
<1>7. \A d : NumberIn(a, m, d)' = NumberIn(a, m, d)
  <2>1. CASE a = c
    <3>1. \A d : NumberIn(c, m, d)' = NumberIn(c, m, d)
      BY <1>2, <1>5, <2>1, EarlierInDirectory
    <3> QED BY <2>1, <3>1
  <2>2. CASE a # c
    <3>1. messages'[a] = messages[a]
      BY <2>2 DEF MessagesAfter
    <3> QED BY <3>1 DEF NumberIn, KindCount
  <2> QED BY <2>1, <2>2
<1>8. WholeIn(m, g)' <=> WholeIn(m, g)
  <2>1. CASE g # f
    BY <2>1 DEF FileAfter, WholeIn
  <2>2. CASE g = f
    <3>1. WholeIn(m, f) => WholeIn(m, f)'
      BY <1>1, OldItems DEF WholeIn
    <3>2. m \in 1 .. n - 1
      BY <1>3, <1>5, <2>2
    <3>3. ASSUME NEW i \in DOMAIN flv'[f], flv'[f][i].message = m, flv'[f][i].whole
          PROVE  WholeIn(m, f)
      <4>1. CASE i \in 1 .. L /\ flv'[f][i] = flv[f][i]
        BY <3>3, <4>1 DEF WholeIn, FileAfter
      <4>2. CASE flv'[f][i] = FlvHeader(c)
        BY <1>1, <3>2, <3>3, <4>2 DEF FlvHeader
      <4>3. CASE flv'[f][i] = Tag(c, n, whole)
        BY <1>1, <3>2, <3>3, <4>3 DEF Tag
      <4> QED BY <4>1, <4>2, <4>3, ItemsAfter
    <3> QED BY <2>2, <3>1, <3>3 DEF WholeIn
  <2> QED BY <2>1, <2>2
<1>9. ASSUME NEW d \in DirectoriesOf(messages[a][m])
      PROVE  Dumped(<<g, d, NumberIn(a, m, d)>>)' = Dumped(<<g, d, NumberIn(a, m, d)>>)
  <2> DEFINE k == NumberIn(a, m, d)
  <2>1. k' = k
    BY <1>7
  <2>2. <<g, d, k>> \notin places
    <3>1. CASE g # f
      BY <1>4, <3>1
    <3>2. CASE g = f
      <4>1. a = c /\ m \in 1 .. n - 1
        BY <1>3, <1>5, <3>2
      <4> SUFFICES ASSUME NEW e \in opened,
                          <<f, d, k>> = <<f, e, NumberIn(c, n, e)'>>
                   PROVE  FALSE
        BY <3>2 DEF Written
      <4>2. e = d /\ d \in DirectoriesOf(kind) /\ k = NumberIn(c, n, d)'
        OBVIOUS
      <4>3. NumberIn(c, m, d) # NumberIn(c, n, d)'
        BY <1>2, <4>1, <4>2, EarlierInDirectory
      <4> QED BY <4>1, <4>2, <4>3
    <3> QED BY <3>1, <3>2
  <2>3. \A p : p \notin places => Dumped(p)' = Dumped(p)
    BY DEF DumpAfter
  <2> HIDE DEF k
  <2>4. Dumped(<<g, d, k>>)' = Dumped(<<g, d, k>>)
    BY <2>1, <2>2, <2>3
  <2> QED BY <2>4 DEF k
<1> QED BY <1>6, <1>8, <1>9

(* The dump files of the next message, where no other connection writes.   *)
LEMMA NewDumps ==
  ASSUME RecorderTyped, Counted, ItemsAreMessages, ContextsRemember, DumpsInv,
         NEW c \in Connections, c \notin ended, NEW kind \in MediaKinds,
         NEW whole \in BOOLEAN, NEW f, NEW L, NEW h, NEW n,
         FileAfter(c, whole, f, L, h, n), MessagesAfter(c, kind, f, h, n),
         NEW k \in Nat, NEW opened, NEW finished, DumpsDone(kind, k, opened, finished),
         NEW places, places = (IF whole THEN Written(f, c, n, opened) ELSE {}),
         DumpAfter(c, n, places, finished),
         NEW g \in Files, Writers(g)' \subseteq {c}, NEW d \in DirectoriesOf(kind)
  PROVE  DumpHolds(c, n, g, d, k)'
<1>1. f \in Files /\ L \in Nat /\ h \in {0, 1} /\ n \in Nat /\ n >= 1
  BY DEF FileAfter, MessagesAfter
<1>2. IndexCounts /\ DumpsAreNumbered
  BY DEF DumpsInv
<1>3. Writers(g) \subseteq {c}
  BY WritersAfter
<1> DEFINE number == NumberIn(c, n, d)'
           place == <<g, d, number>>
           after == Dumped(<<g, d, NumberIn(c, n, d)>>)'
<1>4. Dumped(place) = <<>>
  BY <1>2, <1>3, NumberUnused
<1>5. place \in places <=> whole /\ g = f /\ d \in opened
  BY DEF Written
<1>6. after = IF place \in places THEN Append(<<>>, <<c, n, d \in finished>>)
                                           ELSE <<>>
  BY <1>4 DEF DumpAfter
<1>7. WholeIn(n, g)' <=> whole /\ g = f
  <2>1. ASSUME NEW i \in DOMAIN flv[g] PROVE flv[g][i].message # n
    <3>1. flv[g][i].connection = c
      BY <1>3, WritersOfItems
    <3>2. flv[g][i].message \in 0 .. n - 1
      BY <3>1, OlderItems
    <3> QED BY <1>1, <3>2
  <2>2. CASE g # f
    BY <2>1, <2>2 DEF FileAfter, WholeIn
  <2>3. CASE g = f /\ whole
    <3>1. L + h + 1 \in DOMAIN flv'[f] /\ flv'[f][L + h + 1] = Tag(c, n, whole)
      BY DEF FileAfter
    <3> QED BY <2>3, <3>1 DEF WholeIn, Tag
  <2>4. CASE g = f /\ ~whole
    <3>1. ASSUME NEW i \in DOMAIN flv'[f], flv'[f][i].message = n PROVE ~flv'[f][i].whole
      <4>1. CASE i \in 1 .. L /\ flv'[f][i] = flv[f][i]
        <5>1. i \in DOMAIN flv[f]
          BY <4>1 DEF FileAfter
        <5> QED BY <2>1, <2>4, <3>1, <4>1, <5>1
      <4>2. CASE flv'[f][i] = FlvHeader(c)
        BY <1>1, <3>1, <4>2 DEF FlvHeader
      <4>3. CASE flv'[f][i] = Tag(c, n, whole)
        BY <2>4, <4>3 DEF Tag
      <4> QED BY <4>1, <4>2, <4>3, ItemsAfter
    <3> QED BY <2>4, <3>1 DEF WholeIn
  <2> QED BY <2>2, <2>3, <2>4
<1> HIDE DEF place, number, after
<1>8. Append(<<>>, <<c, n, d \in finished>>) = <<<<c, n, d \in finished>>>>
  OBVIOUS
<1>9. DumpOrder(d) \in Nat
  BY DEF DumpOrder
<1>10. IF WholeIn(n, g)' /\ DumpOrder(d) <= k
        THEN after = <<<<c, n, TRUE>>>>
        ELSE \/ after = <<>>
             \/ /\ after = <<<<c, n, FALSE>>>>
                /\ WholeIn(n, g)' /\ DumpOrder(d) = k + 1
  <2>1. CASE place \notin places
    <3>1. ~(WholeIn(n, g)' /\ DumpOrder(d) <= k)
      BY <1>5, <1>7, <2>1 DEF DumpsDone
    <3> QED BY <1>6, <2>1, <3>1
  <2>2. CASE place \in places /\ DumpOrder(d) <= k
    <3>1. (d \in finished) = TRUE
      BY <2>2 DEF DumpsDone
    <3>2. after = <<<<c, n, TRUE>>>>
      BY <1>6, <1>8, <2>2, <3>1
    <3> QED BY <1>5, <1>7, <2>2, <3>2
  <2>3. CASE place \in places /\ ~(DumpOrder(d) <= k)
    <3>1. (d \in finished) = FALSE /\ DumpOrder(d) = k + 1
      BY <1>5, <2>3 DEF DumpsDone
    <3>2. after = <<<<c, n, FALSE>>>>
      BY <1>6, <1>8, <2>3, <3>1
    <3> QED BY <1>5, <1>7, <2>3, <3>1, <3>2
  <2> QED BY <2>1, <2>2, <2>3
<1> QED BY <1>10 DEF DumpHolds, DumpOrder, after

(* What halted says of the messages there were stays, and of the next one  *)
(* it says whether the process ended in it.                                *)
LEMMA HaltedAfter ==
  ASSUME NEW c \in Connections, c \notin halted, NEW kind, NEW f, NEW h, NEW n,
         MessagesAfter(c, kind, f, h, n),
         halted' = halted \/ halted' = halted \union {c},
         NEW a \in Connections, NEW m, ~(a = c /\ m = n)
  PROVE  Finished(a, m)' = Finished(a, m)
<1>1. CASE a = c
  <2>1. Len(messages'[c]) = n
    BY DEF MessagesAfter
  <2> QED BY <1>1, <2>1 DEF Finished, Halted
<1>2. CASE a # c
  <2>1. messages'[a] = messages[a] /\ (a \in halted' <=> a \in halted)
    BY <1>2 DEF MessagesAfter
  <2> QED BY <2>1 DEF Finished, Halted
<1> QED BY <1>1, <1>2

(* A name that one connection used has each of its messages in the dump    *)
(* files with its numbers, and only those: this stays so when a message is *)
(* recorded, and k of its three dump files are finished.                   *)
LEMMA RecordsAlone ==
  ASSUME RecorderTyped, Counted, ItemsAreMessages, ContextsRemember, DumpsInv, HaltedInv,
         NEW c \in Connections, c \notin ended, NEW kind \in MediaKinds,
         NEW whole \in BOOLEAN, NEW f, NEW L, NEW h, NEW n,
         FileAfter(c, whole, f, L, h, n), MessagesAfter(c, kind, f, h, n),
         NEW k \in 0 .. 3, NEW opened, NEW finished, DumpsDone(kind, k, opened, finished),
         NEW places, places = (IF whole THEN Written(f, c, n, opened) ELSE {}),
         DumpAfter(c, n, places, finished),
         \/ halted' = halted /\ k = 3
         \/ halted' = halted \union {c} /\ k <= 2
  PROVE  DumpedAlone'
<1>1. n \in Nat /\ Len(messages'[c]) = n /\ messages'[c][n] = kind
  BY DEF MessagesAfter
<1>2. DumpedAlone /\ c \notin halted
  BY DEF DumpsInv, HaltedInv
<1>3. opened \in SUBSET DirectoriesOf(kind) /\ places \subseteq Written(f, c, n, opened)
  BY DEF DumpsDone
<1> SUFFICES ASSUME NEW a \in Connections, NEW g \in Files, Writers(g)' \subseteq {a},
                    NEW m \in DOMAIN messages'[a]
             PROVE  \E x \in Finished(a, m)' :
                      \A d \in DirectoriesOf(messages'[a][m]) : DumpHolds(a, m, g, d, x)'
  BY DEF DumpedAlone
<1>4. CASE a = c /\ m = n
  <2>1. k \in Finished(c, n)'
    <3>1. Halted(c, n)' <=> c \in halted'
      BY <1>1 DEF Halted
    <3> QED BY <1>2, <3>1 DEF Finished
  <2>2. \A d \in DirectoriesOf(kind) : DumpHolds(c, n, g, d, k)'
    <3>1. k \in Nat
      OBVIOUS
    <3> QED BY <1>4, <3>1, NewDumps
  <2> QED BY <1>1, <1>4, <2>1, <2>2
<1>5. CASE ~(a = c /\ m = n)
  <2>1. /\ m \in DOMAIN messages[a] /\ messages'[a][m] = messages[a][m]
        /\ WholeIn(m, g)' <=> WholeIn(m, g)
        /\ \A d \in DirectoriesOf(messages[a][m]) :
             Dumped(<<g, d, NumberIn(a, m, d)>>)' = Dumped(<<g, d, NumberIn(a, m, d)>>)
    BY <1>3, <1>5, OldDumps
  <2>2. Writers(g) \subseteq {a}
    BY WritersAfter
  <2>3. PICK x \in Finished(a, m) :
          \A d \in DirectoriesOf(messages[a][m]) : DumpHolds(a, m, g, d, x)
    BY <1>2, <2>1, <2>2 DEF DumpedAlone
  <2>4. Finished(a, m)' = Finished(a, m)
    BY <1>2, <1>5, HaltedAfter
  <2>5. \A d \in DirectoriesOf(messages[a][m]) : DumpHolds(a, m, g, d, x)'
    BY <2>1, <2>3, DumpStays
  <2> QED BY <2>1, <2>3, <2>4, <2>5
<1> QED BY <1>4, <1>5

-----------------------------------------------------------------------------
(* What write_flv_media_message_dump leaves in the counters.               *)
IndexAfter(c, n, kind) ==
  /\ index' \in [Connections -> [{"media", "audio", "video"} -> 0 .. MaxMessages]]
  /\ index'[c].media = n /\ index'[c][kind] = index[c][kind] + 1
  /\ \A k \in MediaKinds : k # kind => index'[c][k] = index[c][k]
  /\ \A b \in Connections : b # c => index'[b] = index[b]

(* Writing a dump file takes the next number of its kind: the counters stay the number of
   messages dumped. *)
LEMMA WriteDumpIndex ==
  ASSUME RecorderTyped, IndexCounts, NEW c \in Connections, c \notin ended,
         NEW kind \in MediaKinds, NEW f, NEW h, NEW n \in 1 .. MaxMessages,
         MessagesAfter(c, kind, f, h, n), NEW opened, NEW finished,
         WriteDump(c, n, kind, opened, finished)
  PROVE  IndexAfter(c, n, kind)
<1> DEFINE next == [index[c] EXCEPT !.media = @ + 1, ![kind] = @ + 1]
           Counters == [{"media", "audio", "video"} -> 0 .. MaxMessages]
<1>1. index' = [index EXCEPT ![c] = next]
  BY DEF WriteDump
<1>2. index[c] \in Counters /\ index \in [Connections -> Counters]
  BY DEF IndexCounts
<1>3. index[c].media = n - 1 /\ index[c][kind] = Cardinality(OfKind(c, kind))
  BY DEF IndexCounts, MessagesAfter
<1>4. MaxMessages \in Nat /\ n \in Nat /\ n >= 1 /\ n <= MaxMessages
  <2>1. MaxMessages \in Nat
    BY RecorderAssumption
  <2> QED BY <2>1
<1>5. index[c][kind] + 1 \in 0 .. MaxMessages /\ index[c].media + 1 = n
  <2>1. Cardinality(OfKind(c, kind)') = Cardinality(OfKind(c, kind)) + 1
        /\ Cardinality(OfKind(c, kind)') \in 0 .. n
    BY OfKindAfter
  <2> QED BY <1>3, <1>4, <2>1
<1>6. kind \in {"audio", "video"}
  BY DEF MediaKinds
<1>7. /\ next \in Counters /\ next.media = n /\ next[kind] = index[c][kind] + 1
      /\ \A k \in MediaKinds : k # kind => next[k] = index[c][k]
  <2>1. DOMAIN index[c] = {"media", "audio", "video"}
        /\ \A k \in {"media", "audio", "video"} : index[c][k] \in 0 .. MaxMessages
    BY <1>2
  <2>2. \A k \in {"media", "audio", "video"} :
          next[k] = IF k = "media" THEN n ELSE IF k = kind THEN index[c][k] + 1 ELSE index[c][k]
    BY <1>5, <1>6, <2>1
  <2>3. DOMAIN next = {"media", "audio", "video"} /\ next = [k \in DOMAIN next |-> next[k]]
    BY <2>1
  <2>4. n \in 0 .. MaxMessages
    BY <1>4
  <2> HIDE DEF next
  <2>5. \A k \in {"media", "audio", "video"} : next[k] \in 0 .. MaxMessages
    BY <1>5, <2>1, <2>2, <2>4
  <2>6. next \in Counters
    BY <2>3, <2>5
  <2> QED BY <1>6, <2>2, <2>6 DEF MediaKinds
<1> HIDE DEF next
<1>8. /\ index' \in [Connections -> Counters] /\ index'[c] = next
      /\ \A b \in Connections : b # c => index'[b] = index[b]
  BY <1>1, <1>2, <1>7
<1> QED BY <1>7, <1>8 DEF IndexAfter

(* What it leaves in the dump files.                                       *)
LEMMA WriteDumpFiles ==
  ASSUME RecorderTyped, IndexCounts, NEW c \in Connections, c \notin ended,
         NEW kind \in MediaKinds, NEW f, f = RecordName(c), NEW h,
         NEW n \in 1 .. MaxMessages,
         MessagesAfter(c, kind, f, h, n),
         NEW opened \in SUBSET DirectoriesOf(kind), NEW finished,
         WriteDump(c, n, kind, opened, finished)
  PROVE  /\ DumpGrows(c, n, Written(f, c, n, opened), finished)
         /\ DumpAfter(c, n, Written(f, c, n, opened), finished)
<1> DEFINE next == [index[c] EXCEPT !.media = @ + 1, ![kind] = @ + 1]
           places == Written(f, c, n, opened)
<1>1. IndexAfter(c, n, kind)
  BY WriteDumpIndex
<1>2. index'[c] = next
  BY DEF WriteDump, IndexCounts
<1> HIDE DEF next
<1>3. ASSUME NEW d \in DirectoriesOf(kind) PROVE DumpNumber(next, d) = NumberIn(c, n, d)'
  <2>1. NumberIn(c, n, d)' = DumpNumber(index[c], d) + 1
    BY NextInDirectory
  <2>2. index[c].media = n - 1
    BY DEF IndexCounts, MessagesAfter
  <2>3. CASE d = "media_message_header_and_data"
    <3>1. DumpNumber(index[c], d) = index[c].media /\ DumpNumber(next, d) = next.media
      BY <2>3, NumbersOfKind
    <3>2. next.media = n
      BY <1>1, <1>2 DEF IndexAfter
    <3> QED BY <2>1, <2>2, <3>1, <3>2
  <2>4. CASE d # "media_message_header_and_data"
    <3>1. DumpNumber(index[c], d) = index[c][kind] /\ DumpNumber(next, d) = next[kind]
      BY <2>4, NumbersOfKind
    <3>2. next[kind] = index[c][kind] + 1
      BY <1>1, <1>2 DEF IndexAfter
    <3> QED BY <2>1, <3>1, <3>2
  <2> QED BY <2>3, <2>4
<1>4. {<<RecordName(c), d, DumpNumber(next, d)>> : d \in opened} = places
  BY <1>3 DEF Written
<1>5. dump' = [d \in DOMAIN dump \union places |->
                 IF d \in places THEN Append(Dumped(d), <<c, n, d[2] \in finished>>)
                                 ELSE dump[d]]
  BY <1>4 DEF WriteDump, next
<1> HIDE DEF places
<1>6. /\ DOMAIN dump' = DOMAIN dump \union places
      /\ \A d \in DOMAIN dump' :
           dump'[d] = IF d \in places THEN Append(Dumped(d), <<c, n, d[2] \in finished>>)
                                      ELSE dump[d]
  BY <1>5
<1>7. DumpAfter(c, n, places, finished)
  <2> SUFFICES ASSUME NEW d
               PROVE  (IF d \in DOMAIN dump' THEN dump'[d] ELSE <<>>) =
                        IF d \in places THEN Append(Dumped(d), <<c, n, d[2] \in finished>>)
                                        ELSE Dumped(d)
    BY DEF DumpAfter, Dumped
  <2>1. CASE d \in places
    BY <1>6, <2>1
  <2>2. CASE d \notin places
    BY <1>6, <2>2 DEF Dumped
  <2> QED BY <2>1, <2>2
<1>8. DumpGrows(c, n, places, finished)
  BY <1>6 DEF DumpGrows
<1> QED BY <1>7, <1>8 DEF places

(* The counters of the contexts that are there number their messages.      *)
LEMMA RecordsIndex ==
  ASSUME RecorderTyped, IndexCounts, NEW c \in Connections, c \notin ended,
         NEW kind \in MediaKinds, NEW f, NEW h, NEW n, MessagesAfter(c, kind, f, h, n),
         ended \subseteq ended',
         IndexAfter(c, n, kind) \/ (index' = index /\ c \in ended')
  PROVE  IndexCounts'
<1>1. index' \in [Connections -> [{"media", "audio", "video"} -> 0 .. MaxMessages]]
  BY DEF IndexAfter, IndexCounts
<1>2. ASSUME NEW b \in Connections, b \notin ended', NEW k \in MediaKinds
      PROVE  index'[b].media = Len(messages'[b])
             /\ index'[b][k] = Cardinality(OfKind(b, k)')
  <2>1. b \notin ended
    BY <1>2
  <2>2. index[b].media = Len(messages[b]) /\ index[b][k] = Cardinality(OfKind(b, k))
    BY <2>1 DEF IndexCounts
  <2>3. CASE b # c
    <3>1. index'[b] = index[b]
      BY <2>3 DEF IndexAfter
    <3>2. messages'[b] = messages[b] /\ OfKind(b, k)' = OfKind(b, k)
      <4>1. messages'[b] = messages[b]
        BY <2>3 DEF MessagesAfter
      <4>2. OfKind(b, k)' = OfKind(b, k)
        BY <2>3, OfKindAfter
      <4> QED BY <4>1, <4>2
    <3> QED BY <2>2, <3>1, <3>2
  <2>4. CASE b = c
    <3>1. IndexAfter(c, n, kind)
      BY <1>2, <2>4
    <3>2. Cardinality(OfKind(c, k)) \in Nat
          /\ Cardinality(OfKind(c, k)') = Cardinality(OfKind(c, k)) + (IF k = kind THEN 1 ELSE 0)
      BY OfKindAfter
    <3>3. index'[c].media = Len(messages'[c])
      BY <3>1 DEF IndexAfter, MessagesAfter
    <3>4. index'[c][k] = index[c][k] + (IF k = kind THEN 1 ELSE 0)
      <4>1. CASE k = kind
        BY <3>1, <4>1 DEF IndexAfter
      <4>2. CASE k # kind
        <5>1. index'[c][k] = index[c][k]
          BY <3>1, <4>2 DEF IndexAfter
        <5>2. index[c][k] \in Nat
          BY <2>2, <2>4, <3>2
        <5> QED BY <4>2, <5>1, <5>2
      <4> QED BY <4>1, <4>2
    <3> QED BY <2>2, <2>4, <3>2, <3>3, <3>4
  <2> QED BY <2>3, <2>4
<1>3. ASSUME NEW b \in Connections, b \notin ended'
      PROVE  index'[b].media = Len(messages'[b])
  <2>1. "audio" \in MediaKinds
    BY DEF MediaKinds
  <2> QED BY <1>2, <1>3, <2>1
<1> QED BY <1>1, <1>2, <1>3 DEF IndexCounts, OfKind

(* The counters never go back.                                             *)
LEMMA NumbersGrow ==
  ASSUME RecorderTyped, IndexCounts, NEW c \in Connections, NEW kind \in MediaKinds,
         NEW n, n = index[c].media + 1, IndexAfter(c, n, kind),
         NEW b \in Connections, NEW d
  PROVE  /\ DumpNumber(index[b], d) \in Nat
         /\ DumpNumber(index[b], d) <= DumpNumber(index'[b], d)
<1>1. MaxMessages \in Nat
  BY RecorderAssumption
<1>2. \A k \in {"media", "audio", "video"} : index[b][k] \in 0 .. MaxMessages
                                            /\ index'[b][k] \in 0 .. MaxMessages
  BY DEF IndexCounts, IndexAfter
<1>3. \A k \in {"media", "audio", "video"} : index[b][k] \in Nat /\ index'[b][k] \in Nat
  BY <1>1, <1>2
<1>4. \A k \in {"media", "audio", "video"} : index[b][k] <= index'[b][k]
  <2>1. CASE b = c
    <3>1. index'[c].media = index[c].media + 1 /\ index'[c][kind] = index[c][kind] + 1
          /\ \A k \in MediaKinds : k # kind => index'[c][k] = index[c][k]
      BY DEF IndexAfter
    <3>2. CASE kind = "audio"
      BY <1>3, <2>1, <3>1, <3>2 DEF MediaKinds
    <3>3. CASE kind = "video"
      BY <1>3, <2>1, <3>1, <3>3 DEF MediaKinds
    <3> QED BY <3>2, <3>3 DEF MediaKinds
  <2>2. CASE b # c
    <3>1. index'[b] = index[b]
      BY <2>2 DEF IndexAfter
    <3> QED BY <1>3, <3>1
  <2> QED BY <2>1, <2>2
<1>5. \E k \in {"media", "audio", "video"} :
        DumpNumber(index[b], d) = index[b][k] /\ DumpNumber(index'[b], d) = index'[b][k]
  <2>1. CASE d = "media_message_header_and_data"
    BY <2>1 DEF DumpNumber
  <2>2. CASE d \in {"audio_message_header", "audio_message_data"}
    BY <2>2 DEF DumpNumber
  <2>3. CASE d \notin {"media_message_header_and_data", "audio_message_header",
                       "audio_message_data"}
    BY <2>3 DEF DumpNumber
  <2> QED BY <2>1, <2>2, <2>3
<1> QED BY <1>3, <1>4, <1>5

(* The dump files hold messages of the writers of their name, under numbers *)
(* that were given.                                                        *)
LEMMA RecordsNumbered ==
  ASSUME RecorderTyped, IndexCounts, DumpsAreNumbered,
         NEW c \in Connections, c \notin ended, NEW kind \in MediaKinds, NEW whole,
         NEW f, f = RecordName(c), NEW L, NEW h, NEW n,
         FileAfter(c, whole, f, L, h, n), MessagesAfter(c, kind, f, h, n),
         NEW opened \in SUBSET DirectoriesOf(kind), NEW finished,
         WriteDump(c, n, kind, opened, finished)
  PROVE  DumpsAreNumbered'
<1> DEFINE places == Written(f, c, n, opened)
<1>1. n \in 1 .. MaxMessages /\ f \in Files
  BY DEF FileAfter
<1>2. IndexAfter(c, n, kind)
  BY <1>1, WriteDumpIndex
<1>3. /\ DOMAIN dump' = DOMAIN dump \union places
      /\ \A d \in DOMAIN dump' :
           dump'[d] = IF d \in places THEN Append(Dumped(d), <<c, n, d[2] \in finished>>)
                                      ELSE dump[d]
  <2>1. DumpGrows(c, n, Written(f, c, n, opened), finished)
    BY <1>1, WriteDumpFiles
  <2> QED BY <2>1 DEF DumpGrows
<1>4. ASSUME NEW p \in places
      PROVE  /\ p \in DumpFiles /\ p[1] = f
             /\ p[3] = DumpNumber(index'[c], p[2])
  <2>1. PICK d \in opened : p = <<f, d, NumberIn(c, n, d)'>>
    BY DEF Written
  <2>2. d \in Directories /\ NumberIn(c, n, d)' = DumpNumber(index[c], d) + 1
        /\ DumpNumber(index[c], d) \in Nat
    BY NumbersOfKind, NextInDirectory
  <2>3. DumpNumber(index'[c], d) = DumpNumber(index[c], d) + 1
    <3>1. index[c].media = n - 1 /\ n \in Nat
      BY DEF IndexCounts, MessagesAfter
    <3>2. index'[c].media = n /\ index'[c][kind] = index[c][kind] + 1
      BY <1>2 DEF IndexAfter
    <3>3. CASE d = "media_message_header_and_data"
      <4>1. DumpNumber(index[c], d) = index[c].media /\ DumpNumber(index'[c], d) = index'[c].media
        BY <3>3, NumbersOfKind
      <4> QED BY <3>1, <3>2, <4>1
    <3>4. CASE d # "media_message_header_and_data"
      <4>1. DumpNumber(index[c], d) = index[c][kind] /\ DumpNumber(index'[c], d) = index'[c][kind]
        BY <3>4, NumbersOfKind
      <4> QED BY <3>2, <4>1
    <3> QED BY <3>3, <3>4
  <2>4. DumpNumber(index'[c], d) \in 1 .. MaxMessages
    <3>1. \A k \in {"media", "audio", "video"} : index'[c][k] \in 0 .. MaxMessages
      BY <1>2 DEF IndexAfter
    <3>2. "media" \in {"media", "audio", "video"} /\ kind \in {"media", "audio", "video"}
      BY DEF MediaKinds
    <3>3. index'[c].media \in 0 .. MaxMessages /\ index'[c][kind] \in 0 .. MaxMessages
      BY <3>1, <3>2
    <3>4. DumpNumber(index'[c], d) \in 0 .. MaxMessages
      BY <3>3, NumbersOfKind
    <3>5. MaxMessages \in Nat
      BY RecorderAssumption
    <3> QED BY <2>2, <2>3, <3>4, <3>5
  <2> QED BY <1>1, <2>1, <2>2, <2>3, <2>4 DEF DumpFiles
<1>5. ASSUME NEW p \in DOMAIN dump
      PROVE  /\ p \in DumpFiles /\ dump[p] \in Seq(Message) /\ dump[p] # <<>>
             /\ \A i \in DOMAIN dump[p] :
                  /\ dump[p][i][1] \in Writers(p[1])'
                  /\ p[3] <= DumpNumber(index'[dump[p][i][1]], p[2])
  <2>1. p \in DumpFiles /\ dump[p] \in Seq(Message) /\ dump[p] # <<>>
    BY DEF DumpsAreNumbered
  <2> SUFFICES ASSUME NEW i \in DOMAIN dump[p]
               PROVE  /\ dump[p][i][1] \in Writers(p[1])'
                      /\ p[3] <= DumpNumber(index'[dump[p][i][1]], p[2])
    BY <2>1
  <2> DEFINE b == dump[p][i][1]
  <2>2. b \in Writers(p[1]) /\ p[3] <= DumpNumber(index[b], p[2])
    BY DEF DumpsAreNumbered
  <2>3. p[1] \in Files /\ p[3] \in Nat
    BY <2>1 DEF DumpFiles
  <2>4. b \in Writers(p[1])'
    BY <2>2, <2>3, WritersGrow
  <2>5. b \in Connections
    <3>1. dump[p][i] \in Message
      BY <2>1, ElementOfSeq, LenProperties
    <3> QED BY <3>1 DEF Message
  <2> HIDE DEF b
  <2>6. n = index[c].media + 1
    BY DEF IndexCounts, MessagesAfter
  <2>7. /\ DumpNumber(index[b], p[2]) \in Nat
        /\ DumpNumber(index[b], p[2]) <= DumpNumber(index'[b], p[2])
    BY <1>2, <2>5, <2>6, NumbersGrow
  <2>8. DumpNumber(index'[b], p[2]) \in Int
    <3>1. \A k \in {"media", "audio", "video"} : index'[b][k] \in 0 .. MaxMessages
      BY <1>2, <2>5 DEF IndexAfter
    <3>2. \A k \in {"media", "audio", "video"} : index'[b][k] \in Int
      BY <3>1
    <3> QED BY <3>2 DEF DumpNumber
  <2>9. p[3] <= DumpNumber(index'[b], p[2])
    BY <2>2, <2>3, <2>7, <2>8
  <2> QED BY <2>4, <2>9 DEF b
<1>6. ASSUME NEW p \in DOMAIN dump'
      PROVE  /\ p \in DumpFiles /\ dump'[p] \in Seq(Message) /\ dump'[p] # <<>>
             /\ \A i \in DOMAIN dump'[p] :
                  /\ dump'[p][i][1] \in Writers(p[1])'
                  /\ p[3] <= DumpNumber(index'[dump'[p][i][1]], p[2])
  <2>1. CASE p \notin places
    <3>1. p \in DOMAIN dump /\ dump'[p] = dump[p]
      BY <1>3, <2>1
    <3> QED BY <1>5, <3>1
  <2>2. CASE p \in places
    <3> DEFINE s == Dumped(p)
               e == <<c, n, p[2] \in finished>>
    <3>1. dump'[p] = Append(s, e) /\ e \in Message
      <4>1. (p[2] \in finished) \in BOOLEAN
        OBVIOUS
      <4> QED BY <1>1, <1>3, <2>2, <4>1 DEF Message
    <3>2. s \in Seq(Message)
      <4>1. <<>> \in Seq(Message)
        OBVIOUS
      <4> QED BY <1>5, <4>1 DEF Dumped
    <3>3. /\ Append(s, e) \in Seq(Message) /\ Append(s, e) # <<>>
          /\ DOMAIN Append(s, e) = 1 .. Len(s) + 1 /\ DOMAIN s = 1 .. Len(s)
          /\ Len(s) \in Nat /\ Append(s, e)[Len(s) + 1] = e
          /\ \A i \in 1 .. Len(s) : Append(s, e)[i] = s[i]
      BY <3>1, <3>2, AppendedFacts, AppendProperties
    <3>4. p \in DumpFiles /\ p[1] = f /\ p[3] = DumpNumber(index'[c], p[2]) /\ p[3] \in Nat
      BY <1>4, <2>2 DEF DumpFiles
    <3>5. ASSUME NEW i \in 1 .. Len(s)
          PROVE  /\ s[i][1] \in Writers(p[1])'
                 /\ p[3] <= DumpNumber(index'[s[i][1]], p[2])
      <4>1. p \in DOMAIN dump /\ s = dump[p]
        BY <3>3 DEF Dumped
      <4> QED BY <1>5, <3>3, <4>1
    <3>6. c \in Writers(f)'
      BY <1>1, WritersAfter
    <3>7. e[1] = c
      OBVIOUS
    <3> HIDE DEF s, e
    <3>8. ASSUME NEW i \in 1 .. Len(s) + 1
          PROVE  /\ Append(s, e)[i][1] \in Writers(p[1])'
                 /\ p[3] <= DumpNumber(index'[Append(s, e)[i][1]], p[2])
      <4>1. CASE i \in 1 .. Len(s)
        BY <3>3, <3>5, <4>1
      <4>2. CASE i = Len(s) + 1
        <5>1. Append(s, e)[i][1] = c
          BY <3>3, <3>7, <4>2
        <5> QED BY <3>4, <3>6, <5>1
      <4> QED BY <3>3, <4>1, <4>2
    <3> QED BY <3>1, <3>3, <3>4, <3>8
  <2> QED BY <2>1, <2>2
<1> QED BY <1>6 DEF DumpsAreNumbered, Writers, FileRange

(* The dump files, when a message is recorded and dumped, whole or not.    *)
LEMMA DumpsWritten ==
  ASSUME RecorderTyped, FilesInv, DumpsInv, HaltedInv,
         NEW c \in Connections, NEW kind \in MediaKinds, Records(c, kind, TRUE),
         NEW k \in 0 .. 3, NEW opened, NEW finished, DumpsDone(kind, k, opened, finished),
         WriteDump(c, Len(messages[c]) + 1, kind, opened, finished),
         ended \subseteq ended',
         \/ halted' = halted /\ k = 3
         \/ halted' = halted \union {c} /\ k <= 2
  PROVE  DumpsInv'
<1>1. opened \in SUBSET DirectoriesOf(kind)
  BY DEF DumpsDone
<1>2. /\ Counted /\ ItemsAreMessages /\ ContextsRemember
      /\ IndexCounts /\ DumpsAreNumbered /\ DumpedAlone
  BY DEF FilesInv, DumpsInv
<1>3. PICK f, L, h, n : /\ f = RecordName(c)
                        /\ FileAfter(c, TRUE, f, L, h, n) /\ MessagesAfter(c, kind, f, h, n)
  BY <1>2, RecordsEffect
<1>4. c \notin ended
  BY DEF Records, Receive, RecorderTyped
<1>5. n \in 1 .. MaxMessages /\ n = Len(messages[c]) + 1
  BY <1>3 DEF FileAfter, MessagesAfter
<1>6. WriteDump(c, n, kind, opened, finished)
  BY <1>5
<1>7. IndexAfter(c, n, kind)
  BY <1>2, <1>3, <1>4, <1>5, <1>6, WriteDumpIndex
<1>8. IndexCounts'
  BY <1>2, <1>3, <1>4, <1>7, RecordsIndex
<1>9. DumpsAreNumbered'
  BY <1>1, <1>2, <1>3, <1>4, <1>6, RecordsNumbered
<1>10. DumpAfter(c, n, Written(f, c, n, opened), finished)
  BY <1>1, <1>2, <1>3, <1>4, <1>5, <1>6, WriteDumpFiles
<1>11. DumpedAlone'
  <2> DEFINE places == Written(f, c, n, opened)
  <2>1. places = IF TRUE THEN Written(f, c, n, opened) ELSE {}
    OBVIOUS
  <2>2. DumpAfter(c, n, places, finished)
    BY <1>10
  <2> HIDE DEF places
  <2> QED BY <1>2, <1>3, <1>4, <2>1, <2>2, RecordsAlone
<1> QED BY <1>8, <1>9, <1>11 DEF DumpsInv

(* The dump files of a message that is handled, or in whose dumps the      *)
(* process stops.                                                          *)
LEMMA MessageDumps ==
  ASSUME RecorderTyped, FilesInv, DumpsInv, HaltedInv,
         NEW c \in Connections, NEW kind \in MediaKinds,
         HandleMediaMessage(c, kind) \/ RestartInDumps(c, kind)
  PROVE  DumpsInv'
<1>1. Records(c, kind, TRUE)
  BY DEF HandleMediaMessage, RestartInDumps, Records
<1>2. \A d \in DirectoriesOf(kind) : DumpOrder(d) \in 1 .. 3
  BY DEF DumpOrder
<1>3. CASE HandleMediaMessage(c, kind)
  <2> DEFINE all == DirectoriesOf(kind)
  <2>1. WriteDump(c, Len(messages[c]) + 1, kind, all, all)
    BY <1>3 DEF HandleMediaMessage
  <2>2. DumpsDone(kind, 3, all, all)
    BY <1>2 DEF DumpsDone
  <2>3. ended \subseteq ended' /\ halted' = halted /\ 3 \in 0 .. 3
    BY <1>3 DEF HandleMediaMessage
  <2> HIDE DEF all
  <2> QED BY <1>1, <2>1, <2>2, <2>3, DumpsWritten
<1>4. CASE RestartInDumps(c, kind)
  <2>1. PICK k \in 0 .. 2, reached \in Nat :
          /\ reached = k \/ reached = k + 1
          /\ WriteDump(c, Len(messages[c]) + 1, kind,
                       FirstDumps(kind, reached), FirstDumps(kind, k))
    BY <1>4 DEF RestartInDumps
  <2> DEFINE opened == FirstDumps(kind, reached)
             finished == FirstDumps(kind, k)
  <2>2. DumpsDone(kind, k, opened, finished)
    BY <1>2, <2>1 DEF DumpsDone, FirstDumps
  <2>3. ended \subseteq ended' /\ halted' = halted \union {c} /\ k \in 0 .. 3 /\ k <= 2
    BY <1>4 DEF RestartInDumps, ProcessEnds
  <2>4. WriteDump(c, Len(messages[c]) + 1, kind, opened, finished)
    BY <2>1
  <2> HIDE DEF opened, finished
  <2> QED BY <1>1, <2>2, <2>3, <2>4, DumpsWritten
<1> QED BY <1>3, <1>4

(* The dump files, when the process stops in a tag.                        *)
LEMMA CutDumps ==
  ASSUME RecorderTyped, FilesInv, DumpsInv, HaltedInv,
         NEW c \in Connections, NEW kind \in MediaKinds, RestartInTag(c, kind)
  PROVE  DumpsInv'
<1>1. Records(c, kind, FALSE) /\ index' = index /\ dump' = dump
      /\ c \in ended' /\ ended \subseteq ended' /\ halted' = halted \union {c}
  BY DEF RestartInTag, Records, Receive, ProcessEnds
<1>2. /\ Counted /\ ItemsAreMessages /\ ContextsRemember
      /\ IndexCounts /\ DumpsAreNumbered /\ DumpedAlone
  BY DEF FilesInv, DumpsInv
<1>3. PICK f, L, h, n : FileAfter(c, FALSE, f, L, h, n) /\ MessagesAfter(c, kind, f, h, n)
  BY <1>1, <1>2, RecordsEffect
<1>4. c \notin ended
  BY <1>1 DEF Records, Receive, RecorderTyped
<1>5. IndexCounts'
  BY <1>1, <1>2, <1>3, <1>4, RecordsIndex
<1>6. DumpsAreNumbered'
  <2>1. \A d \in DOMAIN dump : d \in DumpFiles /\ d[1] \in Files
    BY <1>2 DEF DumpsAreNumbered, DumpFiles
  <2>2. \A d \in DOMAIN dump : Writers(d[1]) \subseteq Writers(d[1])'
    BY <1>3, <2>1, WritersGrow
  <2>3. ASSUME NEW d \in DOMAIN dump
        PROVE  /\ d \in DumpFiles /\ dump[d] \in Seq(Message) /\ dump[d] # <<>>
               /\ \A i \in DOMAIN dump[d] :
                    /\ dump[d][i][1] \in Writers(d[1])'
                    /\ d[3] <= DumpNumber(index[dump[d][i][1]], d[2])
    BY <1>2, <2>2 DEF DumpsAreNumbered
  <2> QED BY <1>1, <2>3 DEF DumpsAreNumbered, Writers, FileRange
<1>7. DumpAfter(c, n, {}, {})
  BY <1>1 DEF DumpAfter, Dumped
<1>8. DumpsDone(kind, 0, {}, {})
  BY DEF DumpsDone, DumpOrder
<1>9. DumpedAlone'
  <2> DEFINE places == {}
  <2>1. places = (IF FALSE THEN Written(f, c, n, {}) ELSE {})
    OBVIOUS
  <2>2. DumpAfter(c, n, places, {})
    BY <1>7
  <2>3. 0 \in 0 .. 3 /\ 0 <= 2
    OBVIOUS
  <2> HIDE DEF places
  <2> QED BY <1>1, <1>2, <1>3, <1>4, <1>8, <2>1, <2>2, <2>3, RecordsAlone
<1> QED BY <1>5, <1>6, <1>9 DEF DumpsInv

(* The process ends in the message of one connection, which is then ended. *)
LEMMA HaltedStep ==
  ASSUME HaltedInv, RecorderTyped, NEW c \in open, ProcessEnds,
         halted' = halted \union {c}
  PROVE  HaltedInv'
<1>1. restarts' = restarts + 1 /\ ended' = ended \union open
  BY DEF ProcessEnds
<1>2. restarts \in Nat
  <2>1. restarts \in 0 .. MaxRestarts
    BY DEF RecorderTyped
  <2>2. MaxRestarts \in Nat
    BY RecorderAssumption
  <2> QED BY <2>1, <2>2
<1>3. IsFiniteSet(halted \union {c})
      /\ Cardinality(halted \union {c}) = IF c \in halted THEN Cardinality(halted)
                                                        ELSE Cardinality(halted) + 1
  BY FS_AddElement DEF HaltedInv
<1>4. Cardinality(halted) \in Nat
  BY FS_CardinalityType DEF HaltedInv
<1> QED BY <1>1, <1>2, <1>3, <1>4 DEF HaltedInv

(* A tag is cut only in the message in which the process ends.             *)
LEMMA CutTagsStep ==
  ASSUME RecorderTyped, FilesInv, HaltedInv, CutTags,
         NEW c \in Connections, NEW kind \in MediaKinds,
         NEW whole \in BOOLEAN, Records(c, kind, whole),
         halted' = halted \/ halted' = halted \union {c},
         whole \/ c \in halted'
  PROVE  CutTags'
<1>1. Counted /\ c \notin halted
  BY DEF FilesInv, HaltedInv, Records, Receive, RecorderTyped
<1>2. PICK f, L, h, n : FileAfter(c, whole, f, L, h, n) /\ MessagesAfter(c, kind, f, h, n)
  BY <1>1, RecordsEffect
<1> SUFFICES ASSUME NEW g \in Files, NEW i \in DOMAIN flv'[g], ~flv'[g][i].whole
             PROVE  /\ flv'[g][i].connection \in halted'
                    /\ flv'[g][i].message = Len(messages'[flv'[g][i].connection])
  BY DEF CutTags, Halted
<1>3. CASE i \in DOMAIN flv[g] /\ flv'[g][i] = flv[g][i]
  <2> DEFINE b == flv[g][i].connection
  <2>1. b \in halted /\ flv[g][i].message = Len(messages[b])
    BY <1>3 DEF CutTags, Halted
  <2>2. b \in Connections /\ b # c
    <3>1. flv[g][i] \in Item
      BY <1>3, ItemFields
    <3> QED BY <1>1, <2>1, <3>1 DEF Item
  <2>3. messages'[b] = messages[b]
    BY <1>2, <2>2 DEF MessagesAfter
  <2> QED BY <1>3, <2>1, <2>3 DEF Halted
<1>4. CASE flv'[g][i] = FlvHeader(c)
  BY <1>4 DEF FlvHeader
<1>5. CASE flv'[g][i] = Tag(c, n, whole)
  <2>1. Len(messages'[c]) = n
    BY <1>2 DEF MessagesAfter
  <2> QED BY <1>5, <2>1 DEF Halted, Tag
<1> QED BY <1>2, <1>3, <1>4, <1>5, AnyItem

-----------------------------------------------------------------------------
(* Nothing holds of an empty disk that should not.                         *)
LEMMA RecorderInit == Init => RecorderInv
<1> SUFFICES ASSUME Init PROVE RecorderInv
  OBVIOUS
<1>1. MaxMessages \in Nat /\ MaxRestarts \in Nat /\ MaxPublishes \in Nat
  BY RecorderAssumption
<1>2. RecorderTyped
  <2>1. <<>> \in Seq(Item) /\ <<>> \in Seq(MediaKinds)
    OBVIOUS
  <2>2. 0 \in 0 .. MaxRestarts /\ 0 \in 0 .. MaxPublishes
    BY <1>1
  <2>3. open = {} /\ ended = {} /\ restarts = 0 /\ publishes = 0
    BY DEF Init
  <2>4. /\ stream_name_ \in [Connections -> StreamNames \union {""}]
        /\ write_flv_header_done \in [Connections -> BOOLEAN]
        /\ names \in [Connections -> SUBSET Files]
    BY DEF Init
  <2>5. flv \in [Files -> Seq(Item)] /\ messages \in [Connections -> Seq(MediaKinds)]
    BY <2>1 DEF Init
  <2> QED BY <2>2, <2>3, <2>4, <2>5 DEF RecorderTyped
<1>3. \A f \in Files : flv[f] = <<>> /\ DOMAIN flv[f] = {} /\ Len(flv[f]) = 0
      /\ Writers(f) = {}
  <2>1. DOMAIN <<>> = {} /\ Len(<<>>) = 0
    OBVIOUS
  <2>2. \A f \in Files : flv[f] = <<>>
    BY DEF Init
  <2>3. ASSUME NEW f \in Files PROVE Writers(f) = {}
    <3>1. DOMAIN flv[f] = {}
      BY <2>1, <2>2
    <3> QED BY <3>1 DEF Writers, FileRange
  <2> QED BY <2>1, <2>2, <2>3
<1>4. \A c \in Connections : messages[c] = <<>> /\ DOMAIN messages[c] = {}
  <2>1. DOMAIN <<>> = {}
    OBVIOUS
  <2> QED BY <2>1 DEF Init
<1>5. Counted
  <2>1. Numbered = {}
    BY <1>4 DEF Numbered
  <2>2. IsFiniteSet(Numbered) /\ Cardinality(Numbered) = 0
    BY <2>1, FS_EmptySet
  <2> QED BY <1>1, <1>3, <2>2 DEF Counted
<1>6. ItemsAreMessages /\ WrittenOnce /\ WrittenInOrder
  BY <1>3 DEF ItemsAreMessages, WrittenOnce, WrittenInOrder
<1>7. EveryMessageWritten
  BY <1>4 DEF EveryMessageWritten
<1>8. ContextsRemember
  BY <1>4, FS_EmptySet DEF Init, ContextsRemember
<1>9. RecordingIsWhole
  BY <1>3 DEF RecordingIsWhole, OneWriter, HeadersAreWritersFirst
<1>10. IndexCounts
  <2>1. \A c \in Connections, kind \in MediaKinds : OfKind(c, kind) = {}
    BY <1>4 DEF OfKind
  <2>2. \A c \in Connections, kind \in MediaKinds : Cardinality(OfKind(c, kind)) = 0
    BY <2>1, FS_EmptySet
  <2>3. 0 \in 0 .. MaxMessages
    BY <1>1
  <2>4. [media |-> 0, audio |-> 0, video |-> 0]
          \in [{"media", "audio", "video"} -> 0 .. MaxMessages]
    BY <2>3
  <2>5. \A c \in Connections : index[c] = [media |-> 0, audio |-> 0, video |-> 0]
    BY DEF Init
  <2>6. \A c \in Connections : \A kind \in MediaKinds : index[c][kind] = 0
    BY <2>5 DEF MediaKinds
  <2>7. index \in [Connections -> [{"media", "audio", "video"} -> 0 .. MaxMessages]]
    BY <2>4 DEF Init
  <2>8. \A c \in Connections : index[c].media = Len(messages[c])
    BY <1>4, <2>5
  <2> QED BY <2>2, <2>6, <2>7, <2>8 DEF IndexCounts
<1>11. DumpsAreNumbered
  BY DEF Init, DumpsAreNumbered
<1>12. DumpedAlone
  BY <1>4 DEF DumpedAlone
<1>13. HaltedInv
  <2>1. halted = {} /\ restarts = 0
    BY DEF Init
  <2> QED BY <2>1, FS_EmptySet DEF HaltedInv
<1>14. CutTags
  BY <1>3 DEF CutTags
<1> QED BY <1>2, <1>5, <1>6, <1>7, <1>8, <1>9, <1>10, <1>11, <1>12, <1>13, <1>14
        DEF RecorderInv, FilesInv, DumpsInv

(* A step that writes nothing and forgets nothing but contexts leaves what *)
(* is said of the disk.                                                    *)
LEMMA QuietStep ==
  ASSUME RecorderTyped, FilesInv, DumpsInv, HaltedInv, CutTags,
         UNCHANGED <<write_flv_header_done, index, flv, dump, messages, names, halted>>,
         ended \subseteq ended', restarts' = restarts \/ restarts' = restarts + 1
  PROVE  FilesInv' /\ DumpsInv' /\ HaltedInv' /\ CutTags'
<1>1. Counted' /\ ItemsAreMessages' /\ WrittenOnce'
  BY DEF FilesInv, Counted, Numbered, ItemsAreMessages, WrittenOnce, SameMessage
<1>2. EveryMessageWritten' /\ WrittenInOrder' /\ ContextsRemember'
  BY DEF FilesInv, EveryMessageWritten, InFile, WrittenInOrder, ContextsRemember,
         Writers, FileRange
<1>3. RecordingIsWhole'
  <2>1. OneWriter /\ HeadersAreWritersFirst
    BY DEF FilesInv, RecordingIsWhole
  <2>2. OneWriter'
    <3>1. flv' = flv /\ messages' = messages /\ names' = names
      OBVIOUS
    <3>2. \A f : Writers(f)' = Writers(f)
      BY <3>1 DEF Writers, FileRange
    <3> SUFFICES ASSUME NEW c \in Connections, NEW f \in Files,
                        Writers(f)' = {c}, names'[c] = {f}
                 PROVE  /\ Len(flv'[f]) = Len(messages'[c]) + 1
                        /\ flv'[f][1] = FlvHeader(c)
                        /\ \A n \in DOMAIN messages'[c] : flv'[f][n + 1].message = n
      BY DEF OneWriter, FlvHeader
    <3>3. Writers(f) = {c} /\ names[c] = {f}
      BY <3>1, <3>2
    <3> QED BY <2>1, <3>1, <3>3 DEF OneWriter
  <2>3. HeadersAreWritersFirst'
    BY <2>1 DEF HeadersAreWritersFirst
  <2> QED BY <2>2, <2>3 DEF RecordingIsWhole
<1>4. IndexCounts'
  BY DEF DumpsInv, IndexCounts, OfKind
<1>5. DumpsAreNumbered'
  BY DEF DumpsInv, DumpsAreNumbered, Writers, FileRange
<1>6. DumpedAlone'
  <2>1. flv' = flv /\ dump' = dump /\ messages' = messages
    OBVIOUS
  <2>2. \A d : Dumped(d)' = Dumped(d)
    BY <2>1 DEF Dumped
  <2>3. \A c, n, d : NumberIn(c, n, d)' = NumberIn(c, n, d)
    BY <2>1 DEF NumberIn, KindCount
  <2>4. \A f : Writers(f)' = Writers(f)
    BY <2>1 DEF Writers, FileRange
  <2>5. \A n, f : WholeIn(n, f)' <=> WholeIn(n, f)
    BY <2>1 DEF WholeIn
  <2>6. \A c, n : Finished(c, n)' = Finished(c, n)
    BY <2>1 DEF Finished, Halted
  <2>7. ASSUME NEW c, NEW n, NEW f, NEW d, NEW k, DumpHolds(c, n, f, d, k)
        PROVE  DumpHolds(c, n, f, d, k)'
    <3> DEFINE number == NumberIn(c, n, d)
    <3>1. number' = number
      BY <2>3
    <3> HIDE DEF number
    <3>2. Dumped(<<f, d, number>>)' = Dumped(<<f, d, number>>)
      BY <2>1, <3>1 DEF Dumped
    <3> QED BY <2>5, <2>7, <3>2, DumpStays DEF number
  <2> SUFFICES ASSUME NEW c \in Connections, NEW f \in Files, Writers(f)' \subseteq {c},
                      NEW n \in DOMAIN messages'[c]
               PROVE  \E k \in Finished(c, n)' :
                        \A d \in DirectoriesOf(messages'[c][n]) : DumpHolds(c, n, f, d, k)'
    BY DEF DumpedAlone
  <2>8. Writers(f) \subseteq {c} /\ n \in DOMAIN messages[c] /\ messages'[c] = messages[c]
    BY <2>1, <2>4
  <2>9. PICK k \in Finished(c, n) :
          \A d \in DirectoriesOf(messages[c][n]) : DumpHolds(c, n, f, d, k)
    BY <2>8 DEF DumpsInv, DumpedAlone
  <2> QED BY <2>6, <2>7, <2>8, <2>9
<1>7. HaltedInv'
  <2>1. restarts \in Nat
    <3>1. restarts \in 0 .. MaxRestarts
      BY DEF RecorderTyped
    <3>2. MaxRestarts \in Nat
      BY RecorderAssumption
    <3> QED BY <3>1, <3>2
  <2>2. Cardinality(halted) \in Nat
    BY FS_CardinalityType DEF HaltedInv
  <2>3. halted' = halted
    OBVIOUS
  <2>4. IsFiniteSet(halted) /\ Cardinality(halted) <= restarts /\ halted \subseteq ended'
    BY DEF HaltedInv
  <2>5. Cardinality(halted) <= restarts'
    BY <2>1, <2>2, <2>4
  <2> QED BY <2>3, <2>4, <2>5 DEF HaltedInv
<1>8. CutTags'
  BY DEF CutTags, Halted
<1> QED BY <1>1, <1>2, <1>3, <1>4, <1>5, <1>6, <1>7, <1>8 DEF FilesInv, DumpsInv

(* Every step of the recorder keeps the invariant.                         *)
LEMMA RecorderNext == RecorderInv /\ [Next]_vars => RecorderInv'
<1> SUFFICES ASSUME RecorderTyped, FilesInv, DumpsInv, HaltedInv, CutTags, [Next]_vars
             PROVE  RecorderInv'
  BY DEF RecorderInv
<1>1. MaxMessages \in Nat /\ MaxRestarts \in Nat /\ MaxPublishes \in Nat
  BY RecorderAssumption
<1>2. ASSUME NEW c \in Connections, Accept(c) PROVE RecorderInv'
  <2>1. RecorderTyped'
    BY <1>2 DEF Accept, context, disk, history, RecorderTyped
  <2>2. FilesInv' /\ DumpsInv' /\ HaltedInv' /\ CutTags'
    BY <1>2, QuietStep DEF Accept, context, disk, history
  <2> QED BY <2>1, <2>2 DEF RecorderInv
<1>3. ASSUME NEW c \in Connections, Close(c) PROVE RecorderInv'
  <2>1. RecorderTyped'
    BY <1>3 DEF Close, context, disk, history, RecorderTyped
  <2>2. FilesInv' /\ DumpsInv' /\ HaltedInv' /\ CutTags'
    BY <1>3, QuietStep DEF Close, context, disk, history
  <2> QED BY <2>1, <2>2 DEF RecorderInv
<1>4. ASSUME NEW c \in Connections, NEW name \in StreamNames, HandlePublish(c, name)
      PROVE  RecorderInv'
  <2>1. RecorderTyped'
    <3>1. publishes' \in 0 .. MaxPublishes
      <4>1. publishes' = publishes + 1 /\ publishes < MaxPublishes
        BY <1>4 DEF HandlePublish
      <4>2. publishes \in 0 .. MaxPublishes
        BY DEF RecorderTyped
      <4> QED BY <1>1, <4>1, <4>2
    <3>2. stream_name_' \in [Connections -> StreamNames \union {""}]
      BY <1>4 DEF HandlePublish, RecorderTyped
    <3> QED BY <1>4, <3>1, <3>2 DEF HandlePublish, disk, history, RecorderTyped
  <2>2. FilesInv' /\ DumpsInv' /\ HaltedInv' /\ CutTags'
    BY <1>4, QuietStep DEF HandlePublish, context, disk, history
  <2> QED BY <2>1, <2>2 DEF RecorderInv
<1>5. ASSUME NEW c \in Connections, NEW kind \in MediaKinds, HandleMediaMessage(c, kind)
      PROVE  RecorderInv'
  <2>1. Records(c, kind, TRUE)
        /\ UNCHANGED <<open, ended, stream_name_, halted, restarts, publishes>>
    BY <1>5 DEF HandleMediaMessage, Records
  <2>2. RecorderTyped'
    BY <2>1, RecordsTyped DEF RecorderTyped, FilesInv
  <2>3. FilesInv'
    BY <2>1, RecordsFiles
  <2>4. DumpsInv'
    BY <1>5, MessageDumps
  <2>5. HaltedInv'
    BY <2>1 DEF HaltedInv
  <2>6. CutTags'
    BY <2>1, CutTagsStep
  <2> QED BY <2>2, <2>3, <2>4, <2>5, <2>6 DEF RecorderInv
<1>6. ASSUME NEW c \in Connections, NEW kind \in MediaKinds, NEW whole \in BOOLEAN,
             Records(c, kind, whole), ProcessEnds, UNCHANGED <<stream_name_, publishes>>,
             halted' = halted \union {c}
      PROVE  RecorderTyped' /\ FilesInv' /\ HaltedInv' /\ CutTags'
  <2>1. RecorderTyped'
    <3>1. /\ write_flv_header_done' \in [Connections -> BOOLEAN]
          /\ flv' \in [Files -> Seq(Item)]
          /\ messages' \in [Connections -> Seq(MediaKinds)]
          /\ names' \in [Connections -> SUBSET Files]
      BY <1>6, RecordsTyped DEF FilesInv
    <3>2. open' \subseteq Connections /\ ended' \subseteq Connections \ open'
      BY <1>6 DEF ProcessEnds, RecorderTyped
    <3>3. restarts' \in 0 .. MaxRestarts
      <4>1. restarts' = restarts + 1 /\ restarts < MaxRestarts
        BY <1>6 DEF ProcessEnds
      <4>2. restarts \in 0 .. MaxRestarts
        BY DEF RecorderTyped
      <4> QED BY <1>1, <4>1, <4>2
    <3> QED BY <1>6, <3>1, <3>2, <3>3 DEF RecorderTyped
  <2>2. FilesInv'
    BY <1>6, RecordsFiles
  <2>3. HaltedInv'
    <3>1. c \in open
      BY <1>6 DEF Records, Receive
    <3> QED BY <1>6, <3>1, HaltedStep
  <2>4. CutTags'
    BY <1>6, CutTagsStep
  <2> QED BY <2>1, <2>2, <2>3, <2>4
<1>9. ASSUME NEW c \in Connections, NEW kind \in MediaKinds, RestartInTag(c, kind)
      PROVE  RecorderInv'
  <2>1. /\ Records(c, kind, FALSE) /\ ProcessEnds /\ UNCHANGED <<stream_name_, publishes>>
        /\ halted' = halted \union {c}
    BY <1>9 DEF RestartInTag, Records
  <2>2. DumpsInv'
    BY <1>9, CutDumps
  <2> QED BY <1>6, <2>1, <2>2 DEF RecorderInv
<1>10. ASSUME NEW c \in Connections, NEW kind \in MediaKinds, RestartInDumps(c, kind)
       PROVE  RecorderInv'
  <2>1. /\ Records(c, kind, TRUE) /\ ProcessEnds /\ UNCHANGED <<stream_name_, publishes>>
        /\ halted' = halted \union {c}
    BY <1>10 DEF RestartInDumps, Records
  <2>2. DumpsInv'
    BY <1>10, MessageDumps
  <2> QED BY <1>6, <2>1, <2>2 DEF RecorderInv
<1>7. CASE Restart
  <2>1. RecorderTyped'
    <3>1. open' \subseteq Connections /\ ended' \subseteq Connections \ open'
      BY <1>7 DEF Restart, ProcessEnds, RecorderTyped
    <3>2. restarts' \in 0 .. MaxRestarts
      <4>1. restarts' = restarts + 1 /\ restarts < MaxRestarts
        BY <1>7 DEF Restart, ProcessEnds
      <4>2. restarts \in 0 .. MaxRestarts
        BY DEF RecorderTyped
      <4> QED BY <1>1, <4>1, <4>2
    <3> QED BY <1>7, <3>1, <3>2 DEF Restart, context, disk, history, RecorderTyped
  <2>2. FilesInv' /\ DumpsInv' /\ HaltedInv' /\ CutTags'
    BY <1>7, QuietStep DEF Restart, ProcessEnds, context, disk, history
  <2> QED BY <2>1, <2>2 DEF RecorderInv
<1>8. CASE UNCHANGED vars
  <2>1. RecorderTyped'
    BY <1>8 DEF vars, context, disk, history, RecorderTyped
  <2>2. FilesInv' /\ DumpsInv' /\ HaltedInv' /\ CutTags'
    BY <1>8, QuietStep DEF vars, context, disk, history
  <2> QED BY <2>1, <2>2 DEF RecorderInv
<1> QED BY <1>2, <1>3, <1>4, <1>5, <1>7, <1>8, <1>9, <1>10 DEF Next, Ended

-----------------------------------------------------------------------------
(* The invariant has the types of TypeOK in it.                            *)
LEMMA InvTypes ==
  ASSUME RecorderTyped, DumpsInv, HaltedInv
  PROVE  TypeOK
<1>1. \A f \in Files : \A item \in FileRange(flv[f]) :
        item.connection \in Connections /\ item.message \in 0 .. MaxMessages
  <2> SUFFICES ASSUME NEW f \in Files, NEW i \in DOMAIN flv[f]
               PROVE  /\ flv[f][i].connection \in Connections
                      /\ flv[f][i].message \in 0 .. MaxMessages
    BY DEF FileRange
  <2>1. flv[f][i] \in Item
    BY ItemFields
  <2> QED BY <2>1 DEF Item
<1> QED BY <1>1 DEF RecorderTyped, DumpsInv, HaltedInv, IndexCounts, DumpsAreNumbered, TypeOK

(* Theorem: every variable of the recorder has its type.                   *)
THEOREM RecorderTypes == Spec => []TypeOK
<1>1. RecorderInv => TypeOK
  BY InvTypes DEF RecorderInv
<1> QED BY <1>1, RecorderInit, RecorderNext, PTL DEF Spec

(* Theorem: a recording of one connection under one name is whole, and no  *)
(* file begins without a header but those of a connection that had changed *)
(* its name.                                                               *)
THEOREM RecordingsAreWhole == Spec => []RecordingIsWhole
<1>1. RecorderInv => RecordingIsWhole
  BY DEF RecorderInv, FilesInv
<1> QED BY <1>1, RecorderInit, RecorderNext, PTL DEF Spec

(* The items of a connection are as many as its messages, and its header.  *)
LEMMA EntriesOnce ==
  ASSUME RecorderTyped, FilesInv
  PROVE  InOneFile
<1> SUFFICES ASSUME NEW c \in Connections
             PROVE  LET entries == {e \in Files \X (1 .. 2 * MaxMessages) :
                                      /\ e[2] <= Len(flv[e[1]])
                                      /\ flv[e[1]][e[2]].connection = c}
                        entry(e) == flv[e[1]][e[2]].message
                    IN  /\ Cardinality(entries) =
                             Len(messages[c]) + (IF messages[c] = <<>> THEN 0 ELSE 1)
                        /\ {entry(e) : e \in entries} =
                             IF messages[c] = <<>> THEN {} ELSE 0 .. Len(messages[c])
                        /\ \A d, e \in entries :
                             d[1] = e[1] /\ d[2] < e[2] => entry(d) < entry(e)
  BY DEF InOneFile
<1> DEFINE entries == {e \in Files \X (1 .. 2 * MaxMessages) :
                         /\ e[2] <= Len(flv[e[1]])
                         /\ flv[e[1]][e[2]].connection = c}
           entry(e) == flv[e[1]][e[2]].message
           N == Len(messages[c])
<1>1. N \in Nat /\ messages[c] \in Seq(MediaKinds)
  BY LenProperties DEF RecorderTyped
<1>2. ASSUME NEW f \in Files
      PROVE  /\ Len(flv[f]) \in Nat /\ DOMAIN flv[f] = 1 .. Len(flv[f])
             /\ Len(flv[f]) <= 2 * MaxMessages
  <2>1. flv[f] \in Seq(Item)
    BY DEF RecorderTyped
  <2>2. Len(flv[f]) \in Nat /\ DOMAIN flv[f] = 1 .. Len(flv[f])
    BY <2>1, LenProperties
  <2>3. MaxMessages \in Nat
    BY RecorderAssumption
  <2>4. Cardinality(Numbered) \in Nat /\ Cardinality(Numbered) <= MaxMessages
        /\ Len(flv[f]) <= 2 * Cardinality(Numbered)
    BY FS_CardinalityType DEF FilesInv, Counted
  <2> QED BY <2>2, <2>3, <2>4
<1>3. ASSUME NEW e \in entries
      PROVE  e[1] \in Files /\ e[2] \in DOMAIN flv[e[1]] /\ e = <<e[1], e[2]>>
             /\ flv[e[1]][e[2]].connection = c
  <2>1. e[1] \in Files /\ e[2] \in 1 .. 2 * MaxMessages /\ e = <<e[1], e[2]>>
        /\ e[2] <= Len(flv[e[1]]) /\ flv[e[1]][e[2]].connection = c
    OBVIOUS
  <2>2. e[2] \in DOMAIN flv[e[1]]
    BY <1>2, <2>1
  <2> QED BY <2>1, <2>2
<1>4. ASSUME NEW f \in Files, NEW i \in DOMAIN flv[f], flv[f][i].connection = c
      PROVE  <<f, i>> \in entries
  <2>1. i \in 1 .. 2 * MaxMessages /\ i <= Len(flv[f])
    <3>1. MaxMessages \in Nat
      BY RecorderAssumption
    <3> QED BY <1>2, <3>1
  <2> QED BY <1>4, <2>1
<1> HIDE DEF entries
<1>5. \A d, e \in entries : d[1] = e[1] /\ d[2] < e[2] => entry(d) < entry(e)
  BY <1>3 DEF FilesInv, WrittenInOrder
<1>6. CASE messages[c] = <<>>
  <2>1. entries = {}
    BY <1>3, <1>6 DEF FilesInv, ItemsAreMessages
  <2>2. Cardinality(entries) = 0 /\ N = 0
    BY <1>6, <2>1, FS_EmptySet
  <2> QED BY <1>5, <1>6, <2>1, <2>2 DEF entries
<1>7. CASE messages[c] # <<>>
  <2>1. \A e \in entries : entry(e) \in 0 .. N
    BY <1>3 DEF FilesInv, ItemsAreMessages
  <2>2. \A d, e \in entries : entry(d) = entry(e) => d = e
    BY <1>3 DEF FilesInv, WrittenOnce, SameMessage
  <2>3. ASSUME NEW m \in 0 .. N PROVE \E e \in entries : entry(e) = m
    <3>1. PICK f \in Files : InFile(c, m, f)
      BY <1>7 DEF FilesInv, EveryMessageWritten
    <3>2. PICK i \in DOMAIN flv[f] : flv[f][i].connection = c /\ flv[f][i].message = m
      BY <3>1 DEF InFile
    <3> QED BY <1>4, <3>2
  <2>4. {entry(e) : e \in entries} = 0 .. N
    BY <2>1, <2>3
  <2> DEFINE place == [m \in 0 .. N |-> CHOOSE e \in entries : entry(e) = m]
  <2>5. \A m \in 0 .. N : place[m] \in entries /\ entry(place[m]) = m
    BY <2>3
  <2>6. \A e \in entries : place[entry(e)] = e
    BY <2>1, <2>2, <2>5
  <2>7. place \in [0 .. N -> entries]
    BY <2>5
  <2> HIDE DEF place
  <2>8. \A a, b \in 0 .. N : place[a] = place[b] => a = b
    BY <2>5
  <2>9. \A e \in entries : \E m \in 0 .. N : place[m] = e
    BY <2>1, <2>6
  <2>10. place \in Bijection(0 .. N, entries)
    BY <2>7, <2>8, <2>9, Fun_IsBij
  <2>11. ExistsBijection(0 .. N, entries)
    BY <2>10, Fun_ExistsBij
  <2>12. IsFiniteSet(0 .. N) /\ Cardinality(0 .. N) = N + 1
    BY <1>1, FS_Interval
  <2>13. Cardinality(entries) = N + 1
    BY <2>11, <2>12, FS_Bijection
  <2> QED BY <1>5, <1>7, <2>4, <2>13 DEF entries
<1> QED BY <1>6, <1>7

(* The invariant has what EveryMessageOnce says in it.                     *)
LEMMA InvOnce ==
  ASSUME RecorderTyped, FilesInv, DumpsInv, HaltedInv, CutTags
  PROVE  EveryMessageOnce
<1>1. DumpedOnce
  <2> SUFFICES ASSUME NEW c \in Connections, NEW f \in Files, Writers(f) = {c},
                      NEW n \in DOMAIN messages[c]
               PROVE  \E k \in Finished(c, n) :
                        \A d \in DirectoriesOf(messages[c][n]) : DumpHolds(c, n, f, d, k)
    BY DEF DumpedOnce
  <2> QED BY DEF DumpsInv, DumpedAlone
<1> QED BY <1>1, EntriesOnce DEF EveryMessageOnce, HaltedInv

(* Theorem: a connection leaves one header and each of its messages once   *)
(* and in order, and the dump files of a name that is its own hold its     *)
(* messages under their numbers, wherever the process ends: in a tag, or   *)
(* before, in or between the dump files of a message whose tag is whole.   *)
THEOREM MessagesAreRecordedOnce == Spec => []EveryMessageOnce
<1>1. RecorderInv => EveryMessageOnce
  BY InvOnce DEF RecorderInv
<1> QED BY <1>1, RecorderInit, RecorderNext, PTL DEF Spec
=============================================================================
