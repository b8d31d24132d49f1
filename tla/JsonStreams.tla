---------------------------- MODULE JsonStreams ----------------------------
(***************************************************************************)
(* rapidjson/filereadstream.h, filewritestream.h, istreamwrapper.h and     *)
(* cursorstreamwrapper.h: texts that are read and written through buffers. *)
(* Positions in a buffer are from 0; what fread and fwrite do is external. *)
(***************************************************************************)
EXTENDS JsonText, SequencesExt

MostOf(m, n) == IF m < n THEN m ELSE n

(* FileReadStream.  A buffer that is not filled ends in a NUL, and bufferLast
   is its last byte then. *)
NotYetRead(file, bufferSize) ==
  [file |-> file, buffer |-> <<>>, bufferSize |-> bufferSize, last |-> -1, current |-> 0,
   readCount |-> 0, count |-> 0, eof |-> FALSE]
Refilled_EndIfFull(s) ==
  LET n == MostOf(s.bufferSize, Len(s.file))
      ends == n <= s.bufferSize
  IN [s EXCEPT !.file = SubSeq(s.file, n + 1, Len(s.file)),
               !.buffer = SubSeq(s.file, 1, n) \o (IF ends THEN <<NUL>> ELSE <<>>),
               !.count = s.count + s.readCount, !.readCount = n,
               !.last = IF ends THEN n ELSE n - 1, !.current = 0, !.eof = ends]
Refilled(s) ==
  LET n == MostOf(s.bufferSize, Len(s.file))
      ends == n < s.bufferSize
  IN [s EXCEPT !.file = SubSeq(s.file, n + 1, Len(s.file)),
               !.buffer = SubSeq(s.file, 1, n) \o (IF ends THEN <<NUL>> ELSE <<>>),
               !.count = s.count + s.readCount, !.readCount = n,
               !.last = IF ends THEN n ELSE n - 1, !.current = 0, !.eof = ends]
ReadFile(s) ==
  CASE s.current < s.last -> [s EXCEPT !.current = s.current + 1]
    [] s.current >= s.last /\ ~s.eof -> Refilled(s)
    [] OTHER -> s
OpenFile(file, bufferSize) == ReadFile(NotYetRead(file, bufferSize))
PeekFile(s) == s.buffer[s.current + 1]
TellFile(s) == s.count + s.current
Peek4File(s) == IF s.current + 4 <= s.last THEN SubSeq(s.buffer, s.current + 1, s.current + 4) ELSE <<>>

(* FileWriteStream. *)
NewFile(bufferSize) == [written |-> <<>>, buffer |-> <<>>, bufferSize |-> bufferSize]
Flush(s) == [s EXCEPT !.written = s.written \o s.buffer, !.buffer = <<>>]
PutByteTo(s, c) ==
  LET room == IF Len(s.buffer) >= s.bufferSize THEN Flush(s) ELSE s
  IN [room EXCEPT !.buffer = Append(room.buffer, c)]
Fill(s, c, n) == [s EXCEPT !.buffer = s.buffer \o [i \in 1..n |-> c]]
RECURSIVE PutN(_, _, _)
PutN(s, c, n) ==
  LET avail == s.bufferSize - Len(s.buffer)
  IN IF n > avail THEN PutN(Flush(Fill(s, c, avail)), c, n - avail) ELSE Fill(s, c, n)

(* IStreamWrapper over an istream that stands at p: Peek4 takes what it can and
   puts it back. *)
NewIStream(text) == [text |-> text, p |-> 1, count |-> 0]
PeekIStream(s) == ByteAt(s.text, s.p)
TakeIStream(s) ==
  IF s.p > Len(s.text) THEN s ELSE [s EXCEPT !.p = s.p + 1, !.count = s.count + 1]
Peek4IStream(s) ==
  LET got == SubSeq(s.text, s.p, MostOf(Len(s.text), s.p + 3))
  IN [bytes |-> IF Len(got) = 4 THEN got ELSE <<>>, stream |-> [s EXCEPT !.p = (s.p + Len(got)) - Len(got)]]

(* CursorStreamWrapper: what it has taken counts, the NUL at the end too. *)
LineFeed == 10
NewCursor == [line |-> 1, col |-> 0]
Counted(cursor, c) ==
  IF c = LineFeed THEN [line |-> cursor.line + 1, col |-> 0]
  ELSE [cursor EXCEPT !.col = cursor.col + 1]
=============================================================================
