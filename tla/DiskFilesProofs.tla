-------------------------- MODULE DiskFilesProofs --------------------------
(***************************************************************************)
(* What the process leaves on disk, proved for every set of lengths with a *)
(* longest one, every rotation size and every length of the day.  The      *)
(* recordings keep the invariant of FlvRecorderProofs; the log files keep  *)
(* the one stated here, for each of the four backends.                     *)
(***************************************************************************)
EXTENDS DiskFiles, FlvRecorderProofs, WellFoundedInduction

LogNames == DOMAIN log_files
DatedNames == LogNames \ {Logs!Active}

(* A record that waits in the queue, and one in a file. *)
Waiting == [id : Nat, size : Sizes, begun : Nat]
OnFile == [id : Nat, size : Sizes, begun : Nat, done : Nat, end : Nat]

(* The record in progress has been written, or its write has failed. *)
HeadTried == at \in {"written", "full", "moved"}

(* How many records have been tried: the numbers of those in the files. *)
Tried == (logged - Len(queue)) + (IF HeadTried THEN 1 ELSE 0)

-----------------------------------------------------------------------------
(* The types of the sink's variables, and what its place in consume says   *)
(* of them.                                                                *)
SinkTyped ==
  /\ kind \in Logs!Kinds /\ now \in 1 .. LastHour
  /\ sink \in {"running", "removed", "flushing", "stopped"}
  /\ at \in {"idle", "stale", "rotated", "current", "open", "written", "full", "moved"}
  /\ current \in Nat /\ current <= Logs!Period(now)
  /\ written \in Nat /\ good \in BOOLEAN /\ logged \in Nat /\ log_restarts \in Nat
  /\ at # "idle" => queue # <<>>
  /\ at \in {"stale", "full"} /\ kind = "hour_backup" => current < now

(* The queue holds the last records logged, in order. *)
QueueIsNext ==
  /\ queue \in Seq(Waiting) /\ Len(queue) <= logged
  /\ \A i \in 1 .. Len(queue) : queue[i].id = (logged - Len(queue)) + i
  /\ at # "idle" => queue[1].begun \in 1 .. now

FileNamed(name) ==
  /\ name = Logs!Dated(name.period, name.index)
  /\ name.period \in 0 .. Logs!Period(now) /\ name.index \in 0 .. logged

(* The names of the files. *)
FilesNamed ==
  /\ \A name \in LogNames : log_files[name] \in Seq(OnFile)
  /\ \A name \in DatedNames : FileNamed(name)
  /\ ~Logs!Backup => Logs!Active \notin LogNames

(* The file that is open, when one is. *)
FileIsThere ==
  /\ file \in LogNames \union {Logs!Closed}
  /\ at \in {"open", "written"} => file # Logs!Closed
  /\ at \in {"rotated", "moved"} => file = Logs!Closed
  /\ Logs!Backup => file \in {Logs!Active, Logs!Closed}

(* The records in the files are of the past. *)
RecordsArePast ==
  \A name \in LogNames : \A i \in DOMAIN log_files[name] :
    LET record == log_files[name][i] IN
    /\ record.id \in 1 .. Tried
    /\ record.begun \in 1 .. record.done /\ record.done <= now

(* The order of the files by their names is that of their records, and the *)
(* open file is the last.                                                  *)
IdsInOrder ==
  \A a, b \in LogNames :
    \A i \in DOMAIN log_files[a], j \in DOMAIN log_files[b] :
      (a = b /\ i < j) \/ Logs!Before(a, b) => log_files[a][i].id < log_files[b][j].id

OpenFileIsLast ==
  file # Logs!Closed => \A name \in LogNames : ~Logs!Before(file, name)

(* The files by the hour are not numbered; the backups among them are      *)
(* named after hours before the current one, so that the hour before now   *)
(* is a new name at a rotation.                                            *)
HoursAreNew ==
  Logs!Hourly =>
    \A name \in DatedNames :
      /\ name.index = 0
      /\ kind = "hour_backup" =>
           name.period < (IF at \in {"rotated", "moved"} THEN now ELSE current)

(* The files of a day are numbered without a gap; those before the last    *)
(* have records, so that no day has more files than records were logged.   *)
Behind(name) == Logs!Dated(name.period, name.index - 1)

IndicesHaveNoGap ==
  ~Logs!Hourly =>
    \A name \in DatedNames :
      /\ name.index # 0 => Behind(name) \in LogNames /\ log_files[Behind(name)] # <<>>
      /\ \A i \in DOMAIN log_files[name] : name.index < log_files[name][i].id

(* consume begins a record in a period that is not after the current one,  *)
(* and that one is not after the file's.                                   *)
RecordsAreOnTime ==
  /\ at \in {"current", "open"} => Logs!Period(queue[1].begun) <= current
  /\ ~Logs!Backup /\ file # Logs!Closed => current <= file.period
  /\ \A name \in LogNames : \A i \in DOMAIN log_files[name] :
       LET record == log_files[name][i] IN
       /\ Logs!Period(record.begun) <= (IF name = Logs!Active THEN current ELSE name.period)
       /\ ~Logs!Backup => name.period <= Logs!Period(record.done)

(* characters_written_ is at least what is in the open file, and below the *)
(* rotation size unless a record was just written or the process stopped   *)
(* between a write and the rotation.                                       *)
Longest == Logs!Max(Sizes)
DatedBound == RotationSize + Longest * (IF Logs!Backup THEN 1 + log_restarts ELSE 1)
ActiveBound ==
  RotationSize + Longest * log_restarts
    + (IF at \in {"written", "full"} THEN Longest ELSE 0)

FilesAreShort ==
  ~Logs!Hourly =>
    /\ file # Logs!Closed => Logs!Length(log_files[file]) <= written
    /\ kind = "size" /\ file # Logs!Closed /\ ~HeadTried => written < RotationSize
    /\ \A name \in DatedNames : Logs!Length(log_files[name]) < DatedBound
    /\ Logs!Active \in LogNames => Logs!Length(log_files[Logs!Active]) < ActiveBound

HeadIsKept ==
  kind # "size_backup" /\ HeadTried => queue[1].id \in Logs!OnDisk \union failed

LogInv ==
  /\ SinkTyped /\ QueueIsNext /\ FilesNamed /\ FileIsThere /\ RecordsArePast
  /\ IdsInOrder /\ OpenFileIsLast /\ HoursAreNew /\ IndicesHaveNoGap
  /\ RecordsAreOnTime /\ FilesAreShort
  /\ HeadIsKept /\ RecordsAreKept
-----------------------------------------------------------------------------
(* The day of an hour: a later hour is not of an earlier day.              *)
LEMMA DayIsMonotone ==
  ASSUME NEW a \in Nat, NEW b \in Nat, a <= b
  PROVE  Logs!Day(a) \in Nat /\ Logs!Day(a) <= Logs!Day(b) /\ Logs!Day(b) <= b
<1>h. HoursPerDay \in Nat /\ HoursPerDay # 0
  BY LogAssumption
<1> DEFINE p == a \div HoursPerDay
           q == b \div HoursPerDay
<1>1. /\ p \in Int /\ q \in Int
      /\ a = HoursPerDay * p + (a % HoursPerDay) /\ a % HoursPerDay \in 0 .. HoursPerDay - 1
      /\ b = HoursPerDay * q + (b % HoursPerDay) /\ b % HoursPerDay \in 0 .. HoursPerDay - 1
  BY <1>h
<1>2. p \in Nat /\ p <= q /\ q <= b
  BY <1>h, <1>1
<1> QED BY <1>2 DEF Logs!Day
(* The period of an hour, for the backends by hour and by day.             *)
LEMMA PeriodIsMonotone ==
  ASSUME NEW a \in Nat, NEW b \in Nat, a <= b
  PROVE  /\ Logs!Period(a) \in Nat /\ Logs!Period(b) \in Nat
         /\ Logs!Period(a) <= Logs!Period(b) /\ Logs!Period(b) <= b
<1>1. Logs!Day(a) \in Nat /\ Logs!Day(a) <= Logs!Day(b) /\ Logs!Day(b) <= b
  BY DayIsMonotone
<1>2. Logs!Day(b) \in Nat
  BY DayIsMonotone
<1> QED BY <1>1, <1>2 DEF Logs!Period

(* A set of bounded numbers has a largest one, and Max is it.              *)
LEMMA MaxIsLargest ==
  ASSUME NEW N \in Nat, NEW S \in SUBSET (0 .. N), S # {}
  PROVE  Logs!Max(S) \in S /\ \A x \in S : x <= Logs!Max(S)
<1> DEFINE above == {N - x : x \in S}
<1> DEFINE less == {ss \in Nat \X Nat : ss[1] < ss[2]}
<1>1. above \subseteq Nat
  <2> SUFFICES ASSUME NEW x \in S
               PROVE  N - x \in Nat
    OBVIOUS
  <2>1. x \in 0 .. N
    OBVIOUS
  <2> QED BY <2>1
<1>2. above # {}
  <2>1. PICK x : x \in S
    OBVIOUS
  <2>2. N - x \in above
    BY <2>1
  <2> QED BY <2>2
<1>w. IsWellFoundedOn(less, Nat)
  BY NatLessThanWellFounded DEF OpToRel
<1>m. \E x \in above : \A y \in above : ~(<<y, x>> \in less)
  <2> HIDE DEF above, less
  <2> QED BY <1>1, <1>2, <1>w, WFMin
<1>3. PICK least \in above : \A y \in above : least <= y
  <2>1. PICK x \in above : \A y \in above : <<y, x>> \notin less
    BY <1>m
  <2>2. ASSUME NEW y \in above
        PROVE  x <= y
    <3>1. x \in Nat /\ y \in Nat
      BY <1>1
    <3>2. ~(y < x)
      <4> HIDE DEF above
      <4> QED BY <2>1, <3>1
    <3> QED BY <3>1, <3>2
  <2> QED BY <2>2
<1>4. PICK x \in S : least = N - x
  OBVIOUS
<1>5. \A y \in S : x >= y
  BY <1>3, <1>4
<1>6. \E z \in S : \A y \in S : z >= y
  BY <1>5
<1>7. Logs!Max(S) \in S /\ \A y \in S : Logs!Max(S) >= y
  BY <1>6 DEF Logs!Max
<1> QED BY <1>7

(* The lengths of records are numbers, and one of them is the longest.     *)
LEMMA SizesAreLengths ==
  /\ Sizes \subseteq Nat /\ Longest \in Nat /\ Longest > 0
  /\ \A size \in Sizes : size > 0 /\ size <= Longest
<1>1. PICK longest \in Sizes : \A size \in Sizes : size <= longest
  BY LogAssumption
<1>2. Sizes \subseteq Nat \ {0}
  BY LogAssumption
<1>3. Sizes \in SUBSET (0 .. longest) /\ longest \in Nat /\ Sizes # {}
  BY <1>1, <1>2
<1>4. Longest \in Sizes /\ \A size \in Sizes : size <= Longest
  BY <1>3, MaxIsLargest DEF Longest
<1> QED BY <1>2, <1>4

(* The length of a file is where its last record ends.                     *)
LEMMA LengthFacts ==
  /\ Logs!Length(<<>>) = 0
  /\ \A records \in Seq(OnFile) : Logs!Length(records) \in Nat
  /\ \A records \in Seq(OnFile), r \in OnFile : Logs!Length(Append(records, r)) = r.end
<1>1. Logs!Length(<<>>) = 0
  BY DEF Logs!Length
<1>2. ASSUME NEW records \in Seq(OnFile)
      PROVE  Logs!Length(records) \in Nat
  <2>1. CASE records = <<>>
    BY <2>1 DEF Logs!Length
  <2>2. CASE records # <<>>
    <3>1. records[Len(records)] \in OnFile
      BY <2>2
    <3> QED BY <2>2, <3>1 DEF Logs!Length, Logs!Last, OnFile
  <2> QED BY <2>1, <2>2
<1>3. ASSUME NEW records \in Seq(OnFile), NEW r \in OnFile
      PROVE  Logs!Length(Append(records, r)) = r.end
  <2>1. Append(records, r) # <<>>
    BY AppendProperties
  <2>2. Append(records, r)[Len(Append(records, r))] = r
    OBVIOUS
  <2> QED BY <2>1, <2>2 DEF Logs!Length, Logs!Last
<1> QED BY <1>1, <1>2, <1>3
-----------------------------------------------------------------------------
(* The active file and no file are no dated names.                         *)
LEMMA SpecialNames ==
  /\ Logs!Active # Logs!Closed
  /\ \A name : FileNamed(name) => name # Logs!Active /\ name # Logs!Closed
<1>1. Logs!Active.period = -1 /\ Logs!Closed.period = -2
  BY DEF Logs!Active, Logs!Closed, Logs!Dated
<1>2. ASSUME NEW name, FileNamed(name)
      PROVE  name # Logs!Active /\ name # Logs!Closed
  BY <1>1, <1>2 DEF FileNamed
<1> QED BY <1>1, <1>2

(* What the files say of a dated name that a file is given next: it is not *)
(* before another one, a file that has it is not full, and those with      *)
(* smaller numbers have records.                                           *)
NameIsNext(name) ==
  /\ FileNamed(name) /\ current <= name.period
  /\ \A other \in DatedNames : other = name \/ Logs!Before(other, name)
  /\ kind = "hour_backup" => name \notin LogNames
  /\ kind = "hour_backup" => name = Logs!Dated(now - 1, 0)
  /\ ~Logs!Hourly =>
       /\ name \in LogNames => Logs!Length(log_files[name]) < RotationSize
       /\ name.index # 0 =>
            /\ Behind(name) \in LogNames
            /\ \E i \in DOMAIN log_files[Behind(name)] :
                 name.index <= log_files[Behind(name)][i].id

(* The indices of a day's files are bounded by the records logged.         *)
Indices(day) == {name.index : name \in {n \in LogNames : n.period = day}}

(* The indices a day has on disk are those of dated files, and no more than records were
   logged. *)
LEMMA IndicesAreBounded ==
  ASSUME FilesNamed, SinkTyped, NEW day \in Nat
  PROVE  /\ Indices(day) \subseteq 0 .. logged
         /\ \A i \in Indices(day) :
              Logs!Dated(day, i) \in DatedNames /\ Logs!Dated(day, i).index = i
<1> SUFFICES ASSUME NEW i \in Indices(day)
             PROVE  /\ i \in 0 .. logged /\ Logs!Dated(day, i) \in DatedNames
                    /\ Logs!Dated(day, i).index = i
  OBVIOUS
<1>1. PICK name \in LogNames : name.period = day /\ name.index = i
  BY DEF Indices
<1>2. name # Logs!Active
  <2>1. Logs!Active.period = -1
    BY DEF Logs!Active, Logs!Dated
  <2> QED BY <2>1, <1>1
<1>3. FileNamed(name)
  BY <1>2 DEF FilesNamed, DatedNames
<1>4. name = Logs!Dated(day, i) /\ i \in 0 .. logged
  BY <1>1, <1>3 DEF FileNamed
<1> QED BY <1>1, <1>2, <1>4 DEF DatedNames

(* scan_next_index: the index of the last file, or the one behind it.      *)
LEMMA ScanFacts ==
  ASSUME FilesNamed, SinkTyped, NEW day \in Nat
  PROVE  LET next == Logs!scan_next_index(day) IN
         /\ next \in Nat
         /\ \A i \in Indices(day) : i <= next
         /\ Logs!Dated(day, next) \in LogNames =>
              /\ next = Logs!Max(Indices(day))
              /\ Logs!Length(log_files[Logs!Dated(day, next)]) < RotationSize
         /\ Logs!Dated(day, next) \notin LogNames /\ next # 0 =>
              /\ next - 1 \in Indices(day)
              /\ Logs!Length(log_files[Logs!Dated(day, next - 1)]) >= RotationSize
<1> DEFINE last == IF Indices(day) = {} THEN 0 ELSE Logs!Max(Indices(day))
           full == /\ Logs!Dated(day, last) \in LogNames
                   /\ Logs!Length(log_files[Logs!Dated(day, last)]) >= RotationSize
           next == Logs!scan_next_index(day)
<1>0. next = IF full THEN last + 1 ELSE last
  BY DEF Logs!scan_next_index, Logs!Files, Indices, LogNames
<1>b. Indices(day) \subseteq 0 .. logged /\ logged \in Nat
  BY IndicesAreBounded DEF SinkTyped
<1>n. \A i \in Indices(day) : Logs!Dated(day, i) \in DatedNames
  BY IndicesAreBounded
<1>i. \A i \in Nat : Logs!Dated(day, i) \in LogNames => i \in Indices(day)
  <2> SUFFICES ASSUME NEW i \in Nat, Logs!Dated(day, i) \in LogNames
               PROVE  i \in Indices(day)
    OBVIOUS
  <2>1. Logs!Dated(day, i).period = day /\ Logs!Dated(day, i).index = i
    BY DEF Logs!Dated
  <2> QED BY <2>1 DEF Indices
<1>l. last \in Nat /\ \A i \in Indices(day) : i <= last
  <2>1. CASE Indices(day) = {}
    BY <2>1
  <2>2. CASE Indices(day) # {}
    <3>1. Logs!Max(Indices(day)) \in Indices(day)
          /\ \A i \in Indices(day) : i <= Logs!Max(Indices(day))
      BY <2>2, <1>b, MaxIsLargest
    <3> QED BY <3>1, <2>2, <1>b
  <2> QED BY <2>1, <2>2
<1>r. \A i \in Indices(day) : i \in Nat
  BY <1>b
<1>t. Logs!Dated(day, last) \in LogNames =>
        /\ Logs!Length(log_files[Logs!Dated(day, last)]) \in Nat
        /\ last = Logs!Max(Indices(day)) /\ last \in Indices(day)
  <2> SUFFICES ASSUME Logs!Dated(day, last) \in LogNames
               PROVE  /\ Logs!Length(log_files[Logs!Dated(day, last)]) \in Nat
                      /\ last = Logs!Max(Indices(day)) /\ last \in Indices(day)
    OBVIOUS
  <2>1. last \in Indices(day)
    BY <1>i, <1>l
  <2>2. log_files[Logs!Dated(day, last)] \in Seq(OnFile)
    BY DEF FilesNamed
  <2> QED BY <2>1, <2>2, LengthFacts
<1>R. RotationSize \in Nat
  BY LogAssumption
<1> HIDE DEF last
<1>1. CASE full
  <2>1. next = last + 1
    BY <1>1, <1>0
  <2>2. Logs!Dated(day, next) \notin LogNames
    <3> SUFFICES ASSUME Logs!Dated(day, next) \in LogNames
                 PROVE  FALSE
      OBVIOUS
    <3>1. next \in Indices(day)
      BY <1>i, <1>l, <2>1
    <3> QED BY <3>1, <1>l, <2>1
  <2>3. next - 1 = last
    BY <2>1, <1>l
  <2>4. last \in Indices(day)
    BY <1>1, <1>t
  <2>5. \A i \in Indices(day) : i <= next
    BY <1>l, <1>r, <2>1
  <2> QED BY <1>1, <1>l, <2>1, <2>2, <2>3, <2>4, <2>5
<1>2. CASE ~full
  <2>1. next = last
    BY <1>2, <1>0
  <2>2. next # 0 => last \in Indices(day) /\ Logs!Dated(day, last) \in LogNames
    <3> SUFFICES ASSUME next # 0
                 PROVE  last \in Indices(day) /\ Logs!Dated(day, last) \in LogNames
      OBVIOUS
    <3>1. Indices(day) # {}
      BY <2>1 DEF last
    <3>2. last \in Indices(day)
      BY <3>1, <1>b, MaxIsLargest DEF last
    <3> QED BY <3>2, <1>n DEF DatedNames
  <2> QED BY <1>2, <1>l, <1>t, <1>R, <2>1, <2>2
<1> QED BY <1>1, <1>2
(* The records tried are among those logged.                               *)
LEMMA TriedFacts ==
  ASSUME SinkTyped, QueueIsNext
  PROVE  Tried \in Nat /\ Tried <= logged /\ Len(queue) \in Nat /\ logged \in Nat
<1>1. Len(queue) \in Nat /\ Len(queue) <= logged /\ logged \in Nat
  BY DEF QueueIsNext, SinkTyped
<1>2. HeadTried => Len(queue) # 0
  <2> SUFFICES ASSUME HeadTried
               PROVE  Len(queue) # 0
    OBVIOUS
  <2>1. queue \in Seq(Waiting) /\ queue # <<>>
    BY DEF SinkTyped, QueueIsNext, HeadTried
  <2> QED BY <2>1, EmptySeq
<1> QED BY <1>1, <1>2 DEF Tried

(* What FileNamed says of a dated name, in a form that SMT can use.        *)
LEMMA DatedFacts ==
  ASSUME SinkTyped, FilesNamed, NEW name \in DatedNames
  PROVE  /\ name = Logs!Dated(name.period, name.index)
         /\ name.period \in Nat /\ name.period <= Logs!Period(now)
         /\ name.index \in Nat /\ name.index <= logged
<1>1. Logs!Period(now) \in Nat /\ logged \in Nat
  BY PeriodIsMonotone DEF SinkTyped
<1> QED BY <1>1 DEF FilesNamed, FileNamed

(* The names by the day: scan_next_index.                                  *)
LEMMA DayNameIsNext ==
  ASSUME SinkTyped, QueueIsNext, FilesNamed, RecordsArePast, IndicesHaveNoGap, ~Logs!Hourly
  PROVE  NameIsNext(Logs!Dated(Logs!Day(now), Logs!scan_next_index(Logs!Day(now))))
<1> DEFINE day == Logs!Day(now)
           next == Logs!scan_next_index(day)
           name == Logs!Dated(day, next)
<1>n. now \in Nat /\ current \in Nat /\ logged \in Nat
  BY DEF SinkTyped
<1>d. day \in Nat
  BY <1>n, DayIsMonotone
<1>P. Logs!Period(now) = day
  BY DEF Logs!Period
<1>s. /\ next \in Nat
      /\ \A i \in Indices(day) : i <= next
      /\ name \in LogNames => Logs!Length(log_files[name]) < RotationSize
      /\ name \notin LogNames /\ next # 0 =>
           /\ next - 1 \in Indices(day)
           /\ Logs!Length(log_files[Logs!Dated(day, next - 1)]) >= RotationSize
  BY <1>d, ScanFacts
<1>f. name.period = day /\ name.index = next /\ Behind(name) = Logs!Dated(day, next - 1)
      /\ name = Logs!Dated(name.period, name.index)
  BY DEF Logs!Dated, Behind
<1>a. name # Logs!Active
  <2>1. Logs!Active.period = -1
    BY DEF Logs!Active, Logs!Dated
  <2> QED BY <2>1, <1>d, <1>f
<1>R. RotationSize \in Nat /\ RotationSize > 0
  BY LogAssumption
<1> HIDE DEF day, next, name
<1>1. next # 0 => Behind(name) \in DatedNames /\ log_files[Behind(name)] # <<>>
  <2> SUFFICES ASSUME next # 0
               PROVE  Behind(name) \in DatedNames /\ log_files[Behind(name)] # <<>>
    OBVIOUS
  <2>1. CASE name \in LogNames
    <3>1. name \in DatedNames
      BY <2>1, <1>a DEF DatedNames
    <3>2. Behind(name) \in LogNames /\ log_files[Behind(name)] # <<>>
      BY <3>1, <1>f DEF IndicesHaveNoGap
    <3>3. Behind(name).period = day
      BY <1>f DEF Logs!Dated
    <3>4. Logs!Active.period = -1
      BY DEF Logs!Active, Logs!Dated
    <3> QED BY <3>2, <3>3, <3>4, <1>d DEF DatedNames
  <2>2. CASE name \notin LogNames
    <3>1. next - 1 \in Indices(day) /\ Logs!Length(log_files[Behind(name)]) >= RotationSize
      BY <2>2, <1>s, <1>f
    <3>2. Behind(name) \in DatedNames
      BY <3>1, <1>d, <1>f, IndicesAreBounded
    <3>3. log_files[Behind(name)] # <<>>
      BY <3>1, <1>R, LengthFacts
    <3> QED BY <3>2, <3>3
  <2> QED BY <2>1, <2>2
<1>2. next # 0 => \E i \in DOMAIN log_files[Behind(name)] :
                    next <= log_files[Behind(name)][i].id
  <2> SUFFICES ASSUME next # 0
               PROVE  \E i \in DOMAIN log_files[Behind(name)] :
                        next <= log_files[Behind(name)][i].id
    OBVIOUS
  <2>1. Behind(name) \in DatedNames /\ Behind(name) \in LogNames
        /\ log_files[Behind(name)] # <<>> /\ log_files[Behind(name)] \in Seq(OnFile)
    BY <1>1 DEF DatedNames, FilesNamed
  <2>2. 1 \in DOMAIN log_files[Behind(name)] /\ log_files[Behind(name)][1] \in OnFile
    BY <2>1, EmptySeq, LenProperties, ElementOfSeq
  <2>3. Behind(name).index < log_files[Behind(name)][1].id
    BY <2>1, <2>2 DEF IndicesHaveNoGap
  <2>4. Behind(name).index = next - 1
    BY <1>f DEF Logs!Dated
  <2>5. log_files[Behind(name)][1].id \in Nat
    BY <2>2 DEF OnFile
  <2> QED BY <2>2, <2>3, <2>4, <2>5, <1>s
<1>3. next <= logged
  <2>1. CASE next = 0
    BY <2>1, <1>n
  <2>2. CASE next # 0
    <3>1. PICK i \in DOMAIN log_files[Behind(name)] : next <= log_files[Behind(name)][i].id
      BY <2>2, <1>2
    <3>2. log_files[Behind(name)][i].id \in 1 .. Tried
      BY <2>2, <1>1 DEF RecordsArePast, DatedNames
    <3> QED BY <3>1, <3>2, <1>s, TriedFacts
  <2> QED BY <2>1, <2>2
<1>4. FileNamed(name) /\ current <= name.period
  BY <1>3, <1>d, <1>f, <1>s, <1>P, <1>n DEF FileNamed, SinkTyped
<1>5. ASSUME NEW other \in DatedNames
      PROVE  other = name \/ Logs!Before(other, name)
  <2>1. other = Logs!Dated(other.period, other.index) /\ other.period \in Nat
        /\ other.period <= day /\ other.index \in Nat
    BY DatedFacts, <1>P
  <2>2. other.period = day => other.index <= next
    BY <1>s DEF Indices, DatedNames
  <2>3. other # Logs!Active
    BY DEF DatedNames
  <2>4. CASE other.period < day
    BY <2>3, <2>4, <1>a, <1>f DEF Logs!Before
  <2>5. CASE other.period = day /\ other.index < next
    BY <2>3, <2>5, <1>a, <1>f DEF Logs!Before
  <2>6. CASE other.period = day /\ other.index = next
    BY <2>1, <2>6 DEF name
  <2> QED BY <2>1, <2>2, <2>4, <2>5, <2>6, <1>d, <1>s
<1>6. kind # "hour_backup"
  BY DEF Logs!Hourly
<1>7. NameIsNext(name)
  BY <1>1, <1>2, <1>4, <1>5, <1>6, <1>s, <1>f DEF NameIsNext, DatedNames
<1> QED BY <1>7 DEF name, next, day
(* The names by the hour, and so those of every backend.                   *)
LEMMA GeneratedNameIsNext ==
  ASSUME SinkTyped, QueueIsNext, FilesNamed, RecordsArePast, IndicesHaveNoGap, HoursAreNew,
         kind = "hour_backup" => current < now /\ at \notin {"rotated", "moved"}
  PROVE  NameIsNext(Logs!generate_filepath)
<1>n. now \in Nat /\ now # 0 /\ current \in Nat /\ logged \in Nat /\ kind \in Logs!Kinds
      /\ current <= Logs!Period(now)
  BY DEF SinkTyped
<1>d. \A other \in DatedNames : other # Logs!Active
  BY DEF DatedNames
<1>1. CASE kind = "hour"
  <2> DEFINE name == Logs!Dated(now, 0)
  <2>1. Logs!generate_filepath = name
    BY <1>1 DEF Logs!generate_filepath, Logs!HourFile
  <2>2. Logs!Period(now) = now
    BY <1>1 DEF Logs!Period, Logs!Hourly
  <2>3. name.period = now /\ name.index = 0 /\ name = Logs!Dated(name.period, name.index)
    BY DEF Logs!Dated
  <2> HIDE DEF name
  <2>4. FileNamed(name) /\ current <= name.period
    BY <2>2, <2>3, <1>n DEF FileNamed
  <2>6. Logs!Hourly
    BY <1>1 DEF Logs!Hourly
  <2>5. ASSUME NEW other \in DatedNames
        PROVE  other = name \/ Logs!Before(other, name)
    <3>1. other = Logs!Dated(other.period, other.index) /\ other.period \in Nat
          /\ other.period <= now /\ other.index \in Nat
      BY DatedFacts, <2>2
    <3>2. name # Logs!Active
      BY <2>4, SpecialNames
    <3>3. other.index = 0
      BY <2>6 DEF HoursAreNew
    <3>4. CASE other.period < now
      BY <3>1, <3>2, <3>4, <1>d, <2>3 DEF Logs!Before
    <3>5. CASE other.period = now
      BY <3>1, <3>3, <3>5 DEF name
    <3> QED BY <3>1, <3>4, <3>5, <1>n
  <2>7. NameIsNext(name)
    BY <2>4, <2>5, <2>6, <1>1 DEF NameIsNext
  <2> QED BY <2>1, <2>7
<1>2. CASE kind = "hour_backup"
  <2> DEFINE name == Logs!Dated(now - 1, 0)
  <2>1. Logs!generate_filepath = name
    BY <1>2 DEF Logs!generate_filepath, Logs!HourBackupFile
  <2>2. Logs!Hourly /\ Logs!Period(now) = now
    BY <1>2 DEF Logs!Period, Logs!Hourly
  <2>3. name.period = now - 1 /\ name.index = 0 /\ name = Logs!Dated(name.period, name.index)
    BY DEF Logs!Dated
  <2> HIDE DEF name
  <2>4. FileNamed(name) /\ current <= name.period
    BY <2>2, <2>3, <1>2, <1>n DEF FileNamed
  <2>5. name # Logs!Active
    BY <2>4, SpecialNames
  <2>6. ASSUME NEW other \in DatedNames
        PROVE  Logs!Before(other, name) /\ other.period < name.period
    <3>1. other.period \in Nat /\ other.period < current
      BY <1>2, <2>2, DatedFacts DEF HoursAreNew
    <3>2. other.period < name.period
      BY <3>1, <1>n, <1>2, <2>3
    <3> QED BY <3>2, <2>5, <1>d DEF Logs!Before
  <2>7. name \notin LogNames
    <3> SUFFICES ASSUME name \in LogNames
                 PROVE  FALSE
      OBVIOUS
    <3>1. name.period < name.period
      BY <2>5, <2>6 DEF DatedNames
    <3> QED BY <3>1, <2>3, <1>n
  <2>8. NameIsNext(name)
    BY <2>1, <2>2, <2>4, <2>6, <2>7 DEF NameIsNext, name
  <2> QED BY <2>1, <2>8
<1>3. CASE kind \in {"size", "size_backup"}
  <2>1. ~Logs!Hourly
    BY <1>3 DEF Logs!Hourly
  <2>2. Logs!generate_filepath = Logs!Dated(Logs!Day(now), Logs!scan_next_index(Logs!Day(now)))
    BY <1>3 DEF Logs!generate_filepath, Logs!DayFile, Logs!DayBackupFile
  <2>3. NameIsNext(Logs!Dated(Logs!Day(now), Logs!scan_next_index(Logs!Day(now))))
    BY <2>1, DayNameIsNext
  <2> QED BY <2>2, <2>3
<1> QED BY <1>n, <1>1, <1>2, <1>3 DEF Logs!Kinds
-----------------------------------------------------------------------------
(* The backend of a sink stays the same, and so does what an hour means.   *)
LEMMA BackendStays ==
  ASSUME kind' = kind
  PROVE  /\ (Logs!Hourly)' = Logs!Hourly /\ (Logs!Backup)' = Logs!Backup
         /\ \A hour : Logs!Period(hour)' = Logs!Period(hour)
BY DEF Logs!Hourly, Logs!Backup, Logs!Period, Logs!Day

(* The head of the queue, and what is behind it.                           *)
LEMMA QueueFacts ==
  ASSUME QueueIsNext, SinkTyped, queue # <<>>
  PROVE  /\ queue \in Seq(Waiting) /\ Len(queue) \in Nat /\ Len(queue) > 0
         /\ Head(queue) = queue[1] /\ queue[1] \in Waiting
         /\ queue[1].id = (logged - Len(queue)) + 1
         /\ Tail(queue) \in Seq(Waiting) /\ Len(Tail(queue)) = Len(queue) - 1
         /\ \A i \in 1 .. Len(queue) - 1 : Tail(queue)[i] = queue[i + 1]
<1>1. queue \in Seq(Waiting) /\ Len(queue) \in Nat /\ Len(queue) > 0
  BY EmptySeq, LenProperties DEF QueueIsNext
<1>2. Head(queue) = queue[1] /\ queue[1] \in Waiting
  BY <1>1, ElementOfSeq
<1>3. queue[1].id = (logged - Len(queue)) + 1
  BY <1>1 DEF QueueIsNext
<1>4. Tail(queue) \in Seq(Waiting) /\ Len(Tail(queue)) = Len(queue) - 1
      /\ \A i \in 1 .. Len(queue) - 1 : Tail(queue)[i] = queue[i + 1]
  BY <1>1, HeadTailProperties
<1> QED BY <1>1, <1>2, <1>3, <1>4

(* What a step of the sink leaves in its variables has its type.           *)
LEMMA SinkStep ==
  ASSUME SinkTyped, QueueIsNext, FilesNamed, [Logs!Next]_Logs!vars
  PROVE  SinkTyped' /\ kind' = kind /\ current <= current' /\ now <= now' /\ logged <= logged'
         /\ log_restarts <= log_restarts'
<1>k. kind' = kind
  BY DEF Logs!Next, Logs!vars, Logs!Tick, Logs!Log, Logs!Consume, Logs!RotateFile,
         Logs!SetCurrent, Logs!OpenFile, Logs!OpenFails, Logs!Write, Logs!WriteFails,
         Logs!EndRecord, Logs!RemoveSink, Logs!StopThread, Logs!ResetSink, Logs!Restart,
         Logs!Stopped
<1>p. \A hour : Logs!Period(hour)' = Logs!Period(hour)
  BY <1>k, BackendStays
<1>t. /\ kind \in Logs!Kinds /\ now \in Nat /\ now > 0 /\ now <= LastHour /\ LastHour \in Nat
      /\ current \in Nat /\ current <= Logs!Period(now) /\ Logs!Period(now) \in Nat
      /\ Logs!Period(now) <= now /\ written \in Nat /\ logged \in Nat /\ log_restarts \in Nat
  BY PeriodIsMonotone, LogAssumption DEF SinkTyped
<1> DEFINE Result == SinkTyped' /\ kind' = kind /\ current <= current' /\ now <= now'
                     /\ logged <= logged' /\ log_restarts <= log_restarts'
<1>1. CASE Logs!Tick
  <2>1. now' = now + 1 /\ now' <= LastHour
    BY <1>1, <1>t DEF Logs!Tick
  <2>2. Logs!Period(now)' = Logs!Period(now')
    BY <1>p
  <2>3. Logs!Period(now) <= Logs!Period(now')
    BY <1>t, <2>1, PeriodIsMonotone
  <2>4. UNCHANGED <<kind, sink, at, current, written, good, queue, logged, log_restarts>>
    BY <1>1 DEF Logs!Tick, Logs!process, Logs!backend, Logs!history
  <2>5. Logs!Period(now') \in Nat
    BY <1>t, <2>1, PeriodIsMonotone
  <2> QED BY <1>k, <1>t, <2>1, <2>2, <2>3, <2>4, <2>5 DEF SinkTyped
<1>2. CASE \E size \in Sizes : Logs!Log(size)
  <2>1. logged' = logged + 1 /\ queue' # <<>>
    BY <1>2, AppendProperties DEF Logs!Log, QueueIsNext
  <2>2. UNCHANGED <<kind, now, sink, at, current, written, good, log_restarts>>
    BY <1>2 DEF Logs!Log, Logs!backend
  <2>3. Logs!Period(now)' = Logs!Period(now)
    BY <1>p, <2>2
  <2> QED BY <1>k, <1>t, <2>1, <2>2, <2>3 DEF SinkTyped
<1>n. now' = now => Logs!Period(now)' = Logs!Period(now)
  BY <1>p
<1>s. now' = now /\ logged' = logged /\ log_restarts' = log_restarts /\ current' = current =>
        /\ now' \in 1 .. LastHour /\ current' \in Nat /\ current' <= Logs!Period(now)'
        /\ logged' \in Nat /\ log_restarts' \in Nat /\ kind' \in Logs!Kinds
        /\ current <= current' /\ now <= now' /\ logged <= logged'
        /\ log_restarts <= log_restarts'
  BY <1>t, <1>n, <1>k
<1>3. CASE Logs!Consume
  <2>1. queue' # <<>> /\ at' \in {"stale", "current"}
    BY <1>3, EmptySeq DEF Logs!Consume, QueueIsNext
  <2>2. UNCHANGED <<kind, now, sink, current, written, good, logged, log_restarts>>
    BY <1>3 DEF Logs!Consume, Logs!history
  <2>3. at' = "stale" /\ kind = "hour_backup" => current < now
    <3>1. at' = "stale" => current # Logs!Period(now)
      BY <1>3 DEF Logs!Consume
    <3>2. kind = "hour_backup" => Logs!Period(now) = now
      BY DEF Logs!Period, Logs!Hourly
    <3> QED BY <3>1, <3>2, <1>t
  <2> QED BY <1>k, <1>s, <2>1, <2>2, <2>3 DEF SinkTyped
<1>4. CASE Logs!RotateFile("stale", "rotated") \/ Logs!RotateFile("full", "moved")
  <2>1. UNCHANGED <<kind, now, sink, queue, current, logged, log_restarts>>
        /\ written' = 0 /\ good' = TRUE
        /\ at # "idle" /\ at' \in {"rotated", "moved"}
    BY <1>4 DEF Logs!RotateFile, Logs!history
  <2> QED BY <1>k, <1>s, <2>1 DEF SinkTyped
<1>5. CASE Logs!SetCurrent("rotated", "current") \/ Logs!SetCurrent("moved", "idle")
  <2>1. UNCHANGED <<kind, now, sink, written, good, logged, log_restarts>>
        /\ current' = Logs!Period(now) /\ at \in {"rotated", "moved"}
        /\ at' \in {"current", "idle"} /\ (at' = "current" => queue' = queue)
    BY <1>5 DEF Logs!SetCurrent, Logs!history
  <2> QED BY <1>k, <1>t, <1>n, <2>1 DEF SinkTyped
<1>6. CASE Logs!OpenFile
  <2>1. UNCHANGED <<kind, now, sink, queue, current, good, logged, log_restarts>>
        /\ at = "current" /\ at' = "open"
    BY <1>6 DEF Logs!OpenFile, Logs!history
  <2>2. Logs!Length(Logs!Records(Logs!OpenName)) \in Nat
    BY LengthFacts DEF FilesNamed, Logs!Records, Logs!Files, LogNames
  <2>3. written' \in Nat
    BY <1>6, <1>t, <2>2 DEF Logs!OpenFile
  <2> QED BY <1>k, <1>s, <2>1, <2>3 DEF SinkTyped
<1>7. CASE Logs!OpenFails
  <2>1. UNCHANGED <<kind, now, sink, current, written, good, logged, log_restarts>>
        /\ at' = "idle"
    BY <1>7 DEF Logs!OpenFails
  <2> QED BY <1>k, <1>s, <2>1 DEF SinkTyped
<1>8. CASE Logs!Write \/ Logs!WriteFails
  <2>1. UNCHANGED <<kind, now, sink, queue, current, logged, log_restarts>>
        /\ at = "open" /\ at' = "written" /\ good' \in BOOLEAN /\ Logs!CountWritten
    BY <1>8 DEF Logs!Write, Logs!WriteFails, SinkTyped
  <2>2. Head(queue) \in Waiting
    BY <2>1, QueueFacts DEF SinkTyped
  <2>3. Head(queue).size \in Nat
    BY <2>2, SizesAreLengths DEF Waiting
  <2>4. written' \in Nat
    BY <2>1, <2>3, <1>t DEF Logs!CountWritten
  <2> QED BY <1>k, <1>s, <2>1, <2>4 DEF SinkTyped
<1>9. CASE Logs!EndRecord
  <2>1. UNCHANGED <<kind, now, sink, current, written, good, logged, log_restarts>>
        /\ at = "written" /\ at' \in {"full", "idle"} /\ (at' = "full" => queue' = queue)
    BY <1>9 DEF Logs!EndRecord, Logs!history
  <2>2. at' = "full" /\ kind = "hour_backup" => current < now
    <3>1. at' = "full" /\ kind = "hour_backup" => current # now
      BY <1>9 DEF Logs!EndRecord, Logs!MustRotate
    <3> QED BY <3>1, <1>t
  <2> QED BY <1>k, <1>s, <2>1, <2>2 DEF SinkTyped
<1>10. CASE Logs!RemoveSink \/ Logs!StopThread \/ Logs!ResetSink
  <2>1. UNCHANGED <<kind, now, at, current, written, good, logged, log_restarts, queue>>
        /\ sink' \in {"removed", "flushing", "stopped"}
    BY <1>10 DEF Logs!RemoveSink, Logs!StopThread, Logs!ResetSink, Logs!backend, Logs!history
  <2> QED BY <1>k, <1>s, <2>1 DEF SinkTyped
<1>11. CASE Logs!Restart
  <2>1. UNCHANGED <<kind, now, logged>> /\ log_restarts' = log_restarts + 1
        /\ sink' = "running" /\ at' = "idle" /\ good' = TRUE /\ written' = 0
        /\ current' = Logs!Period(now)
    BY <1>11 DEF Logs!Restart
  <2> QED BY <1>k, <1>t, <1>n, <2>1 DEF SinkTyped
<1>12. CASE Logs!Stopped \/ UNCHANGED Logs!vars
  <2>1. UNCHANGED <<kind, now, sink, queue, at, current, written, good, logged, log_restarts>>
    BY <1>12 DEF Logs!Stopped, Logs!vars, Logs!process, Logs!backend, Logs!history
  <2> QED BY <1>k, <1>s, <2>1 DEF SinkTyped
<1> QED
  BY <1>1, <1>2, <1>3, <1>4, <1>5, <1>6, <1>7, <1>8, <1>9, <1>10, <1>11, <1>12 DEF Logs!Next
(* The queue and the numbers of its records, behind every step.            *)
LEMMA QueueStep ==
  ASSUME SinkTyped, QueueIsNext, FilesNamed, [Logs!Next]_Logs!vars
  PROVE  QueueIsNext' /\ Tried <= Tried' /\ Tried' \in Nat
<1>t. /\ Len(queue) \in Nat /\ Len(queue) <= logged /\ logged \in Nat /\ now \in Nat /\ now > 0
      /\ queue \in Seq(Waiting) /\ SinkTyped' /\ Tried \in Nat
  BY SinkStep, TriedFacts DEF QueueIsNext, SinkTyped
<1>e. at # "idle" => queue # <<>> /\ queue[1].begun \in 1 .. now
  BY DEF SinkTyped, QueueIsNext
<1>h. HeadTried => at # "idle"
  BY DEF HeadTried
<1> SUFFICES QueueIsNext' /\ Tried <= Tried'
  <2>1. ASSUME QueueIsNext'
        PROVE  Tried' \in Int
    <3>1. logged' \in Nat /\ Len(queue') \in Nat
      BY <2>1, <1>t DEF SinkTyped, QueueIsNext
    <3> QED BY <3>1 DEF Tried
  <2> QED BY <2>1, <1>t
<1>1. CASE \E size \in Sizes : Logs!Log(size)
  <2>1. PICK size \in Sizes : Logs!Log(size)
    BY <1>1
  <2> DEFINE r == [id |-> logged + 1, size |-> size, begun |-> Logs!NotBegun]
  <2>2. queue' = Append(queue, r) /\ logged' = logged + 1 /\ at' = at /\ now' = now
    BY <2>1 DEF Logs!Log, Logs!backend
  <2>3. r \in Waiting /\ r.id = logged + 1
    BY <1>t DEF Waiting, Logs!NotBegun
  <2> HIDE DEF r
  <2>4. /\ queue' \in Seq(Waiting) /\ Len(queue') = Len(queue) + 1
        /\ \A i \in 1 .. Len(queue) : queue'[i] = queue[i]
        /\ queue'[Len(queue) + 1] = r
    BY <1>t, <2>2, <2>3, AppendProperties
  <2>5. \A i \in 1 .. Len(queue') : queue'[i].id = (logged' - Len(queue')) + i
    BY <1>t, <2>2, <2>3, <2>4 DEF QueueIsNext
  <2>6. at # "idle" => queue'[1] = queue[1]
    <3>1. queue # <<>> => Len(queue) # 0
      BY <1>t, EmptySeq
    <3> QED BY <1>t, <1>e, <2>4, <3>1
  <2>7. Tried' = Tried
    BY <1>t, <2>2, <2>4 DEF Tried, HeadTried
  <2> QED BY <1>t, <1>e, <2>2, <2>4, <2>5, <2>6, <2>7 DEF QueueIsNext
<1>2. CASE Logs!Consume
  <2>1. /\ queue # <<>> /\ queue' = [queue EXCEPT ![1].begun = now]
        /\ at = "idle" /\ ~HeadTried' /\ UNCHANGED <<now, logged>>
    BY <1>2 DEF Logs!Consume, HeadTried, Logs!history
  <2>2. Len(queue) > 0 /\ queue[1] \in Waiting
    BY <2>1, QueueFacts
  <2>3. [queue[1] EXCEPT !.begun = now] \in Waiting
    BY <2>2, <1>t DEF Waiting
  <2>4. queue' \in Seq(Waiting) /\ Len(queue') = Len(queue)
    BY <1>t, <2>1, <2>2, <2>3
  <2>5. queue'[1].begun = now /\ \A i \in 1 .. Len(queue) : queue'[i].id = queue[i].id
    BY <1>t, <2>1, <2>2 DEF Waiting
  <2>6. Tried' = Tried
    BY <1>t, <2>1, <2>4 DEF Tried, HeadTried
  <2> QED BY <1>t, <2>1, <2>4, <2>5, <2>6 DEF QueueIsNext
<1>3. ASSUME queue # <<>>, queue' = Tail(queue), UNCHANGED <<now, logged>>, at' = "idle"
      PROVE  QueueIsNext' /\ Tried <= Tried'
  <2>1. /\ Len(queue) > 0 /\ queue' \in Seq(Waiting) /\ Len(queue') = Len(queue) - 1
        /\ \A i \in 1 .. Len(queue) - 1 : queue'[i] = queue[i + 1]
    BY <1>3, QueueFacts
  <2>2. \A i \in 1 .. Len(queue') : queue'[i].id = (logged' - Len(queue')) + i
    BY <1>3, <1>t, <2>1 DEF QueueIsNext
  <2>3. Tried <= Tried'
    BY <1>3, <1>t, <2>1 DEF Tried, HeadTried
  <2> QED BY <1>3, <1>t, <2>1, <2>2, <2>3 DEF QueueIsNext
<1>4. ASSUME UNCHANGED <<queue, logged>>, now <= now', at' # "idle" => at # "idle",
             HeadTried => HeadTried'
      PROVE  QueueIsNext' /\ Tried <= Tried'
  <2>1. at' # "idle" => queue'[1].begun \in 1 .. now'
    BY <1>4, <1>e, <1>t DEF SinkTyped
  <2>2. Tried <= Tried'
    BY <1>4, <1>t DEF Tried
  <2> QED BY <1>4, <1>t, <2>1, <2>2 DEF QueueIsNext
<1>5. CASE Logs!Restart
  <2>1. queue' = <<>> /\ logged' = logged /\ at' = "idle"
    BY <1>5 DEF Logs!Restart
  <2>2. Len(queue') = 0 /\ queue' \in Seq(Waiting)
    BY <2>1
  <2> QED BY <1>t, <2>1, <2>2, TriedFacts DEF QueueIsNext, Tried, HeadTried
<1>6. CASE Logs!Tick \/ Logs!OpenFile \/ Logs!Write \/ Logs!WriteFails \/ Logs!RemoveSink
           \/ Logs!StopThread \/ Logs!ResetSink \/ Logs!Stopped \/ UNCHANGED Logs!vars
           \/ Logs!RotateFile("stale", "rotated") \/ Logs!RotateFile("full", "moved")
  <2>1. UNCHANGED <<queue, logged>>
    BY <1>6 DEF Logs!Tick, Logs!OpenFile, Logs!Write, Logs!WriteFails, Logs!RemoveSink,
                Logs!StopThread, Logs!ResetSink, Logs!Stopped, Logs!RotateFile,
                Logs!vars, Logs!process, Logs!backend, Logs!history
  <2>2. (at' # "idle" => at # "idle") /\ (HeadTried => HeadTried')
    BY <1>6 DEF HeadTried, Logs!Tick, Logs!OpenFile, Logs!Write, Logs!WriteFails,
                Logs!RemoveSink, Logs!StopThread, Logs!ResetSink, Logs!Stopped,
                Logs!RotateFile, Logs!vars, Logs!process, Logs!backend
  <2> QED BY <2>1, <2>2, <1>4, SinkStep
<1>7. CASE Logs!SetCurrent("rotated", "current") \/ Logs!SetCurrent("moved", "idle")
           \/ Logs!OpenFails \/ Logs!EndRecord
  <2>1. UNCHANGED <<now, logged>> /\ queue # <<>>
    BY <1>7, <1>e DEF Logs!SetCurrent, Logs!OpenFails, Logs!EndRecord, Logs!history
  <2>2. \/ queue' = Tail(queue) /\ at' = "idle"
        \/ queue' = queue /\ at # "idle" /\ (HeadTried => HeadTried')
    BY <1>7 DEF Logs!SetCurrent, Logs!OpenFails, Logs!EndRecord, HeadTried
  <2>3. CASE queue' = Tail(queue) /\ at' = "idle"
    BY <2>1, <2>3, <1>3
  <2>4. CASE queue' = queue /\ at # "idle" /\ (HeadTried => HeadTried')
    BY <2>1, <2>4, <1>4, SinkStep
  <2> QED BY <2>2, <2>3, <2>4
<1> QED BY <1>1, <1>2, <1>5, <1>6, <1>7 DEF Logs!Next
-----------------------------------------------------------------------------
(* What every step of a sink does: time and the numbers go on.             *)
Onward ==
  /\ kind' = kind /\ {now, logged, Tried, now', logged', Tried'} \subseteq Nat
  /\ now <= now' /\ logged <= logged' /\ Tried <= Tried'

(* A name that a file may have, it may have later.                         *)
LEMMA NamesStay ==
  ASSUME Onward
  PROVE  \A name : FileNamed(name) => FileNamed(name)'
<1>1. now \in Nat /\ now' \in Nat /\ now <= now' /\ logged \in Nat /\ logged' \in Nat
      /\ logged <= logged' /\ kind' = kind
  BY DEF Onward
<1>2. /\ Logs!Period(now)' = Logs!Period(now') /\ Logs!Period(now') \in Nat
      /\ Logs!Period(now) \in Nat /\ Logs!Period(now) <= Logs!Period(now')
  BY <1>1, BackendStays, PeriodIsMonotone
<1> SUFFICES ASSUME NEW name, FileNamed(name)
             PROVE  FileNamed(name)'
  OBVIOUS
<1> QED BY <1>1, <1>2 DEF FileNamed

(* What the invariant says of the names and the records of all files.      *)
LogFilesInv == FilesNamed /\ RecordsArePast /\ IdsInOrder /\ IndicesHaveNoGap

(* A step that leaves the files alone.                                     *)
LEMMA UntouchedFiles ==
  ASSUME LogFilesInv, Onward, log_files' = log_files
  PROVE  LogFilesInv'
<1> USE DEF LogFilesInv
<1>o. kind' = kind /\ now \in Nat /\ now' \in Nat /\ now <= now'
      /\ Tried \in Nat /\ Tried' \in Nat /\ Tried <= Tried'
  BY DEF Onward
<1>b. (Logs!Backup)' = Logs!Backup /\ (Logs!Hourly)' = Logs!Hourly
  BY <1>o, BackendStays
<1>l. LogNames' = LogNames /\ DatedNames' = DatedNames
  BY DEF LogNames, DatedNames, Logs!Active, Logs!Dated
<1>1. FilesNamed'
  <2>1. \A name \in DatedNames' : FileNamed(name)'
    BY <1>l, NamesStay DEF FilesNamed
  <2> QED BY <2>1, <1>b, <1>l DEF FilesNamed, Logs!Active, Logs!Dated
<1>2. RecordsArePast'
  <2> SUFFICES ASSUME NEW name \in LogNames, NEW i \in DOMAIN log_files[name]
               PROVE  LET record == log_files[name][i] IN
                      /\ record.id \in 1 .. Tried'
                      /\ record.begun \in 1 .. record.done /\ record.done <= now'
    BY <1>l DEF RecordsArePast
  <2> DEFINE record == log_files[name][i]
  <2>1. record \in OnFile
    BY ElementOfSeq, LenProperties DEF FilesNamed
  <2>2. record.done \in Nat /\ record.id \in Nat
    BY <2>1 DEF OnFile
  <2>3. record.id \in 1 .. Tried /\ record.begun \in 1 .. record.done /\ record.done <= now
    BY DEF RecordsArePast
  <2> HIDE DEF record
  <2>4. /\ record.id \in 1 .. Tried'
        /\ record.begun \in 1 .. record.done /\ record.done <= now'
    BY <2>2, <2>3, <1>o
  <2> QED BY <2>4 DEF record
<1>3. IdsInOrder'
  BY <1>l DEF IdsInOrder, Logs!Before, Logs!Active, Logs!Dated
<1>4. IndicesHaveNoGap'
  BY <1>l, <1>b DEF IndicesHaveNoGap, Behind, Logs!Dated
<1> QED BY <1>1, <1>2, <1>3, <1>4

(* A file that is opened is one of the files, or a new and empty one.      *)
Opened(name) ==
  /\ LogNames' = LogNames \union {name}
  /\ \A other \in LogNames : log_files'[other] = log_files[other]
  /\ name \notin LogNames => log_files'[name] = <<>>

(* Opening a file, an active one or the next dated one, keeps the facts about the files. *)
LEMMA OpenedFiles ==
  ASSUME LogFilesInv, Onward, Tried' = Tried, now' = now, NEW name, Opened(name),
         \/ name = Logs!Active /\ Logs!Backup
         \/ NameIsNext(name)
  PROVE  LogFilesInv'
<1> USE DEF LogFilesInv
<1>b. kind' = kind /\ (Logs!Backup)' = Logs!Backup /\ (Logs!Hourly)' = Logs!Hourly
  BY BackendStays DEF Onward
<1>a. (Logs!Active)' = Logs!Active
  BY DEF Logs!Active, Logs!Dated
<1>o. /\ LogNames' = LogNames \union {name}
      /\ \A other \in LogNames : log_files'[other] = log_files[other]
      /\ name \notin LogNames => log_files'[name] = <<>>
  BY DEF Opened
<1>e. DOMAIN <<>> = {}
  OBVIOUS
<1>n. name = Logs!Active \/ FileNamed(name)
  BY DEF NameIsNext
<1>1. FilesNamed'
  <2>1. \A other \in LogNames' : log_files'[other] \in Seq(OnFile)
    BY <1>o, EmptySeq DEF FilesNamed
  <2>2. \A other \in DatedNames' : FileNamed(other)'
    <3> SUFFICES ASSUME NEW other \in DatedNames'
                 PROVE  FileNamed(other)'
      OBVIOUS
    <3>1. other \in LogNames \union {name} /\ other # Logs!Active
      BY <1>o, <1>a DEF DatedNames
    <3>2. FileNamed(other)
      BY <3>1, <1>n DEF FilesNamed, DatedNames
    <3> QED BY <3>2, NamesStay
  <2>3. ~(Logs!Backup)' => (Logs!Active)' \notin LogNames'
    BY <1>b, <1>a, <1>o, SpecialNames DEF FilesNamed, NameIsNext
  <2> QED BY <2>1, <2>2, <2>3 DEF FilesNamed
<1>2. ASSUME NEW other \in LogNames', NEW i \in DOMAIN log_files'[other]
      PROVE  other \in LogNames /\ log_files'[other] = log_files[other]
             /\ i \in DOMAIN log_files[other]
  BY <1>2, <1>o, <1>e
<1>3. RecordsArePast'
  <2> SUFFICES ASSUME NEW other \in LogNames', NEW i \in DOMAIN log_files'[other]
               PROVE  LET record == log_files'[other][i] IN
                      /\ record.id \in 1 .. Tried'
                      /\ record.begun \in 1 .. record.done /\ record.done <= now'
    BY DEF RecordsArePast
  <2>1. other \in LogNames /\ log_files'[other] = log_files[other]
        /\ i \in DOMAIN log_files[other]
    BY <1>2
  <2> QED BY <2>1 DEF RecordsArePast
<1>4. IdsInOrder'
  <2> SUFFICES ASSUME NEW a \in LogNames', NEW b \in LogNames',
                      NEW i \in DOMAIN log_files'[a], NEW j \in DOMAIN log_files'[b],
                      (a = b /\ i < j) \/ Logs!Before(a, b)
               PROVE  log_files'[a][i].id < log_files'[b][j].id
    BY <1>a DEF IdsInOrder, Logs!Before
  <2>1. a \in LogNames /\ log_files'[a] = log_files[a] /\ i \in DOMAIN log_files[a]
    BY <1>2
  <2>2. b \in LogNames /\ log_files'[b] = log_files[b] /\ j \in DOMAIN log_files[b]
    BY <1>2
  <2> QED BY <2>1, <2>2 DEF IdsInOrder
<1>5. IndicesHaveNoGap'
  <2> SUFFICES ASSUME ~Logs!Hourly, NEW other \in LogNames', other # Logs!Active
               PROVE  /\ other.index # 0 =>
                           Behind(other) \in LogNames' /\ log_files'[Behind(other)] # <<>>
                      /\ \A i \in DOMAIN log_files'[other] :
                           other.index < log_files'[other][i].id
    BY <1>b, <1>a DEF IndicesHaveNoGap, DatedNames, Behind, Logs!Dated
  <2>1. CASE other \in LogNames
    <3>1. other \in DatedNames
      BY <2>1 DEF DatedNames
    <3>2. /\ other.index # 0 => Behind(other) \in LogNames /\ log_files[Behind(other)] # <<>>
          /\ \A i \in DOMAIN log_files[other] : other.index < log_files[other][i].id
      BY <3>1 DEF IndicesHaveNoGap
    <3> QED BY <2>1, <3>2, <1>o
  <2>2. CASE other \notin LogNames
    <3>1. other = name /\ log_files'[other] = <<>> /\ NameIsNext(name)
      BY <2>2, <1>o
    <3>2. other.index # 0 => Behind(other) \in LogNames /\ DOMAIN log_files[Behind(other)] # {}
      BY <3>1 DEF NameIsNext
    <3>3. other.index # 0 => Behind(other) \in LogNames /\ log_files[Behind(other)] # <<>>
      BY <3>2, <1>e
    <3> QED BY <3>1, <3>3, <1>o, <1>e
  <2> QED BY <2>1, <2>2
<1> QED BY <1>1, <1>3, <1>4, <1>5
(* The open file grows by a record whose number is the next.               *)
Appended(record) ==
  /\ file \in LogNames /\ LogNames' = LogNames
  /\ \A other \in LogNames : other # file => log_files'[other] = log_files[other]
  /\ log_files'[file] = Append(log_files[file], record)

(* The records of a file a record was appended to.                         *)
LEMMA AppendedRecords ==
  ASSUME FilesNamed, NEW record \in OnFile, Appended(record), NEW other \in LogNames',
         NEW i \in DOMAIN log_files'[other]
  PROVE  \/ /\ other \in LogNames /\ i \in DOMAIN log_files[other]
            /\ log_files'[other][i] = log_files[other][i]
         \/ /\ other = file /\ i = Len(log_files[file]) + 1
            /\ log_files'[other][i] = record
            /\ \A j \in DOMAIN log_files[file] : j < i
<1>1. other \in LogNames /\ log_files[other] \in Seq(OnFile)
  BY DEF Appended, FilesNamed
<1>2. CASE other # file
  BY <1>1, <1>2 DEF Appended
<1>3. CASE other = file
  <2>1. log_files'[file] = Append(log_files[file], record)
    BY DEF Appended
  <2>2. Len(log_files[file]) \in Nat /\ DOMAIN log_files[file] = 1 .. Len(log_files[file])
    BY <1>1, <1>3, LenProperties
  <2>3. /\ i \in 1 .. Len(log_files[file]) + 1
        /\ i \in 1 .. Len(log_files[file]) => log_files'[file][i] = log_files[file][i]
        /\ log_files'[file][Len(log_files[file]) + 1] = record
    BY <1>1, <1>3, <2>1, AppendProperties
  <2> QED BY <1>1, <1>3, <2>2, <2>3
<1> QED BY <1>2, <1>3

(* Writing the next record at the end of the open file keeps the facts about the files. *)
LEMMA AppendedFiles ==
  ASSUME LogFilesInv, OpenFileIsLast, FileIsThere, Onward, now' = now, file # Logs!Closed,
         NEW record \in OnFile, Appended(record),
         record.id = Tried + 1, Tried' = Tried + 1,
         record.begun \in 1 .. record.done, record.done <= now
  PROVE  LogFilesInv'
<1> USE DEF LogFilesInv
<1>b. kind' = kind /\ (Logs!Backup)' = Logs!Backup /\ (Logs!Hourly)' = Logs!Hourly
  BY BackendStays DEF Onward
<1>a. (Logs!Active)' = Logs!Active
  BY DEF Logs!Active, Logs!Dated
<1>l. LogNames' = LogNames /\ file \in LogNames
  BY DEF Appended
<1>t. Tried \in Nat
  BY DEF Onward
<1>1. FilesNamed'
  <2>1. \A other \in LogNames' : log_files'[other] \in Seq(OnFile)
    <3> SUFFICES ASSUME NEW other \in LogNames'
                 PROVE  log_files'[other] \in Seq(OnFile)
      OBVIOUS
    <3>1. CASE other = file
      <4>1. log_files[file] \in Seq(OnFile) /\ log_files'[file] = Append(log_files[file], record)
        BY <1>l DEF Appended, FilesNamed
      <4>2. Append(log_files[file], record) \in Seq(OnFile)
        BY <4>1, AppendProperties
      <4> QED BY <3>1, <4>1, <4>2
    <3>2. CASE other # file
      BY <3>2, <1>l DEF Appended, FilesNamed
    <3> QED BY <3>1, <3>2
  <2>2. \A other \in DatedNames' : FileNamed(other)'
    BY <1>l, <1>a, NamesStay DEF FilesNamed, DatedNames
  <2> QED BY <2>1, <2>2, <1>a, <1>b, <1>l DEF FilesNamed
<1>2. RecordsArePast'
  <2> SUFFICES ASSUME NEW other \in LogNames', NEW i \in DOMAIN log_files'[other]
               PROVE  LET r == log_files'[other][i] IN
                      /\ r.id \in 1 .. Tried'
                      /\ r.begun \in 1 .. r.done /\ r.done <= now'
    BY DEF RecordsArePast
  <2>1. CASE other \in LogNames /\ i \in DOMAIN log_files[other]
             /\ log_files'[other][i] = log_files[other][i]
    <3>1. log_files[other][i].id \in 1 .. Tried
          /\ log_files[other][i].begun \in 1 .. log_files[other][i].done
          /\ log_files[other][i].done <= now
      BY <2>1 DEF RecordsArePast
    <3>2. log_files[other][i].id \in 1 .. Tried'
      BY <3>1, <1>t
    <3> QED BY <2>1, <3>1, <3>2
  <2>2. CASE log_files'[other][i] = record
    <3>1. record.id \in 1 .. Tried'
      BY <1>t
    <3> QED BY <2>2, <3>1
  <2> QED BY <2>1, <2>2, AppendedRecords
<1>3. IdsInOrder'
  <2> SUFFICES ASSUME NEW a \in LogNames', NEW b \in LogNames',
                      NEW i \in DOMAIN log_files'[a], NEW j \in DOMAIN log_files'[b],
                      (a = b /\ i < j) \/ Logs!Before(a, b)
               PROVE  log_files'[a][i].id < log_files'[b][j].id
    BY <1>a DEF IdsInOrder, Logs!Before
  <2>1. CASE /\ a \in LogNames /\ i \in DOMAIN log_files[a]
             /\ log_files'[a][i] = log_files[a][i]
    <3>1. CASE /\ b \in LogNames /\ j \in DOMAIN log_files[b]
               /\ log_files'[b][j] = log_files[b][j]
      BY <2>1, <3>1 DEF IdsInOrder
    <3>2. CASE log_files'[b][j] = record
      <4>1. log_files[a][i].id \in 1 .. Tried
        BY <2>1 DEF RecordsArePast
      <4> QED BY <2>1, <3>2, <4>1, <1>t
    <3> QED BY <3>1, <3>2, AppendedRecords
  <2>2. CASE /\ a = file /\ i = Len(log_files[file]) + 1
             /\ \A k \in DOMAIN log_files[file] : k < i
    <3>1. ~Logs!Before(a, b)
      BY <2>2, <1>l DEF OpenFileIsLast
    <3>2. a = b /\ i < j
      BY <3>1
    <3>3. CASE j \in DOMAIN log_files[b]
      <4>1. j < i /\ i \in Int /\ j \in Int
        <5>1. log_files[file] \in Seq(OnFile)
          BY <1>l DEF FilesNamed
        <5> QED BY <2>2, <3>2, <3>3, <5>1, LenProperties
      <4> QED BY <4>1, <3>2
    <3>4. CASE j = Len(log_files[file]) + 1
      <4>1. Len(log_files[file]) \in Nat
        BY <1>l, LenProperties DEF FilesNamed
      <4>2. i = j
        BY <2>2, <3>4
      <4>3. ~(i < j)
        BY <3>4, <4>1, <4>2
      <4> QED BY <3>2, <4>3
    <3> QED BY <3>3, <3>4, AppendedRecords
  <2> QED BY <2>1, <2>2, AppendedRecords
<1>4. IndicesHaveNoGap'
  <2> SUFFICES ASSUME ~Logs!Hourly, NEW other \in LogNames', other # Logs!Active
               PROVE  /\ other.index # 0 =>
                           Behind(other) \in LogNames' /\ log_files'[Behind(other)] # <<>>
                      /\ \A i \in DOMAIN log_files'[other] :
                           other.index < log_files'[other][i].id
    BY <1>b, <1>a DEF IndicesHaveNoGap, DatedNames, Behind, Logs!Dated
  <2>1. other \in DatedNames
    BY <1>l DEF DatedNames
  <2>2. /\ other.index # 0 => Behind(other) \in LogNames /\ log_files[Behind(other)] # <<>>
        /\ \A i \in DOMAIN log_files[other] : other.index < log_files[other][i].id
    BY <2>1 DEF IndicesHaveNoGap
  <2>3. other.index # 0 => log_files'[Behind(other)] # <<>>
    <3> SUFFICES ASSUME other.index # 0
                 PROVE  log_files'[Behind(other)] # <<>>
      OBVIOUS
    <3>1. CASE Behind(other) = file
      <4>1. Append(log_files[file], record) # <<>>
        BY <1>l, AppendProperties DEF FilesNamed
      <4> QED BY <4>1, <3>1 DEF Appended
    <3>2. CASE Behind(other) # file
      BY <2>2, <3>2 DEF Appended
    <3> QED BY <3>1, <3>2
  <2>4. ASSUME NEW i \in DOMAIN log_files'[other]
        PROVE  other.index < log_files'[other][i].id
    <3>1. CASE i \in DOMAIN log_files[other] /\ log_files'[other][i] = log_files[other][i]
      BY <3>1, <2>2
    <3>2. CASE other = file /\ log_files'[other][i] = record
      <4>1. other.index \in Nat
        BY <2>1 DEF FilesNamed, FileNamed
      <4>2. CASE other.index = 0
        BY <3>2, <4>2, <1>t
      <4>3. CASE other.index # 0
        <5>1. Behind(other) \in DatedNames
          <6>1. Behind(other).period = other.period /\ Logs!Active.period = -1
            BY DEF Behind, Logs!Dated, Logs!Active
          <6>2. other.period >= 0
            BY <2>1 DEF FilesNamed, FileNamed
          <6> QED BY <2>2, <4>3, <6>1, <6>2 DEF DatedNames
        <5>2. 1 \in DOMAIN log_files[Behind(other)]
          BY <5>1, <2>2, <4>3, EmptySeq, LenProperties DEF FilesNamed, DatedNames
        <5>3. Behind(other).index < log_files[Behind(other)][1].id
              /\ log_files[Behind(other)][1].id \in 1 .. Tried
          BY <5>1, <5>2 DEF IndicesHaveNoGap, RecordsArePast, DatedNames
        <5>4. Behind(other).index = other.index - 1
          BY DEF Behind, Logs!Dated
        <5> QED BY <3>2, <4>1, <5>3, <5>4, <1>t
      <4> QED BY <4>2, <4>3
    <3> QED BY <3>1, <3>2, AppendedRecords
  <2> QED BY <1>l, <2>2, <2>3, <2>4
<1> QED BY <1>1, <1>2, <1>3, <1>4
(* No file is behind a name that is next, but the active one.              *)
LEMMA NextNameIsLast ==
  ASSUME SinkTyped, FilesNamed, NEW name, NameIsNext(name)
  PROVE  ~Logs!Before(name, name) /\ \A other \in DatedNames : ~Logs!Before(name, other)
<1>n. FileNamed(name) /\ name # Logs!Active
  BY SpecialNames DEF NameIsNext
<1>p. name.period \in Nat /\ name.index \in Nat
  BY <1>n, PeriodIsMonotone DEF FileNamed, SinkTyped
<1>x. ~Logs!Before(name, name)
  BY <1>n, <1>p DEF Logs!Before
<1>f. \A other \in DatedNames : ~Logs!Before(name, other)
  <2> SUFFICES ASSUME NEW other \in DatedNames, Logs!Before(name, other)
               PROVE  FALSE
    OBVIOUS
  <2>1. Logs!Before(other, name)
    BY <1>x DEF NameIsNext
  <2>2. other.period \in Nat /\ other.index \in Nat
    BY DatedFacts
  <2>3. other # Logs!Active
    BY DEF DatedNames
  <2> QED BY <2>1, <2>2, <2>3, <1>n, <1>p DEF Logs!Before
<1> QED BY <1>x, <1>f

(* rollover_without_max: the active file takes a dated name.               *)
Renamed(name) ==
  /\ Logs!Active \in LogNames
  /\ LogNames' = (LogNames \ {Logs!Active}) \union {name}
  /\ log_files'[name] = log_files[Logs!Active]
  /\ \A other \in LogNames' : other # name => log_files'[other] = log_files[other]

(* Renaming the active file to the next dated name keeps the facts about the files. *)
LEMMA RenamedFiles ==
  ASSUME SinkTyped, LogFilesInv, Onward, Tried' = Tried, now' = now, Logs!Backup,
         NEW name, Renamed(name), NameIsNext(name)
  PROVE  LogFilesInv'
<1> USE DEF LogFilesInv
<1>b. kind' = kind /\ (Logs!Backup)' = Logs!Backup /\ (Logs!Hourly)' = Logs!Hourly
  BY BackendStays DEF Onward
<1>a. (Logs!Active)' = Logs!Active
  BY DEF Logs!Active, Logs!Dated
<1>n. FileNamed(name) /\ name # Logs!Active
  BY SpecialNames DEF NameIsNext
<1>d. \A other \in LogNames' : other # name =>
        other \in DatedNames /\ other \in LogNames /\ log_files'[other] = log_files[other]
  BY DEF Renamed, DatedNames
<1>w. \A other \in DatedNames : other = name \/ Logs!Before(other, name)
  BY DEF NameIsNext
<1>t. Tried \in Nat
  BY DEF Onward
<1>p. name.period \in Nat /\ name.index \in Nat
  BY <1>n, PeriodIsMonotone DEF FileNamed, SinkTyped
<1>f. ~Logs!Before(name, name) /\ \A other \in DatedNames : ~Logs!Before(name, other)
  BY NextNameIsLast
<1>c. Logs!Active \in LogNames /\ log_files'[name] = log_files[Logs!Active]
  BY DEF Renamed
<1>1. FilesNamed'
  <2>1. \A other \in LogNames' : log_files'[other] \in Seq(OnFile)
    BY <1>c, <1>d DEF FilesNamed
  <2>2. \A other \in LogNames' : FileNamed(other)'
    <3> SUFFICES ASSUME NEW other \in LogNames'
                 PROVE  FileNamed(other)'
      OBVIOUS
    <3>1. FileNamed(other)
      BY <1>d, <1>n DEF FilesNamed
    <3> QED BY <3>1, NamesStay
  <2> QED BY <2>1, <2>2, <1>b DEF FilesNamed, DatedNames
<1>2. RecordsArePast'
  <2> SUFFICES ASSUME NEW other \in LogNames', NEW i \in DOMAIN log_files'[other]
               PROVE  LET record == log_files'[other][i] IN
                      /\ record.id \in 1 .. Tried'
                      /\ record.begun \in 1 .. record.done /\ record.done <= now'
    BY DEF RecordsArePast
  <2>1. CASE other = name
    BY <2>1, <1>c DEF RecordsArePast
  <2>2. CASE other # name
    BY <2>2, <1>d DEF RecordsArePast
  <2> QED BY <2>1, <2>2
<1>3. IdsInOrder'
  <2> SUFFICES ASSUME NEW a \in LogNames', NEW b \in LogNames',
                      NEW i \in DOMAIN log_files'[a], NEW j \in DOMAIN log_files'[b],
                      (a = b /\ i < j) \/ Logs!Before(a, b)
               PROVE  log_files'[a][i].id < log_files'[b][j].id
    BY <1>a DEF IdsInOrder, Logs!Before
  <2>1. CASE a = name /\ b = name
    <3>1. i < j
      BY <2>1, <1>f
    <3>2. i \in DOMAIN log_files[Logs!Active] /\ j \in DOMAIN log_files[Logs!Active]
      BY <2>1, <1>c
    <3>3. log_files[Logs!Active][i].id < log_files[Logs!Active][j].id
      BY <3>1, <3>2, <1>c DEF IdsInOrder
    <3> QED BY <2>1, <3>3, <1>c
  <2>2. CASE a = name /\ b # name
    BY <2>2, <1>d, <1>f
  <2>3. CASE a # name /\ b = name
    <3>1. a \in LogNames /\ i \in DOMAIN log_files[a] /\ log_files'[a] = log_files[a]
          /\ Logs!Before(a, Logs!Active)
      BY <2>3, <1>d DEF DatedNames, Logs!Before
    <3>2. j \in DOMAIN log_files[Logs!Active]
      BY <2>3, <1>c
    <3>3. log_files[a][i].id < log_files[Logs!Active][j].id
      BY <3>1, <3>2, <1>c DEF IdsInOrder
    <3> QED BY <2>3, <3>1, <3>3, <1>c
  <2>4. CASE a # name /\ b # name
    BY <2>4, <1>d DEF IdsInOrder
  <2> QED BY <2>1, <2>2, <2>3, <2>4
<1>4. IndicesHaveNoGap'
  <2> SUFFICES ASSUME ~Logs!Hourly, NEW other \in LogNames'
               PROVE  /\ other.index # 0 =>
                           Behind(other) \in LogNames' /\ log_files'[Behind(other)] # <<>>
                      /\ \A i \in DOMAIN log_files'[other] :
                           other.index < log_files'[other][i].id
    BY <1>b, <1>a DEF IndicesHaveNoGap, DatedNames, Behind, Logs!Dated
  <2>1. FileNamed(other) /\ other.index \in Nat /\ other.period \in Nat
    BY <1>n, <1>d, <1>p, DatedFacts DEF FilesNamed
  <2>2. Behind(other).period = other.period /\ Behind(other).index = other.index - 1
    BY DEF Behind, Logs!Dated
  <2>3. Behind(other) # Logs!Active
    <3>1. Logs!Active.period = -1
      BY DEF Logs!Active, Logs!Dated
    <3> QED BY <3>1, <2>1, <2>2
  <2>4. CASE other = name
    <3>1. name.index # 0 =>
            /\ Behind(name) \in LogNames
            /\ \E i \in DOMAIN log_files[Behind(name)] :
                 name.index <= log_files[Behind(name)][i].id
      BY DEF NameIsNext
    <3>2. name.index # 0 => Behind(name) \in DatedNames /\ Behind(name) # name
      BY <3>1, <2>1, <2>2, <2>3, <2>4 DEF DatedNames
    <3>3. name.index # 0 => Behind(name) \in LogNames' /\ log_files'[Behind(name)] = log_files[Behind(name)]
      BY <3>2, <1>d DEF Renamed, DatedNames
    <3>4. name.index # 0 => log_files[Behind(name)] # <<>>
      <4>1. DOMAIN <<>> = {}
        OBVIOUS
      <4> QED BY <3>1, <4>1
    <3>5. ASSUME NEW i \in DOMAIN log_files'[name]
          PROVE  name.index < log_files'[name][i].id
      <4>1. i \in DOMAIN log_files[Logs!Active] /\ log_files'[name][i] = log_files[Logs!Active][i]
        BY <1>c
      <4>2. log_files[Logs!Active][i].id \in 1 .. Tried
        BY <4>1, <1>c DEF RecordsArePast
      <4>3. CASE name.index = 0
        BY <4>1, <4>2, <4>3, <1>t
      <4>4. CASE name.index # 0
        <5>1. PICK k \in DOMAIN log_files[Behind(name)] :
                name.index <= log_files[Behind(name)][k].id
          BY <4>4, <3>1
        <5>2. Logs!Before(Behind(name), Logs!Active)
          BY <4>4, <3>2 DEF Logs!Before, DatedNames
        <5>3. Behind(name) \in LogNames
          BY <4>4, <3>1
        <5>4. log_files[Behind(name)][k].id < log_files[Logs!Active][i].id
          BY <5>2, <5>3, <4>1, <1>c DEF IdsInOrder
        <5>5. log_files[Behind(name)][k].id \in 1 .. Tried
          BY <5>3 DEF RecordsArePast
        <5> QED BY <4>1, <4>2, <5>1, <5>4, <5>5, <1>p, <1>t
      <4> QED BY <4>3, <4>4
    <3> QED BY <2>4, <3>3, <3>4, <3>5
  <2>5. CASE other # name
    <3>1. other \in DatedNames /\ log_files'[other] = log_files[other]
      BY <2>5, <1>d
    <3>2. /\ other.index # 0 => Behind(other) \in LogNames /\ log_files[Behind(other)] # <<>>
          /\ \A i \in DOMAIN log_files[other] : other.index < log_files[other][i].id
      BY <3>1 DEF IndicesHaveNoGap
    <3>3. other.index # 0 => Behind(other) # name
      <4>1. Logs!Before(other, name)
        BY <2>5, <3>1, <1>w
      <4>2. other.period < name.period \/ other.index < name.index
        BY <4>1, <1>n DEF Logs!Before
      <4>3. other.period = name.period => other.index < name.index
        BY <4>1, <1>n, <1>p, <2>1 DEF Logs!Before
      <4> QED BY <4>2, <4>3, <2>1, <2>2, <1>p
    <3>4. other.index # 0 => Behind(other) \in LogNames' /\ log_files'[Behind(other)] = log_files[Behind(other)]
      BY <3>2, <3>3, <2>3, <1>d DEF Renamed
    <3> QED BY <3>1, <3>2, <3>4
  <2> QED BY <2>4, <2>5
<1> QED BY <1>1, <1>2, <1>3, <1>4
-----------------------------------------------------------------------------
(* The file a rotation, an open or a write finds, and what it leaves.      *)
LogNow == SinkTyped /\ QueueIsNext /\ LogFilesInv /\ FileIsThere /\ HoursAreNew

Rotates == Logs!RotateFile("stale", "rotated") \/ Logs!RotateFile("full", "moved")

(* A rotation renames the active file to the next dated name, or, in the kinds without one,
   touches no file. *)
LEMMA RotationEffect ==
  ASSUME LogNow, Rotates
  PROVE  /\ NameIsNext(Logs!generate_filepath)
         /\ IF Logs!Backup /\ Logs!Active \in LogNames
            THEN Renamed(Logs!generate_filepath)
            ELSE log_files' = log_files
<1> DEFINE name == Logs!generate_filepath
<1>1. NameIsNext(name)
  <2>1. at \in {"stale", "full"}
    BY DEF Rotates, Logs!RotateFile
  <2>2. kind = "hour_backup" => current < now
    BY <2>1 DEF LogNow, SinkTyped
  <2> QED BY <2>1, <2>2, GeneratedNameIsNext DEF LogNow, LogFilesInv
<1>2. IF Logs!Backup THEN Logs!rollover_without_max ELSE log_files' = log_files
  BY DEF Rotates, Logs!RotateFile
<1>3. CASE Logs!Backup /\ Logs!Active \in LogNames
  <2>0. name # Logs!Active
    BY <1>1, SpecialNames DEF NameIsNext
  <2> HIDE DEF name
  <2>1. log_files' = [other \in (LogNames \ {Logs!Active}) \union {name} |->
                        IF other = name THEN log_files[Logs!Active] ELSE log_files[other]]
    BY <1>2, <1>3 DEF Logs!rollover_without_max, Logs!Files, LogNames, name
  <2>2. Renamed(name)
    BY <2>0, <2>1, <1>3 DEF Renamed, LogNames
  <2> QED BY <1>1, <1>3, <2>2 DEF name
<1>4. CASE ~(Logs!Backup /\ Logs!Active \in LogNames)
  BY <1>1, <1>2, <1>4 DEF Logs!rollover_without_max, Logs!Files, LogNames
<1> QED BY <1>3, <1>4

(* consume opens the active file or, in the kinds without one, the next dated name. *)
LEMMA OpenEffect ==
  ASSUME LogNow, Logs!OpenFile, file = Logs!Closed
  PROVE  /\ Opened(Logs!OpenName)
         /\ \/ Logs!OpenName = Logs!Active /\ Logs!Backup
            \/ NameIsNext(Logs!OpenName) /\ ~Logs!Backup
                 /\ Logs!OpenName = Logs!generate_filepath
<1>1. log_files' = [name \in LogNames \union {Logs!OpenName} |-> Logs!Records(name)]
  BY DEF Logs!OpenFile, Logs!Files, LogNames
<1>2. Opened(Logs!OpenName)
  BY <1>1 DEF Opened, Logs!Records, Logs!Files, LogNames
<1>3. CASE Logs!Backup
  BY <1>2, <1>3 DEF Logs!OpenName
<1>4. CASE ~Logs!Backup
  <2>1. kind # "hour_backup"
    BY <1>4 DEF Logs!Backup
  <2>2. NameIsNext(Logs!generate_filepath)
    BY <2>1, GeneratedNameIsNext DEF LogNow, LogFilesInv
  <2> QED BY <1>2, <1>4, <2>2 DEF Logs!OpenName
<1> QED BY <1>3, <1>4

(* The record that a write puts behind the open file.                      *)
LEMMA WriteEffect ==
  ASSUME LogNow, at = "open"
  PROVE  LET record == Logs!RecordOnDisk IN
         /\ record \in OnFile /\ record.id = Tried + 1 /\ record.done = now
         /\ record.begun = queue[1].begun /\ record.begun \in 1 .. now
         /\ record.size = Head(queue).size /\ record.size \in Sizes
         /\ record.end = Logs!Length(log_files[file]) + Head(queue).size
         /\ file \in LogNames /\ file # Logs!Closed
         /\ (Logs!Write /\ good => Appended(record))
<1> USE DEF LogNow, LogFilesInv
<1> DEFINE record == Logs!RecordOnDisk
<1>1. file \in LogNames /\ file # Logs!Closed
  BY DEF FileIsThere
<1>2. /\ Head(queue) = queue[1] /\ queue[1] \in Waiting
      /\ queue[1].id = (logged - Len(queue)) + 1
  BY QueueFacts DEF SinkTyped
<1>3. queue[1].begun \in 1 .. now /\ now \in Nat
  BY DEF QueueIsNext, SinkTyped
<1>4. log_files[file] \in Seq(OnFile) /\ Logs!Records(file) = log_files[file]
  BY <1>1 DEF FilesNamed, Logs!Records, Logs!Files, LogNames
<1>5. Logs!Length(log_files[file]) \in Nat
  BY <1>4, LengthFacts
<1>6. Tried + 1 = (logged - Len(queue)) + 1
  BY TriedFacts DEF Tried, HeadTried
<1>7. /\ record.id = queue[1].id /\ record.size = queue[1].size
      /\ record.begun = queue[1].begun /\ record.done = now
      /\ record.end = Logs!Length(log_files[file]) + queue[1].size
  BY <1>2, <1>4 DEF Logs!RecordOnDisk
<1>8. queue[1].id \in Nat /\ queue[1].size \in Sizes /\ queue[1].begun \in Nat
      /\ queue[1].size \in Nat
  BY <1>2, SizesAreLengths DEF Waiting
<1>9. record \in OnFile
  <2>1. Logs!Length(log_files[file]) + queue[1].size \in Nat
    BY <1>5, <1>8
  <2> QED BY <1>2, <1>3, <1>4, <1>8, <2>1 DEF Logs!RecordOnDisk, OnFile
<1>10. Logs!Write /\ good => Appended(record)
  <2> SUFFICES ASSUME Logs!Write, good
               PROVE  Appended(record)
    OBVIOUS
  <2>1. log_files' = [log_files EXCEPT ![file] = Append(@, record)]
    BY DEF Logs!Write
  <2> HIDE DEF record
  <2> QED BY <1>1, <2>1 DEF Appended, LogNames
<1> HIDE DEF record
<1> QED BY <1>1, <1>2, <1>3, <1>6, <1>7, <1>8, <1>9, <1>10 DEF record

(* Every step goes on, and keeps what is said of the files.                *)
LEMMA FilesStep ==
  ASSUME LogNow, OpenFileIsLast, [Logs!Next]_Logs!vars
  PROVE  LogFilesInv' /\ Onward
<1>o. Onward /\ kind' = kind
  <2>1. logged \in Nat /\ now \in Nat /\ logged' \in Nat /\ now' \in Nat
        /\ kind' = kind /\ now <= now' /\ logged <= logged'
    <3>1. SinkTyped' /\ kind' = kind /\ now <= now' /\ logged <= logged'
      BY SinkStep DEF LogNow, LogFilesInv
    <3> QED BY <3>1, LogAssumption DEF SinkTyped, LogNow
  <2>2. Tried \in Nat /\ Tried' \in Nat /\ Tried <= Tried'
    BY QueueStep, TriedFacts DEF LogNow, LogFilesInv
  <2> QED BY <2>1, <2>2 DEF Onward
<1>q. Len(queue) \in Nat /\ logged \in Nat
  BY TriedFacts DEF LogNow
<1>1. CASE log_files' = log_files
  BY <1>1, <1>o, UntouchedFiles DEF LogNow
<1>2. CASE Rotates
  <2>1. now' = now /\ Tried' = Tried
    BY <1>2 DEF Rotates, Logs!RotateFile, Logs!history, Tried, HeadTried
  <2>2. CASE Logs!Backup /\ Logs!Active \in LogNames
    <3>1. Renamed(Logs!generate_filepath) /\ NameIsNext(Logs!generate_filepath)
      BY <1>2, <2>2, RotationEffect
    <3> QED BY <1>o, <2>1, <2>2, <3>1, RenamedFiles DEF LogNow
  <2>3. CASE ~(Logs!Backup /\ Logs!Active \in LogNames)
    BY <1>2, <2>3, <1>1, RotationEffect
  <2> QED BY <2>2, <2>3
<1>3. CASE Logs!OpenFile
  <2>1. now' = now /\ Tried' = Tried
    BY <1>3 DEF Logs!OpenFile, Logs!history, Tried, HeadTried
  <2>2. CASE file = Logs!Closed
    <3>1. Opened(Logs!OpenName) /\ (\/ Logs!OpenName = Logs!Active /\ Logs!Backup
                                    \/ NameIsNext(Logs!OpenName))
      BY <1>3, <2>2, OpenEffect
    <3> QED BY <1>o, <2>1, <3>1, OpenedFiles DEF LogNow
  <2>3. CASE file # Logs!Closed
    BY <1>3, <2>3, <1>1 DEF Logs!OpenFile
  <2> QED BY <2>2, <2>3
<1>4. CASE Logs!Write
  <2>1. at = "open" /\ at' = "written" /\ UNCHANGED <<now, queue, logged>>
    BY <1>4 DEF Logs!Write
  <2>2. CASE good
    <3> DEFINE record == Logs!RecordOnDisk
    <3>1. Tried' = Tried + 1
      BY <1>q, <2>1 DEF Tried, HeadTried
    <3>2. /\ record \in OnFile /\ record.id = Tried + 1
          /\ record.begun \in 1 .. record.done /\ record.done <= now
          /\ Appended(record) /\ file # Logs!Closed
      <4>1. now \in Nat
        BY DEF LogNow, SinkTyped
      <4>2. /\ record \in OnFile /\ record.id = Tried + 1 /\ record.done = now
            /\ record.begun \in 1 .. now /\ Appended(record) /\ file # Logs!Closed
        BY <1>4, <2>1, <2>2, WriteEffect
      <4> HIDE DEF record
      <4> QED BY <4>1, <4>2
    <3> HIDE DEF record
    <3> QED BY <1>o, <2>1, <3>1, <3>2, AppendedFiles DEF LogNow
  <2>3. CASE ~good
    BY <1>4, <2>3, <1>1 DEF Logs!Write
  <2> QED BY <2>2, <2>3
<1>5. CASE ~(Rotates \/ Logs!OpenFile \/ Logs!Write)
  <2>1. log_files' = log_files
    BY <1>5 DEF Rotates, Logs!Next, Logs!vars, Logs!Tick, Logs!Log, Logs!Consume,
                Logs!SetCurrent, Logs!OpenFails, Logs!WriteFails, Logs!EndRecord,
                Logs!RemoveSink, Logs!StopThread, Logs!ResetSink, Logs!Restart,
                Logs!Stopped
  <2> QED BY <2>1, <1>1
<1> QED BY <1>2, <1>3, <1>4, <1>5, <1>o
-----------------------------------------------------------------------------
(* The steps of a sink that neither open nor rotate nor write a file.      *)
LEMMA OtherSteps ==
  ASSUME [Logs!Next]_Logs!vars, ~Rotates, ~Logs!OpenFile
  PROVE  /\ LogNames' = LogNames
         /\ \/ file' = file
            \/ file' = Logs!Closed /\ at' = "idle"
         /\ at' \in {"open", "written"} => at \in {"open", "written"}
         /\ at' \in {"rotated", "moved"} => at = at'
         /\ at \in {"rotated", "moved"} /\ at' # at => current' = Logs!Period(now)
<1>1. CASE Logs!Write
  <2>1. LogNames' = LogNames
    BY <1>1 DEF Logs!Write, LogNames
  <2> QED BY <1>1, <2>1 DEF Logs!Write
<1>2. CASE Logs!Restart \/ Logs!ResetSink
  BY <1>2 DEF Logs!Restart, Logs!ResetSink, LogNames
<1>3. CASE Logs!SetCurrent("rotated", "current") \/ Logs!SetCurrent("moved", "idle")
  BY <1>3 DEF Logs!SetCurrent, LogNames
<1>4. CASE Logs!Tick \/ (\E size \in Sizes : Logs!Log(size)) \/ Logs!RemoveSink
           \/ Logs!StopThread \/ Logs!Stopped \/ UNCHANGED Logs!vars
  <2>1. UNCHANGED <<file, log_files, at>>
    BY <1>4 DEF Logs!Tick, Logs!Log, Logs!RemoveSink, Logs!StopThread, Logs!Stopped,
                Logs!vars, Logs!process, Logs!backend
  <2> QED BY <2>1 DEF LogNames
<1>5. CASE Logs!Consume \/ Logs!OpenFails \/ Logs!WriteFails \/ Logs!EndRecord
  BY <1>5 DEF Logs!Consume, Logs!OpenFails, Logs!WriteFails, Logs!EndRecord, LogNames
<1> QED BY <1>1, <1>2, <1>3, <1>4, <1>5 DEF Logs!Next, Rotates

(* The open file is one of the files, the active one of a backup's sink,   *)
(* and the last of all.                                                    *)
LEMMA OpenFileStep ==
  ASSUME LogNow, OpenFileIsLast, [Logs!Next]_Logs!vars
  PROVE  FileIsThere' /\ OpenFileIsLast'
<1> USE DEF LogNow, LogFilesInv
<1>b. (Logs!Backup)' = Logs!Backup /\ kind' = kind
  BY SinkStep, BackendStays
<1>a. (Logs!Active)' = Logs!Active /\ (Logs!Closed)' = Logs!Closed
  BY DEF Logs!Active, Logs!Closed, Logs!Dated
<1>B. \A a, b : Logs!Before(a, b)' = Logs!Before(a, b)
  BY <1>a DEF Logs!Before
<1>1. CASE Rotates
  <2>1. file' = Logs!Closed /\ at' \in {"rotated", "moved"}
    BY <1>1 DEF Rotates, Logs!RotateFile
  <2> QED BY <2>1, <1>a DEF FileIsThere, OpenFileIsLast
<1>2. CASE Logs!OpenFile /\ file = Logs!Closed
  <2> DEFINE name == Logs!OpenName
  <2>1. file' = name /\ at' = "open" /\ LogNames' = LogNames \union {name}
    BY <1>2, OpenEffect DEF Logs!OpenFile, Opened
  <2>2. \/ name = Logs!Active /\ Logs!Backup
        \/ NameIsNext(name) /\ ~Logs!Backup
    BY <1>2, OpenEffect
  <2> HIDE DEF name
  <2>3. name # Logs!Closed
    BY <2>2, SpecialNames DEF NameIsNext
  <2>4. FileIsThere'
    BY <2>1, <2>2, <2>3, <1>a, <1>b DEF FileIsThere
  <2>5. ASSUME NEW other \in LogNames'
        PROVE  ~Logs!Before(name, other)
    <3>1. CASE name = Logs!Active
      BY <3>1 DEF Logs!Before
    <3>2. CASE NameIsNext(name) /\ ~Logs!Backup
      <4>1. other = name \/ other \in DatedNames
        BY <2>1, <3>2 DEF FilesNamed, DatedNames
      <4> QED BY <3>2, <4>1, NextNameIsLast
    <3> QED BY <2>2, <3>1, <3>2
  <2> QED BY <2>1, <2>4, <2>5, <1>B DEF OpenFileIsLast
<1>3. CASE Logs!OpenFile /\ file # Logs!Closed
  <2>1. file' = file /\ at' = "open" /\ LogNames' = LogNames
    BY <1>3 DEF Logs!OpenFile, LogNames
  <2> QED BY <1>3, <2>1, <1>a, <1>b, <1>B DEF FileIsThere, OpenFileIsLast
<1>4. CASE ~Rotates /\ ~Logs!OpenFile
  <2>1. /\ LogNames' = LogNames
        /\ \/ file' = file
           \/ file' = Logs!Closed /\ at' = "idle"
        /\ at' \in {"open", "written"} => at \in {"open", "written"}
        /\ at' \in {"rotated", "moved"} => at = at'
    BY <1>4, OtherSteps
  <2> QED BY <2>1, <1>a, <1>b, <1>B DEF FileIsThere, OpenFileIsLast
<1> QED BY <1>1, <1>2, <1>3, <1>4

(* The files by the hour stay without numbers, and the backups among them  *)
(* before the current hour.                                                *)
LEMMA HoursStep ==
  ASSUME LogNow, [Logs!Next]_Logs!vars
  PROVE  HoursAreNew'
<1> USE DEF LogNow, LogFilesInv
<1>k. kind' = kind /\ now \in Nat /\ now <= now' /\ now' \in Nat /\ current \in Nat
      /\ current' \in Nat /\ current <= current'
  BY SinkStep, LogAssumption DEF SinkTyped
<1>b. (Logs!Hourly)' = Logs!Hourly
  BY <1>k, BackendStays
<1>a. (Logs!Active)' = Logs!Active
  BY DEF Logs!Active, Logs!Dated
<1>p. kind = "hour_backup" => Logs!Period(now) = now /\ current <= now
  BY DEF Logs!Period, Logs!Hourly, SinkTyped
<1> SUFFICES ASSUME Logs!Hourly, NEW name \in DatedNames'
             PROVE  /\ name.index = 0
                    /\ kind = "hour_backup" =>
                         name.period < (IF at' \in {"rotated", "moved"} THEN now' ELSE current')
  BY <1>k, <1>b DEF HoursAreNew
<1>1. CASE name \in DatedNames
  <2>1. name.index = 0 /\ (kind = "hour_backup" =>
          name.period < (IF at \in {"rotated", "moved"} THEN now ELSE current))
    BY <1>1 DEF HoursAreNew
  <2>2. name.period \in Nat
    BY <1>1, DatedFacts
  <2>3. at \in {"rotated", "moved"} /\ at' \notin {"rotated", "moved"}
          => current' = Logs!Period(now)
    <3>1. CASE Rotates \/ Logs!OpenFile
      BY <3>1 DEF Rotates, Logs!RotateFile, Logs!OpenFile
    <3>2. CASE ~Rotates /\ ~Logs!OpenFile
      BY <3>2, OtherSteps
    <3> QED BY <3>1, <3>2
  <2> QED BY <2>1, <2>2, <2>3, <1>k, <1>p
<1>2. CASE name \notin DatedNames
  <2>1. name \notin LogNames /\ name # Logs!Active /\ name \in LogNames'
    BY <1>2, <1>a DEF DatedNames
  <2>2. CASE Rotates
    <3>1. name = Logs!generate_filepath /\ NameIsNext(name) /\ Logs!Backup
      BY <2>1, <2>2, RotationEffect DEF Renamed, LogNames
    <3>2. kind = "hour_backup"
      BY <3>1 DEF Logs!Backup, Logs!Hourly
    <3>3. name = Logs!Dated(now - 1, 0)
      BY <3>1, <3>2 DEF NameIsNext
    <3>4. name.period = now - 1 /\ name.index = 0
      BY <3>3 DEF Logs!Dated
    <3>5. at' \in {"rotated", "moved"}
      BY <2>2 DEF Rotates, Logs!RotateFile
    <3> QED BY <3>4, <3>5, <1>k
  <2>3. CASE Logs!OpenFile
    <3>1. file = Logs!Closed
      BY <2>1, <2>3 DEF Logs!OpenFile, LogNames
    <3>2. name = Logs!generate_filepath /\ ~Logs!Backup
      BY <2>1, <2>3, <3>1, OpenEffect DEF Opened
    <3>3. kind = "hour"
      BY <3>2 DEF Logs!Backup, Logs!Hourly, SinkTyped, Logs!Kinds
    <3>4. name = Logs!Dated(now, 0)
      BY <3>2, <3>3 DEF Logs!generate_filepath, Logs!HourFile
    <3> QED BY <3>3, <3>4 DEF Logs!Dated
  <2>4. CASE ~Rotates /\ ~Logs!OpenFile
    BY <2>1, <2>4, OtherSteps
  <2> QED BY <2>2, <2>3, <2>4
<1> QED BY <1>1, <1>2
-----------------------------------------------------------------------------
(* The steps of a sink that touch no file.                                 *)
LEMMA FilesLeftAlone ==
  ASSUME [Logs!Next]_Logs!vars, ~Rotates, ~Logs!OpenFile, ~(Logs!Write /\ good)
  PROVE  log_files' = log_files
<1>1. CASE Logs!Write
  BY <1>1 DEF Logs!Write
<1>2. CASE ~Logs!Write
  BY <1>2 DEF Rotates, Logs!Next, Logs!vars, Logs!Tick, Logs!Log, Logs!Consume,
              Logs!SetCurrent, Logs!OpenFails, Logs!WriteFails, Logs!EndRecord,
              Logs!RemoveSink, Logs!StopThread, Logs!ResetSink, Logs!Restart, Logs!Stopped
<1> QED BY <1>1, <1>2

(* Where a record of a file was before: in that file, in the active one,   *)
(* or at the head of the queue.                                            *)
Moves(name) ==
  /\ Rotates /\ Logs!Backup /\ Logs!Active \in LogNames
  /\ name = Logs!generate_filepath /\ NameIsNext(name)

(* Where a record on disk comes from: it was there, or was just written, or its file was
   just renamed. *)
LEMMA Origins ==
  ASSUME LogNow, [Logs!Next]_Logs!vars, NEW name \in LogNames',
         NEW i \in DOMAIN log_files'[name]
  PROVE  \/ /\ name \in LogNames /\ i \in DOMAIN log_files[name]
            /\ log_files'[name][i] = log_files[name][i]
            /\ ~Moves(name)
         \/ /\ Logs!Write /\ good /\ name = file
            /\ log_files'[name][i] = Logs!RecordOnDisk
         \/ /\ Moves(name)
            /\ i \in DOMAIN log_files[Logs!Active]
            /\ log_files'[name][i] = log_files[Logs!Active][i]
<1> USE DEF LogNow, LogFilesInv
<1>1. CASE Rotates
  <2>1. CASE Logs!Backup /\ Logs!Active \in LogNames
    <3>1. Renamed(Logs!generate_filepath) /\ NameIsNext(Logs!generate_filepath)
      BY <1>1, <2>1, RotationEffect
    <3>2. CASE name = Logs!generate_filepath
      BY <1>1, <2>1, <3>1, <3>2 DEF Renamed, Moves
    <3>3. CASE name # Logs!generate_filepath
      BY <3>1, <3>3 DEF Renamed, Moves
    <3> QED BY <3>2, <3>3
  <2>2. CASE ~(Logs!Backup /\ Logs!Active \in LogNames)
    <3>1. log_files' = log_files
      BY <1>1, <2>2, RotationEffect
    <3> QED BY <2>2, <3>1 DEF LogNames, Moves
  <2> QED BY <2>1, <2>2
<1>2. CASE Logs!OpenFile
  <2>0. ~Rotates
    BY <1>2 DEF Logs!OpenFile, Rotates, Logs!RotateFile
  <2>1. CASE file = Logs!Closed
    <3>1. Opened(Logs!OpenName)
      BY <1>2, <2>1, OpenEffect
    <3>2. DOMAIN <<>> = {}
      OBVIOUS
    <3> QED BY <2>0, <3>1, <3>2 DEF Opened, Moves
  <2>2. CASE file # Logs!Closed
    <3>1. log_files' = log_files
      BY <1>2, <2>2 DEF Logs!OpenFile
    <3> QED BY <2>0, <3>1 DEF LogNames, Moves
  <2> QED BY <2>1, <2>2
<1>3. CASE Logs!Write /\ good
  <2>0. ~Rotates /\ at = "open"
    BY <1>3 DEF Logs!Write, Rotates, Logs!RotateFile
  <2>1. Appended(Logs!RecordOnDisk) /\ Logs!RecordOnDisk \in OnFile
    BY <1>3, <2>0, WriteEffect
  <2>2. \/ /\ name \in LogNames /\ i \in DOMAIN log_files[name]
           /\ log_files'[name][i] = log_files[name][i]
        \/ name = file /\ log_files'[name][i] = Logs!RecordOnDisk
    BY <2>1, AppendedRecords
  <2> QED BY <1>3, <2>0, <2>2 DEF Moves
<1>4. CASE ~Rotates /\ ~Logs!OpenFile /\ ~(Logs!Write /\ good)
  BY <1>4, FilesLeftAlone DEF LogNames, Moves
<1> QED BY <1>1, <1>2, <1>3, <1>4

(* A record in a file stays in one, unless the active file is renamed over *)
(* its file.                                                               *)
LEMMA Survivors ==
  ASSUME LogNow, [Logs!Next]_Logs!vars, NEW name \in LogNames,
         NEW i \in DOMAIN log_files[name], ~Moves(name)
  PROVE  \E other \in LogNames' : \E j \in DOMAIN log_files'[other] :
           log_files'[other][j] = log_files[name][i]
<1> USE DEF LogNow, LogFilesInv
<1>1. CASE Rotates
  <2>1. CASE Logs!Backup /\ Logs!Active \in LogNames
    <3>1. Renamed(Logs!generate_filepath) /\ NameIsNext(Logs!generate_filepath)
      BY <1>1, <2>1, RotationEffect
    <3>2. name # Logs!generate_filepath
      BY <1>1, <2>1, <3>1 DEF Moves
    <3>3. CASE name = Logs!Active
      BY <3>1, <3>3 DEF Renamed
    <3>4. CASE name # Logs!Active
      BY <3>1, <3>2, <3>4 DEF Renamed
    <3> QED BY <3>3, <3>4
  <2>2. CASE ~(Logs!Backup /\ Logs!Active \in LogNames)
    BY <1>1, <2>2, RotationEffect DEF LogNames
  <2> QED BY <2>1, <2>2
<1>2. CASE Logs!OpenFile
  <2>1. CASE file = Logs!Closed
    <3>1. Opened(Logs!OpenName)
      BY <1>2, <2>1, OpenEffect
    <3> QED BY <3>1 DEF Opened
  <2>2. CASE file # Logs!Closed
    BY <1>2, <2>2 DEF Logs!OpenFile, LogNames
  <2> QED BY <2>1, <2>2
<1>3. CASE Logs!Write /\ good
  <2>0. at = "open"
    BY <1>3 DEF Logs!Write
  <2>1. Appended(Logs!RecordOnDisk) /\ Logs!RecordOnDisk \in OnFile
    BY <1>3, <2>0, WriteEffect
  <2>2. CASE name = file
    <3>1. log_files[file] \in Seq(OnFile) /\ log_files'[file] = Append(log_files[file], Logs!RecordOnDisk)
      BY <2>1 DEF Appended, FilesNamed
    <3>2. i \in 1 .. Len(log_files[file]) /\ Len(log_files[file]) \in Nat
      BY <2>2, <3>1, LenProperties
    <3>3. log_files'[file][i] = log_files[file][i] /\ i \in DOMAIN log_files'[file]
      BY <2>1, <3>1, <3>2, AppendProperties
    <3> QED BY <2>1, <2>2, <3>3 DEF Appended
  <2>3. CASE name # file
    BY <2>1, <2>3 DEF Appended
  <2> QED BY <2>2, <2>3
<1>4. CASE ~Rotates /\ ~Logs!OpenFile /\ ~(Logs!Write /\ good)
  BY <1>4, FilesLeftAlone DEF LogNames
<1> QED BY <1>1, <1>2, <1>3, <1>4

(* When consume began the record in progress, and what it files it under.  *)
LEMMA HeadOnTime ==
  ASSUME LogNow, RecordsAreOnTime, [Logs!Next]_Logs!vars, at' \in {"current", "open"}
  PROVE  Logs!Period(queue[1].begun)' <= current'
<1> USE DEF LogNow, LogFilesInv
<1>k. kind' = kind /\ now \in Nat /\ now > 0 /\ queue \in Seq(Waiting)
  BY SinkStep DEF SinkTyped, QueueIsNext
<1>p. \A hour : Logs!Period(hour)' = Logs!Period(hour)
  BY <1>k, BackendStays
<1>h. at # "idle" => queue # <<>> /\ queue[1].begun \in Nat /\ queue[1].begun <= now
  BY <1>k DEF SinkTyped, QueueIsNext
<1>1. CASE Logs!Consume
  <2>1. queue # <<>> /\ queue' = [queue EXCEPT ![1].begun = now] /\ current' = current
        /\ current = Logs!Period(now)
    BY <1>1 DEF Logs!Consume
  <2>2. Len(queue) > 0 /\ queue[1] \in Waiting
    BY <2>1, QueueFacts
  <2>3. queue'[1].begun = now
    BY <1>k, <2>1, <2>2 DEF Waiting
  <2>4. Logs!Period(queue[1].begun)' = Logs!Period(now)
    BY <1>p, <2>3
  <2>5. Logs!Period(now) \in Nat
    BY <1>k, PeriodIsMonotone
  <2> QED BY <2>1, <2>4, <2>5
<1>2. CASE Logs!SetCurrent("rotated", "current") \/ Logs!SetCurrent("moved", "idle")
  <2>1. at # "idle" /\ queue' = queue /\ current' = Logs!Period(now)
    BY <1>2 DEF Logs!SetCurrent
  <2>2. Logs!Period(queue[1].begun) <= Logs!Period(now)
    BY <1>h, <1>k, <2>1, PeriodIsMonotone
  <2>3. Logs!Period(queue[1].begun)' = Logs!Period(queue[1].begun)
    BY <1>p, <2>1
  <2> QED BY <2>1, <2>2, <2>3
<1>3. CASE Logs!OpenFile
  <2>1. at = "current" /\ queue' = queue /\ current' = current
    BY <1>3 DEF Logs!OpenFile
  <2>2. Logs!Period(queue[1].begun)' = Logs!Period(queue[1].begun)
    BY <1>p, <2>1
  <2> QED BY <2>1, <2>2 DEF RecordsAreOnTime
<1>4. CASE \E size \in Sizes : Logs!Log(size)
  <2>1. PICK size \in Sizes :
          queue' = Append(queue, [id |-> logged + 1, size |-> size, begun |-> Logs!NotBegun])
    BY <1>4 DEF Logs!Log
  <2>2. at' = at /\ current' = current
    BY <1>4 DEF Logs!Log, Logs!backend
  <2>3. Len(queue) \in Nat /\ Len(queue) > 0
    BY <1>h, <2>2, QueueFacts
  <2>4. queue'[1] = queue[1]
    BY <1>k, <2>1, <2>3, AppendProperties
  <2>5. Logs!Period(queue[1].begun)' = Logs!Period(queue[1].begun)
    BY <1>p, <2>4
  <2> QED BY <2>2, <2>5 DEF RecordsAreOnTime
<1>5. CASE Logs!Tick \/ Logs!RemoveSink \/ Logs!StopThread \/ Logs!Stopped
           \/ Logs!ResetSink \/ UNCHANGED Logs!vars
  <2>1. UNCHANGED <<at, queue, current>>
    BY <1>5 DEF Logs!Tick, Logs!RemoveSink, Logs!StopThread, Logs!Stopped, Logs!ResetSink,
                Logs!vars, Logs!process, Logs!backend
  <2>2. Logs!Period(queue[1].begun)' = Logs!Period(queue[1].begun)
    BY <1>p, <2>1
  <2> QED BY <2>1, <2>2 DEF RecordsAreOnTime
<1>6. ~(Logs!RotateFile("stale", "rotated") \/ Logs!RotateFile("full", "moved") \/ Logs!OpenFails
        \/ Logs!Write \/ Logs!WriteFails \/ Logs!EndRecord \/ Logs!Restart)
  BY DEF Logs!RotateFile, Logs!OpenFails, Logs!Write, Logs!WriteFails, Logs!EndRecord, Logs!Restart
<1> QED BY <1>1, <1>2, <1>3, <1>4, <1>5, <1>6 DEF Logs!Next
(* The records stay on time: under names that are not before they began,   *)
(* nor, unless the file was renamed, after they were written.              *)
LEMMA TimesStep ==
  ASSUME LogNow, RecordsAreOnTime, [Logs!Next]_Logs!vars
  PROVE  RecordsAreOnTime'
<1> USE DEF LogNow, LogFilesInv
<1>k. /\ kind' = kind /\ now \in Nat /\ now > 0 /\ current \in Nat /\ current' \in Nat
      /\ current <= current' /\ current <= Logs!Period(now)
  BY SinkStep DEF SinkTyped
<1>p. \A hour : Logs!Period(hour)' = Logs!Period(hour)
  BY <1>k, BackendStays
<1>b. (Logs!Backup)' = Logs!Backup
  BY <1>k, BackendStays
<1>a. (Logs!Active)' = Logs!Active /\ (Logs!Closed)' = Logs!Closed
  BY DEF Logs!Active, Logs!Closed, Logs!Dated
<1>1. at' \in {"current", "open"} => Logs!Period(queue[1].begun)' <= current'
  BY HeadOnTime
<1>2. ~Logs!Backup /\ file' # Logs!Closed => current' <= file'.period
  <2> SUFFICES ASSUME ~Logs!Backup, file' # Logs!Closed
               PROVE  current' <= file'.period
    OBVIOUS
  <2>1. CASE Logs!OpenFile /\ file = Logs!Closed
    <3>1. NameIsNext(Logs!OpenName)
      BY <2>1, OpenEffect
    <3> QED BY <2>1, <3>1 DEF NameIsNext, Logs!OpenFile
  <2>2. CASE file' = file /\ current' = current
    BY <2>2 DEF RecordsAreOnTime
  <2>3. \/ file' = file /\ current' = current
        \/ Logs!OpenFile /\ file = Logs!Closed
    <3>1. CASE Rotates
      BY <3>1, <1>a DEF Rotates, Logs!RotateFile
    <3>2. CASE Logs!OpenFile
      BY <3>2 DEF Logs!OpenFile
    <3>3. CASE Logs!SetCurrent("rotated", "current") \/ Logs!SetCurrent("moved", "idle")
      BY <3>3 DEF Logs!SetCurrent, FileIsThere
    <3>4. CASE Logs!Restart
      BY <3>4 DEF Logs!Restart
    <3>5. CASE Logs!ResetSink
      BY <3>5 DEF Logs!ResetSink
    <3>6. CASE Logs!Tick \/ (\E size \in Sizes : Logs!Log(size)) \/ Logs!Consume
               \/ Logs!OpenFails \/ Logs!Write \/ Logs!WriteFails \/ Logs!EndRecord
               \/ Logs!RemoveSink \/ Logs!StopThread \/ Logs!Stopped \/ UNCHANGED Logs!vars
      BY <3>6 DEF Logs!Tick, Logs!Log, Logs!Consume, Logs!OpenFails, Logs!Write,
                  Logs!WriteFails, Logs!EndRecord, Logs!RemoveSink, Logs!StopThread,
                  Logs!Stopped, Logs!vars, Logs!process, Logs!backend
    <3> QED BY <3>1, <3>2, <3>3, <3>4, <3>5, <3>6 DEF Logs!Next, Rotates
  <2> QED BY <2>1, <2>2, <2>3
<1>3. ASSUME NEW name \in LogNames', NEW i \in DOMAIN log_files'[name]
      PROVE  LET r == log_files'[name][i] IN
             /\ Logs!Period(r.begun) <= (IF name = Logs!Active THEN current' ELSE name.period)
             /\ ~Logs!Backup => name.period <= Logs!Period(r.done)
  <2>1. CASE /\ name \in LogNames /\ i \in DOMAIN log_files[name]
             /\ log_files'[name][i] = log_files[name][i]
    <3> DEFINE r == log_files[name][i]
    <3>1. /\ Logs!Period(r.begun) <= (IF name = Logs!Active THEN current ELSE name.period)
          /\ ~Logs!Backup => name.period <= Logs!Period(r.done)
      BY <2>1 DEF RecordsAreOnTime
    <3>2. r \in OnFile
      BY <2>1, ElementOfSeq, LenProperties DEF FilesNamed
    <3>3. Logs!Period(r.begun) \in Nat
      BY <3>2, PeriodIsMonotone DEF OnFile
    <3> HIDE DEF r
    <3>4. /\ Logs!Period(r.begun) <= (IF name = Logs!Active THEN current' ELSE name.period)
          /\ ~Logs!Backup => name.period <= Logs!Period(r.done)
      BY <3>1, <3>3, <1>k
    <3> QED BY <2>1, <3>4 DEF r
  <2>2. CASE /\ Logs!Write /\ good /\ name = file
             /\ log_files'[name][i] = Logs!RecordOnDisk
    <3> DEFINE r == Logs!RecordOnDisk
    <3>0. at = "open" /\ current' = current
      BY <2>2 DEF Logs!Write
    <3>1. r.begun = queue[1].begun /\ r.done = now /\ name \in LogNames /\ file # Logs!Closed
      BY <2>2, <3>0, WriteEffect
    <3>2. Logs!Period(r.begun) <= current
      BY <3>0, <3>1 DEF RecordsAreOnTime
    <3>3. Logs!Period(r.begun) \in Nat
      BY <3>0, <3>1, <1>k, PeriodIsMonotone, SMTT(30) DEF QueueIsNext
    <3>4. CASE name = Logs!Active
      <4>1. Logs!Backup
        BY <3>1, <3>4 DEF FilesNamed
      <4> QED BY <2>2, <3>0, <3>2, <3>4, <4>1
    <3>5. CASE name # Logs!Active
      <4>1. ~Logs!Backup
        BY <2>2, <3>1, <3>5 DEF FileIsThere
      <4>2. current <= name.period
        BY <2>2, <3>1, <4>1 DEF RecordsAreOnTime
      <4>3. name.period \in Nat /\ name.period <= Logs!Period(now)
        BY <3>1, <3>5, DatedFacts DEF DatedNames
      <4>4. Logs!Period(r.begun) <= name.period
        BY <3>2, <3>3, <4>2, <4>3, <1>k
      <4> QED BY <2>2, <3>1, <3>5, <4>3, <4>4
    <3> QED BY <3>4, <3>5
  <2>3. CASE /\ Moves(name) /\ i \in DOMAIN log_files[Logs!Active]
             /\ log_files'[name][i] = log_files[Logs!Active][i]
    <3> DEFINE r == log_files[Logs!Active][i]
    <3>1. Logs!Backup /\ Logs!Active \in LogNames /\ NameIsNext(name)
      BY <2>3 DEF Moves
    <3>2. Logs!Period(r.begun) <= current
      BY <2>3, <3>1 DEF RecordsAreOnTime
    <3>3. r \in OnFile
      BY <2>3, <3>1, ElementOfSeq, LenProperties DEF FilesNamed
    <3>4. Logs!Period(r.begun) \in Nat
      BY <3>3, PeriodIsMonotone DEF OnFile
    <3>5. current <= name.period /\ FileNamed(name)
      BY <3>1 DEF NameIsNext
    <3>6. name.period \in Nat /\ name # Logs!Active
      <4>1. Logs!Period(now) \in Nat
        BY <1>k, PeriodIsMonotone
      <4> QED BY <3>5, <4>1, SpecialNames DEF FileNamed
    <3> HIDE DEF r
    <3>7. Logs!Period(r.begun) <= name.period
      BY <3>2, <3>4, <3>5, <3>6, <1>k
    <3> QED BY <2>3, <3>1, <3>6, <3>7 DEF r
  <2> QED BY <2>1, <2>2, <2>3, Origins
<1>4. ASSUME NEW name \in LogNames', NEW i \in DOMAIN log_files'[name]
      PROVE  /\ Logs!Period(log_files[name][i].begun)'
                  <= (IF name = Logs!Active THEN current' ELSE name.period)
             /\ ~Logs!Backup => name.period <= Logs!Period(log_files[name][i].done)'
  BY <1>3, <1>p
<1> QED BY <1>1, <1>2, <1>4, <1>a, <1>b DEF RecordsAreOnTime
-----------------------------------------------------------------------------
(* The bounds on the files by size, and how they grow with the restarts.   *)
LEMMA Bounds ==
  ASSUME SinkTyped, SinkTyped', log_restarts <= log_restarts'
  PROVE  /\ Longest * log_restarts \in Nat /\ Longest * log_restarts' \in Nat
         /\ Longest * log_restarts <= Longest * log_restarts'
         /\ Longest * (1 + log_restarts) = Longest * log_restarts + Longest
         /\ Longest * (1 + log_restarts') = Longest * log_restarts' + Longest
         /\ Longest * 1 = Longest
         /\ log_restarts' = log_restarts + 1 =>
              Longest * log_restarts' = Longest * log_restarts + Longest
<1>1. Longest \in Nat /\ log_restarts \in Nat /\ log_restarts' \in Nat
  BY SizesAreLengths DEF SinkTyped
<1> HIDE DEF Longest
<1>2. \A l, n \in Nat : l * n \in Nat /\ l * (1 + n) = l * n + l /\ l * 1 = l
                        /\ l * (n + 1) = l * n + l
  OBVIOUS
<1>3. \A l, m, n \in Nat : m <= n => l * m <= l * n
  OBVIOUS
<1> QED BY <1>1, <1>2, <1>3

(* The bounds only grow, but for the active file behind its rotation.      *)
LEMMA BoundsStep ==
  ASSUME LogNow, [Logs!Next]_Logs!vars
  PROVE  /\ RotationSize \in Nat /\ RotationSize > 0 /\ Longest \in Nat
         /\ {DatedBound, DatedBound', ActiveBound, ActiveBound'} \subseteq Nat
         /\ DatedBound <= DatedBound' /\ DatedBound >= RotationSize + Longest
         /\ ActiveBound >= RotationSize /\ ActiveBound' >= RotationSize
         /\ (Logs!Backup => ActiveBound <= DatedBound)
         /\ (at' \in {"written", "full"} => ActiveBound' >= RotationSize + Longest)
         /\ (at \notin {"written", "full"} \/ at' \in {"written", "full"}
               => ActiveBound <= ActiveBound')
         /\ (at = "open" /\ at' = "written" => ActiveBound + Longest <= ActiveBound')
         /\ (log_restarts' = log_restarts + 1 => ActiveBound <= ActiveBound')
<1>1. /\ Longest * log_restarts \in Nat /\ Longest * log_restarts' \in Nat
      /\ Longest * log_restarts <= Longest * log_restarts'
      /\ Longest * (1 + log_restarts) = Longest * log_restarts + Longest
      /\ Longest * (1 + log_restarts') = Longest * log_restarts' + Longest
      /\ Longest * 1 = Longest
      /\ log_restarts' = log_restarts + 1 =>
           Longest * log_restarts' = Longest * log_restarts + Longest
  BY Bounds, SinkStep DEF LogNow, LogFilesInv
<1>2. RotationSize \in Nat /\ RotationSize > 0 /\ Longest \in Nat
  BY LogAssumption, SizesAreLengths
<1>3. (Logs!Backup)' = Logs!Backup
  BY SinkStep, BackendStays DEF LogNow, LogFilesInv
<1>4. /\ DatedBound = RotationSize + (IF Logs!Backup THEN Longest * log_restarts + Longest ELSE Longest)
      /\ DatedBound' = RotationSize + (IF Logs!Backup THEN Longest * log_restarts' + Longest ELSE Longest)
  BY <1>1, <1>3 DEF DatedBound, Longest
<1>5. /\ ActiveBound = RotationSize + Longest * log_restarts
                         + (IF at \in {"written", "full"} THEN Longest ELSE 0)
      /\ ActiveBound' = RotationSize + Longest * log_restarts'
                          + (IF at' \in {"written", "full"} THEN Longest ELSE 0)
  BY DEF ActiveBound, Longest
<1> QED BY <1>1, <1>2, <1>4, <1>5
(* The files by size stay short.                                           *)
LEMMA SizesStep ==
  ASSUME LogNow, FilesAreShort, [Logs!Next]_Logs!vars
  PROVE  FilesAreShort'
<1> USE DEF LogNow, LogFilesInv
<1>k. kind' = kind /\ written \in Nat /\ written' \in Nat /\ SinkTyped'
  BY SinkStep DEF SinkTyped
<1>b. (Logs!Backup)' = Logs!Backup /\ (Logs!Hourly)' = Logs!Hourly
  BY <1>k, BackendStays
<1>a. (Logs!Active)' = Logs!Active /\ (Logs!Closed)' = Logs!Closed
      /\ Logs!Active # Logs!Closed
  BY SpecialNames DEF Logs!Active, Logs!Closed, Logs!Dated
<1>B. /\ RotationSize \in Nat /\ RotationSize > 0 /\ Longest \in Nat
      /\ {DatedBound, DatedBound', ActiveBound, ActiveBound'} \subseteq Nat
      /\ DatedBound <= DatedBound' /\ DatedBound >= RotationSize + Longest
      /\ ActiveBound >= RotationSize /\ ActiveBound' >= RotationSize
      /\ (Logs!Backup => ActiveBound <= DatedBound)
      /\ (at' \in {"written", "full"} => ActiveBound' >= RotationSize + Longest)
      /\ (at \notin {"written", "full"} \/ at' \in {"written", "full"}
            => ActiveBound <= ActiveBound')
      /\ (at = "open" /\ at' = "written" => ActiveBound + Longest <= ActiveBound')
      /\ (log_restarts' = log_restarts + 1 => ActiveBound <= ActiveBound')
  BY BoundsStep
<1>l. \A name \in LogNames : Logs!Length(log_files[name]) \in Nat
  BY LengthFacts DEF FilesNamed
<1>L. \A records : Logs!Length(records)' = Logs!Length(records)
  BY DEF Logs!Length
<1> DEFINE Long(name) == Logs!Length(log_files[name])
           LongNext(name) == Logs!Length(log_files'[name])
<1> SUFFICES ASSUME ~Logs!Hourly
             PROVE  /\ file' # Logs!Closed => LongNext(file') <= written'
                    /\ kind = "size" /\ file' # Logs!Closed /\ ~HeadTried' =>
                         written' < RotationSize
                    /\ \A name \in LogNames' \ {Logs!Active} : LongNext(name) < DatedBound'
                    /\ Logs!Active \in LogNames' => LongNext(Logs!Active) < ActiveBound'
  BY <1>k, <1>b, <1>a, <1>L DEF FilesAreShort, DatedNames
<1>i. /\ file # Logs!Closed => Long(file) <= written
      /\ kind = "size" /\ file # Logs!Closed /\ ~HeadTried => written < RotationSize
      /\ \A name \in LogNames \ {Logs!Active} : Long(name) < DatedBound
      /\ Logs!Active \in LogNames => Long(Logs!Active) < ActiveBound
  BY DEF FilesAreShort, DatedNames
<1>d. \A name \in LogNames \ {Logs!Active} : Long(name) < DatedBound'
  BY <1>i, <1>l, <1>B
<1>t. ~HeadTried <=> at \notin {"written", "full", "moved"}
  BY DEF HeadTried
<1>tn. ~HeadTried' <=> at' \notin {"written", "full", "moved"}
  BY DEF HeadTried
<1> HIDE DEF Long, LongNext
<1>1. CASE Rotates
  <2>1. file' = Logs!Closed /\ at \in {"stale", "full"} /\ at' \in {"rotated", "moved"}
    BY <1>1, <1>a DEF Rotates, Logs!RotateFile
  <2>2. CASE Logs!Backup /\ Logs!Active \in LogNames
    <3> DEFINE new == Logs!generate_filepath
    <3>1. Renamed(new) /\ NameIsNext(new)
      BY <1>1, <2>2, RotationEffect
    <3> HIDE DEF new
    <3>2. Logs!Active \notin LogNames'
      BY <3>1, SpecialNames DEF Renamed, NameIsNext
    <3>3. LongNext(new) = Long(Logs!Active)
      BY <3>1 DEF Renamed, Long, LongNext
    <3>4. LongNext(new) < DatedBound'
      <4>1. Long(Logs!Active) \in Nat
        BY <2>2, <1>l DEF Long
      <4> QED BY <4>1, <2>2, <3>3, <1>i, <1>B
    <3>5. \A name \in LogNames' : name # new => LongNext(name) < DatedBound'
      BY <3>1, <1>d DEF Renamed, Long, LongNext
    <3> QED BY <2>1, <3>2, <3>4, <3>5
  <2>3. CASE ~(Logs!Backup /\ Logs!Active \in LogNames)
    <3>1. log_files' = log_files
      BY <1>1, <2>3, RotationEffect
    <3>2. Logs!Active \notin LogNames
      BY <2>3 DEF FilesNamed
    <3> QED BY <2>1, <3>1, <3>2, <1>d DEF LogNames, Long, LongNext
  <2> QED BY <2>2, <2>3
<1>2. CASE Logs!OpenFile
  <2>0. at = "current" /\ at' = "open"
    BY <1>2 DEF Logs!OpenFile
  <2>1. CASE file = Logs!Closed
    <3> DEFINE new == Logs!OpenName
    <3>1. Opened(new) /\ file' = new /\ written' = Logs!Length(Logs!Records(new))
      BY <1>2, <2>1, OpenEffect DEF Logs!OpenFile
    <3>2. \/ new = Logs!Active /\ Logs!Backup
          \/ NameIsNext(new) /\ ~Logs!Backup
      BY <1>2, <2>1, OpenEffect
    <3> HIDE DEF new
    <3>3. LongNext(new) = written' /\ (new \notin LogNames => written' = 0)
          /\ (new \in LogNames => written' = Long(new))
      BY <3>1, LengthFacts DEF Opened, Long, LongNext, Logs!Records, Logs!Files, LogNames
    <3>4. \A name \in LogNames : LongNext(name) = Long(name)
      BY <3>1 DEF Opened, Long, LongNext
    <3>5. kind = "size" => written' < RotationSize
      <4> SUFFICES ASSUME kind = "size"
                   PROVE  written' < RotationSize
        OBVIOUS
      <4>1. NameIsNext(new)
        BY <3>2 DEF Logs!Backup
      <4>2. new \in LogNames => Long(new) < RotationSize
        BY <4>1 DEF NameIsNext, Long
      <4> QED BY <4>2, <3>3, <1>B
    <3>6. \A name \in LogNames' \ {Logs!Active} : LongNext(name) < DatedBound'
      <4>1. \A name \in LogNames \ {Logs!Active} : LongNext(name) < DatedBound'
        BY <3>4, <1>d
      <4>2. new \notin LogNames => LongNext(new) < DatedBound'
        BY <3>3, <1>B
      <4> QED BY <4>1, <4>2, <3>1 DEF Opened
    <3>7. Logs!Active \in LogNames' => LongNext(Logs!Active) < ActiveBound'
      <4>1. Logs!Active \in LogNames => LongNext(Logs!Active) < ActiveBound'
        <5> SUFFICES ASSUME Logs!Active \in LogNames
                     PROVE  LongNext(Logs!Active) < ActiveBound'
          OBVIOUS
        <5>1. Long(Logs!Active) \in Nat
          BY <1>l DEF Long
        <5> QED BY <5>1, <3>4, <1>i, <1>B, <2>0
      <4>2. new \notin LogNames => LongNext(new) < ActiveBound'
        BY <3>3, <1>B
      <4> QED BY <4>1, <4>2, <3>1 DEF Opened
    <3>8. written' <= written'
      BY <1>k
    <3> QED BY <3>1, <3>3, <3>5, <3>6, <3>7, <3>8
  <2>2. CASE file # Logs!Closed
    <3>1. UNCHANGED <<log_files, file, written>>
      BY <1>2, <2>2 DEF Logs!OpenFile
    <3>2. Logs!Active \in LogNames => Long(Logs!Active) < ActiveBound'
      <4> SUFFICES ASSUME Logs!Active \in LogNames
                   PROVE  Long(Logs!Active) < ActiveBound'
        OBVIOUS
      <4>1. Long(Logs!Active) \in Nat
        BY <1>l DEF Long
      <4> QED BY <4>1, <1>i, <1>B, <2>0
    <3> QED BY <3>1, <3>2, <2>0, <1>i, <1>d, <1>t DEF LogNames, Long, LongNext
  <2> QED BY <2>1, <2>2
<1>3. CASE Logs!Write /\ good
  <2> DEFINE record == Logs!RecordOnDisk
  <2>0. at = "open" /\ at' = "written" /\ file' = file /\ written' = written + Head(queue).size
    BY <1>3 DEF Logs!Write, Logs!CountWritten
  <2>1. /\ Appended(record) /\ record \in OnFile /\ file \in LogNames /\ file # Logs!Closed
        /\ record.end = Long(file) + Head(queue).size /\ Head(queue).size \in Sizes
    BY <1>3, <2>0, WriteEffect DEF Long
  <2> HIDE DEF record
  <2>2. Head(queue).size \in Nat /\ Head(queue).size <= Longest
    BY <2>1, SizesAreLengths
  <2>3. LongNext(file) = Long(file) + Head(queue).size
    <3>1. log_files[file] \in Seq(OnFile)
      BY <2>1 DEF FilesNamed
    <3> QED BY <2>1, <3>1, LengthFacts DEF Appended, LongNext
  <2>4. Long(file) \in Nat
    BY <2>1, <1>l DEF Long
  <2>5. LongNext(file') <= written'
    BY <2>0, <2>1, <2>2, <2>3, <2>4, <1>i, <1>k
  <2>6. ASSUME file # Logs!Active
        PROVE  LongNext(file) < DatedBound'
    <3>1. kind = "size"
      BY <2>1, <2>6 DEF FileIsThere, Logs!Backup, Logs!Hourly, SinkTyped, Logs!Kinds
    <3>2. written < RotationSize
      BY <3>1, <2>0, <2>1, <1>i, <1>t
    <3> QED BY <3>2, <2>1, <2>2, <2>3, <2>4, <1>i, <1>k, <1>B
  <2>7. file = Logs!Active => LongNext(file) < ActiveBound'
    BY <2>0, <2>1, <2>2, <2>3, <2>4, <1>i, <1>B
  <2>8. \A name \in LogNames : name # file => LongNext(name) = Long(name)
    BY <2>1 DEF Appended, Long, LongNext
  <2>9. LogNames' = LogNames
    BY <2>1 DEF Appended
  <2>10. \A name \in LogNames' \ {Logs!Active} : LongNext(name) < DatedBound'
    BY <2>6, <2>8, <2>9, <1>d
  <2>11. Logs!Active \in LogNames /\ file # Logs!Active => LongNext(Logs!Active) < ActiveBound'
    <3> SUFFICES ASSUME Logs!Active \in LogNames, file # Logs!Active
                 PROVE  LongNext(Logs!Active) < ActiveBound'
      OBVIOUS
    <3>1. Long(Logs!Active) \in Nat
      BY <1>l DEF Long
    <3> QED BY <3>1, <2>0, <2>8, <1>i, <1>B
  <2> QED BY <2>0, <2>5, <2>7, <2>9, <2>10, <2>11, <1>tn
<1>4. CASE ~Rotates /\ ~Logs!OpenFile /\ ~(Logs!Write /\ good)
  <2>1. log_files' = log_files /\ LogNames' = LogNames
    BY <1>4, FilesLeftAlone DEF LogNames
  <2>2. \A name \in LogNames : LongNext(name) = Long(name)
    BY <2>1 DEF Long, LongNext
  <2>3. \A name \in LogNames' \ {Logs!Active} : LongNext(name) < DatedBound'
    BY <2>1, <2>2, <1>d
  <2>4. ASSUME file' # Logs!Closed
        PROVE  /\ file' = file /\ written <= written'
               /\ kind = "size" /\ ~HeadTried' => written' < RotationSize
    <3>1. CASE Logs!Write \/ Logs!WriteFails
      <4>1. at = "open" /\ at' = "written" /\ file' = file /\ Logs!CountWritten
        BY <3>1 DEF Logs!Write, Logs!WriteFails
      <4>2. Head(queue).size \in Nat
        BY <4>1, WriteEffect, SizesAreLengths
      <4>3. written <= written'
        BY <4>1, <4>2, <1>k DEF Logs!CountWritten
      <4> QED BY <4>1, <4>3, <1>tn
    <3>2. CASE Logs!EndRecord
      <4>1. at = "written" /\ at' \in {"idle", "full"} /\ file' = file /\ written' = written
            /\ (at' = "idle" => ~Logs!MustRotate)
        BY <3>2 DEF Logs!EndRecord
      <4>2. kind = "size" /\ ~Logs!MustRotate => written < RotationSize
        BY <1>k, <1>B DEF Logs!MustRotate
      <4> QED BY <4>1, <4>2, <1>k, <1>tn
    <3>3. CASE Logs!SetCurrent("rotated", "current") \/ Logs!SetCurrent("moved", "idle")
      BY <3>3, <2>4 DEF Logs!SetCurrent, FileIsThere
    <3>4. CASE Logs!Restart \/ Logs!ResetSink
      BY <3>4, <2>4 DEF Logs!Restart, Logs!ResetSink
    <3>5. CASE Logs!Tick \/ (\E size \in Sizes : Logs!Log(size)) \/ Logs!Consume
               \/ Logs!OpenFails \/ Logs!RemoveSink \/ Logs!StopThread
               \/ Logs!Stopped \/ UNCHANGED Logs!vars
      <4>1. file' = file /\ written' = written /\ (HeadTried => HeadTried')
        BY <3>5 DEF Logs!Tick, Logs!Log, Logs!Consume, Logs!OpenFails, Logs!RemoveSink,
                    Logs!StopThread, Logs!Stopped, Logs!vars, Logs!process, Logs!backend,
                    HeadTried
      <4> QED BY <4>1, <2>4, <1>i, <1>k
    <3> QED BY <3>1, <3>2, <3>3, <3>4, <3>5, <1>4 DEF Logs!Next, Rotates
  <2>5. file' # Logs!Closed => LongNext(file') <= written'
    <3> SUFFICES ASSUME file' # Logs!Closed
                 PROVE  LongNext(file') <= written'
      OBVIOUS
    <3>1. file' = file /\ file \in LogNames /\ written <= written' /\ Long(file) <= written
      BY <2>4, <1>i DEF FileIsThere
    <3>2. Long(file) \in Nat
      BY <3>1, <1>l DEF Long
    <3> QED BY <3>1, <3>2, <2>2, <1>k
  <2>6. Logs!Active \in LogNames' => LongNext(Logs!Active) < ActiveBound'
    <3> SUFFICES ASSUME Logs!Active \in LogNames
                 PROVE  Long(Logs!Active) < ActiveBound'
      BY <2>1, <2>2
    <3>1. Long(Logs!Active) \in Nat
      BY <1>l DEF Long
    <3>2. CASE at \notin {"written", "full"} \/ at' \in {"written", "full"}
               \/ log_restarts' = log_restarts + 1
      BY <3>1, <3>2, <1>i, <1>B
    <3>3. CASE at \in {"written", "full"} /\ at' \notin {"written", "full"}
               /\ log_restarts' # log_restarts + 1
      <4>1. Logs!EndRecord /\ at' = "idle"
        <5>1. CASE Logs!EndRecord
          BY <5>1, <3>3 DEF Logs!EndRecord
        <5>2. CASE Logs!Restart
          BY <5>2, <3>3 DEF Logs!Restart
        <5>3. CASE Logs!Tick \/ (\E size \in Sizes : Logs!Log(size)) \/ Logs!RemoveSink
                   \/ Logs!StopThread \/ Logs!ResetSink \/ Logs!Stopped \/ UNCHANGED Logs!vars
          <6>1. at' = at
            BY <5>3 DEF Logs!Tick, Logs!Log, Logs!RemoveSink, Logs!StopThread, Logs!ResetSink,
                        Logs!Stopped, Logs!vars, Logs!process, Logs!backend
          <6> QED BY <6>1, <3>3
        <5>4. CASE Logs!Consume \/ Logs!OpenFails \/ Logs!Write \/ Logs!WriteFails
                   \/ Logs!SetCurrent("rotated", "current") \/ Logs!SetCurrent("moved", "idle")
          BY <5>4, <3>3 DEF Logs!Consume, Logs!OpenFails, Logs!Write, Logs!WriteFails,
                            Logs!SetCurrent
        <5> QED BY <5>1, <5>2, <5>3, <5>4, <1>4 DEF Logs!Next, Rotates
      <4>2. ~Logs!MustRotate /\ at = "written"
        BY <4>1 DEF Logs!EndRecord
      <4>3. Logs!Backup
        BY DEF FilesNamed
      <4>4. written < RotationSize
        <5>1. kind = "size_backup"
          BY <4>3 DEF Logs!Backup, Logs!Hourly
        <5> QED BY <5>1, <4>2, <1>k, <1>B DEF Logs!MustRotate
      <4>5. file = Logs!Active
        BY <4>2, <4>3 DEF FileIsThere
      <4> QED BY <4>4, <4>5, <3>1, <1>a, <1>i, <1>k, <1>B
    <3> QED BY <3>2, <3>3
  <2> QED BY <2>3, <2>4, <2>5, <2>6
<1> QED BY <1>1, <1>2, <1>3, <1>4
-----------------------------------------------------------------------------
(* The records on disk, by the files they are in.                          *)
LEMMA OnDiskFacts ==
  /\ \A id : id \in Logs!OnDisk <=>
       \E name \in LogNames : \E i \in DOMAIN log_files[name] : log_files[name][i].id = id
  /\ \A id : id \in (Logs!OnDisk)' <=>
       \E name \in LogNames' : \E i \in DOMAIN log_files'[name] : log_files'[name][i].id = id
BY DEF Logs!OnDisk, Logs!Ids, Logs!ToSet, Logs!Files, LogNames

(* A record waits for the sink when one of the queue has its number. *)
LEMMA QueuedFacts ==
  \A id : id \in Logs!Queued <=> \E i \in DOMAIN queue : queue[i].id = id
BY DEF Logs!Queued, Logs!Ids, Logs!ToSet

(* No step takes a record out of the files, but a rename over a backup by  *)
(* size.                                                                   *)
LEMMA OnDiskStays ==
  ASSUME LogNow, [Logs!Next]_Logs!vars, kind # "size_backup"
  PROVE  Logs!OnDisk \subseteq (Logs!OnDisk)'
<1> SUFFICES ASSUME NEW id \in Logs!OnDisk
             PROVE  id \in (Logs!OnDisk)'
  OBVIOUS
<1>1. PICK name \in LogNames : \E i \in DOMAIN log_files[name] : log_files[name][i].id = id
  BY OnDiskFacts
<1>2. PICK i \in DOMAIN log_files[name] : log_files[name][i].id = id
  BY <1>1
<1>3. ~Moves(name)
  <2> SUFFICES ASSUME Moves(name)
               PROVE  FALSE
    OBVIOUS
  <2>1. kind = "hour_backup" /\ NameIsNext(name)
    BY DEF Moves, Logs!Backup
  <2> QED BY <2>1, <1>1 DEF NameIsNext
<1>4. \E other \in LogNames' : \E j \in DOMAIN log_files'[other] :
        log_files'[other][j] = log_files[name][i]
  BY <1>2, <1>3, Survivors
<1> QED BY <1>2, <1>4, OnDiskFacts

(* A record that was tried is on disk or counted as failed.                *)
LEMMA HeadStep ==
  ASSUME LogNow, HeadIsKept, [Logs!Next]_Logs!vars
  PROVE  HeadIsKept'
<1> USE DEF LogNow, LogFilesInv
<1>k. kind' = kind /\ queue \in Seq(Waiting)
  BY SinkStep DEF QueueIsNext
<1> SUFFICES ASSUME kind # "size_backup", HeadTried'
             PROVE  queue'[1].id \in (Logs!OnDisk)' \union failed'
  BY <1>k DEF HeadIsKept
<1>d. Logs!OnDisk \subseteq (Logs!OnDisk)'
  BY OnDiskStays
<1>1. CASE Logs!Write \/ Logs!WriteFails
  <2>1. at = "open" /\ queue' = queue
    BY <1>1 DEF Logs!Write, Logs!WriteFails
  <2>2. Head(queue) = queue[1] /\ queue[1].id = (logged - Len(queue)) + 1
    BY <2>1, QueueFacts DEF SinkTyped
  <2>3. CASE Logs!Write /\ good
    <3>1. /\ Appended(Logs!RecordOnDisk) /\ Logs!RecordOnDisk \in OnFile
          /\ Logs!RecordOnDisk.id = Tried + 1
      BY <2>1, <2>3, WriteEffect
    <3>2. Logs!RecordOnDisk.id = queue[1].id
      BY <2>2 DEF Logs!RecordOnDisk
    <3>3. log_files[file] \in Seq(OnFile) /\ file \in LogNames'
      BY <3>1 DEF Appended, FilesNamed
    <3>4. \E i \in DOMAIN log_files'[file] : log_files'[file][i] = Logs!RecordOnDisk
      <4>1. Len(log_files[file]) + 1 \in DOMAIN log_files'[file]
            /\ log_files'[file][Len(log_files[file]) + 1] = Logs!RecordOnDisk
        BY <3>1, <3>3, AppendProperties, LenProperties DEF Appended
      <4> QED BY <4>1
    <3> QED BY <2>1, <3>2, <3>3, <3>4, OnDiskFacts
  <2>4. CASE ~(Logs!Write /\ good)
    <3>1. Head(queue).id \in failed'
      BY <1>1, <2>4 DEF Logs!Write, Logs!WriteFails
    <3> QED BY <2>1, <2>2, <3>1
  <2> QED BY <2>3, <2>4
<1>2. CASE ~(Logs!Write \/ Logs!WriteFails)
  <2>1. HeadTried /\ failed' = failed /\ (queue' = queue \/ \E size \in Sizes : Logs!Log(size))
    <3>1. CASE Logs!Tick \/ Logs!RemoveSink \/ Logs!StopThread
               \/ Logs!ResetSink \/ Logs!Stopped \/ UNCHANGED Logs!vars
      BY <3>1 DEF Logs!Tick, Logs!RemoveSink, Logs!StopThread, Logs!ResetSink, Logs!Stopped,
                  Logs!vars, Logs!process, Logs!backend, Logs!history, HeadTried
    <3>2. CASE \E size \in Sizes : Logs!Log(size)
      BY <3>2 DEF Logs!Log, Logs!backend, HeadTried
    <3>3. CASE Rotates \/ Logs!EndRecord
      BY <3>3 DEF Rotates, Logs!RotateFile, Logs!EndRecord, Logs!history, HeadTried
    <3>4. ~(Logs!Consume \/ Logs!OpenFile \/ Logs!OpenFails \/ Logs!Restart
              \/ Logs!SetCurrent("rotated", "current") \/ Logs!SetCurrent("moved", "idle"))
      BY DEF Logs!Consume, Logs!OpenFile, Logs!OpenFails, Logs!Restart, Logs!SetCurrent, HeadTried
    <3> QED BY <3>1, <3>2, <3>3, <3>4, <1>2 DEF Logs!Next, Rotates
  <2>2. queue'[1] = queue[1]
    <3>1. CASE queue' = queue
      BY <3>1
    <3>2. CASE \E size \in Sizes : Logs!Log(size)
      <4>1. PICK r : queue' = Append(queue, r)
        BY <3>2 DEF Logs!Log
      <4>2. Len(queue) \in Nat /\ Len(queue) > 0
        BY <2>1, QueueFacts DEF SinkTyped, HeadTried
      <4> QED BY <1>k, <4>1, <4>2
    <3> QED BY <2>1, <3>1, <3>2
  <2>3. queue[1].id \in Logs!OnDisk \union failed
    BY <2>1 DEF HeadIsKept
  <2> QED BY <2>1, <2>2, <2>3, <1>d
<1> QED BY <1>1, <1>2
(* Every record logged stays in the queue or on disk, or is counted.       *)
LEMMA KeptStep ==
  ASSUME LogNow, HeadIsKept, RecordsAreKept, [Logs!Next]_Logs!vars
  PROVE  RecordsAreKept'
<1> USE DEF LogNow, LogFilesInv
<1>k. kind' = kind /\ queue \in Seq(Waiting) /\ logged \in Nat
  BY SinkStep DEF QueueIsNext, SinkTyped
<1> SUFFICES ASSUME kind # "size_backup", NEW id \in 1 .. logged'
             PROVE  id \in (Logs!Queued)' \union (Logs!OnDisk)' \union failed' \union gone'
  BY <1>k DEF RecordsAreKept, Logs!RecordsAreKept
<1>d. Logs!OnDisk \subseteq (Logs!OnDisk)'
  BY OnDiskStays
<1>q. id \in (Logs!Queued)' <=> \E i \in DOMAIN queue' : queue'[i].id = id
  BY DEF Logs!Queued, Logs!Ids, Logs!ToSet
<1>h. id <= logged =>
        id \in Logs!Queued \union Logs!OnDisk \union failed \union gone
  BY <1>k DEF RecordsAreKept, Logs!RecordsAreKept
<1>g. id \in Logs!Queued => \E i \in 1 .. Len(queue) : queue[i].id = id
  BY <1>k, QueuedFacts, LenProperties
<1>1. CASE \E size \in Sizes : Logs!Log(size)
  <2>1. PICK size \in Sizes :
          queue' = Append(queue, [id |-> logged + 1, size |-> size, begun |-> Logs!NotBegun])
    BY <1>1 DEF Logs!Log
  <2>2. logged' = logged + 1 /\ failed' = failed /\ gone' = gone
    BY <1>1 DEF Logs!Log
  <2> DEFINE r == [id |-> logged + 1, size |-> size, begun |-> Logs!NotBegun]
  <2>3. r.id = logged + 1 /\ r \in Waiting
    BY <1>k DEF Waiting, Logs!NotBegun
  <2> HIDE DEF r
  <2>4. /\ Len(queue') = Len(queue) + 1 /\ Len(queue) \in Nat
        /\ DOMAIN queue' = 1 .. Len(queue) + 1
        /\ \A i \in 1 .. Len(queue) : queue'[i] = queue[i]
        /\ queue'[Len(queue) + 1] = r
    BY <1>k, <2>1, <2>3, AppendProperties, LenProperties DEF r
  <2>5. CASE id = logged + 1
    BY <2>3, <2>4, <2>5, <1>q
  <2>6. CASE id <= logged
    <3>1. id \in Logs!Queued => id \in (Logs!Queued)'
      BY <1>g, <1>q, <2>4
    <3> QED BY <3>1, <2>2, <2>6, <1>d, <1>h
  <2> QED BY <2>2, <2>5, <2>6, <1>k
<1>2. CASE Logs!Consume
  <2>1. queue # <<>> /\ queue' = [queue EXCEPT ![1].begun = now]
        /\ UNCHANGED <<logged, failed, gone>>
    BY <1>2 DEF Logs!Consume, Logs!history
  <2>2. Len(queue) > 0 /\ queue[1] \in Waiting
    BY <2>1, QueueFacts
  <2>3. DOMAIN queue' = DOMAIN queue
    BY <2>1
  <2>4. \A i \in DOMAIN queue : queue'[i].id = queue[i].id
    BY <1>k, <2>1, <2>2 DEF Waiting
  <2>5. id \in Logs!Queued => id \in (Logs!Queued)'
    BY <1>q, <2>3, <2>4, QueuedFacts
  <2> QED BY <2>1, <2>5, <1>d, <1>h, <1>k
<1>3. ASSUME queue # <<>>, queue' = Tail(queue), UNCHANGED <<logged, gone>>,
             failed \subseteq failed', queue[1].id \in (Logs!OnDisk)' \union failed'
      PROVE  id \in (Logs!Queued)' \union (Logs!OnDisk)' \union failed' \union gone'
  <2>1. /\ Len(queue) \in Nat /\ queue' \in Seq(Waiting) /\ Len(queue') = Len(queue) - 1
        /\ \A i \in 1 .. Len(queue) - 1 : queue'[i] = queue[i + 1]
    BY <1>3, QueueFacts
  <2>2. CASE id \in Logs!Queued
    <3>1. PICK i \in 1 .. Len(queue) : queue[i].id = id
      BY <2>2, <1>g
    <3>2. CASE i = 1
      BY <3>1, <3>2, <1>3
    <3>3. CASE i # 1
      <4>1. i - 1 \in 1 .. Len(queue) - 1 /\ (i - 1) + 1 = i
        BY <3>3, <2>1
      <4>2. queue'[i - 1] = queue[i] /\ i - 1 \in DOMAIN queue'
        <5>1. DOMAIN queue' = 1 .. Len(queue')
          BY <2>1, LenProperties
        <5> QED BY <4>1, <5>1, <2>1
      <4> QED BY <3>1, <4>2, <1>q
    <3> QED BY <3>2, <3>3
  <2>3. CASE id \notin Logs!Queued
    BY <2>3, <1>3, <1>d, <1>h, <1>k
  <2> QED BY <2>2, <2>3
<1>4. CASE Logs!OpenFails
  <2>1. queue # <<>> /\ queue' = Tail(queue) /\ UNCHANGED <<logged, gone>>
        /\ failed' = failed \union {Head(queue).id}
    BY <1>4 DEF Logs!OpenFails, SinkTyped
  <2>2. Head(queue) = queue[1]
    BY <2>1, QueueFacts
  <2> QED BY <2>1, <2>2, <1>3
<1>5. CASE Logs!EndRecord \/ Logs!SetCurrent("moved", "idle")
  <2>1. HeadTried /\ queue # <<>> /\ UNCHANGED <<logged, gone, failed>>
        /\ (queue' = queue \/ queue' = Tail(queue))
    BY <1>5 DEF Logs!EndRecord, Logs!SetCurrent, Logs!history, HeadTried, SinkTyped
  <2>2. queue[1].id \in (Logs!OnDisk)' \union failed'
    BY <2>1, <1>d DEF HeadIsKept
  <2>3. queue' = queue => (Logs!Queued)' = Logs!Queued
    BY DEF Logs!Queued
  <2> QED BY <2>1, <2>2, <2>3, <1>3, <1>d, <1>h, <1>k
<1>6. CASE Logs!Restart
  <2>1. gone' = gone \union (Logs!Queued \ (Logs!OnDisk \union failed))
        /\ UNCHANGED <<logged, failed>>
    BY <1>6 DEF Logs!Restart
  <2> QED BY <2>1, <1>d, <1>h, <1>k
<1>7. CASE Logs!Tick \/ Rotates \/ Logs!SetCurrent("rotated", "current") \/ Logs!OpenFile
           \/ Logs!Write \/ Logs!WriteFails \/ Logs!RemoveSink \/ Logs!StopThread
           \/ Logs!ResetSink \/ Logs!Stopped \/ UNCHANGED Logs!vars
  <2>1. UNCHANGED <<queue, logged, gone>> /\ failed \subseteq failed'
    BY <1>7 DEF Logs!Tick, Rotates, Logs!RotateFile, Logs!SetCurrent, Logs!OpenFile,
                Logs!Write, Logs!WriteFails, Logs!RemoveSink, Logs!StopThread,
                Logs!ResetSink, Logs!Stopped, Logs!vars, Logs!process, Logs!backend,
                Logs!history
  <2>2. (Logs!Queued)' = Logs!Queued
    BY <2>1 DEF Logs!Queued
  <2> QED BY <2>1, <2>2, <1>d, <1>h, <1>k
<1> QED BY <1>1, <1>2, <1>4, <1>5, <1>6, <1>7 DEF Logs!Next, Rotates

(* A new sink has an empty queue, and the files of its process are none.   *)
LEMMA LogInit ==
  ASSUME Logs!Init
  PROVE  LogInv
<1>1. /\ kind \in Logs!Kinds /\ now = 1 /\ sink = "running" /\ queue = <<>> /\ at = "idle"
      /\ file = Logs!Closed /\ good = TRUE /\ current = Logs!Period(now) /\ written = 0
      /\ LogNames = {} /\ logged = 0 /\ log_restarts = 0
  BY DEF Logs!Init, LogNames
<1>2. Logs!Period(now) \in Nat
  BY <1>1, PeriodIsMonotone
<1>3. SinkTyped
  BY <1>1, <1>2, LogAssumption DEF SinkTyped
<1>4. QueueIsNext
  <2>1. queue \in Seq(Waiting) /\ Len(queue) = 0
    BY <1>1
  <2> QED BY <1>1, <2>1 DEF QueueIsNext
<1>5. FilesNamed /\ FileIsThere /\ RecordsArePast /\ IdsInOrder /\ OpenFileIsLast
      /\ HoursAreNew /\ IndicesHaveNoGap
  BY <1>1 DEF FilesNamed, FileIsThere, RecordsArePast, IdsInOrder, OpenFileIsLast,
              HoursAreNew, IndicesHaveNoGap, DatedNames
<1>6. RecordsAreOnTime /\ FilesAreShort /\ HeadIsKept /\ RecordsAreKept
  BY <1>1 DEF RecordsAreOnTime, FilesAreShort, HeadIsKept, HeadTried, DatedNames,
              RecordsAreKept, Logs!RecordsAreKept
<1> QED BY <1>3, <1>4, <1>5, <1>6 DEF LogInv

(* Every step of a sink keeps the invariant.                               *)
LEMMA LogStep ==
  ASSUME LogInv, [Logs!Next]_Logs!vars
  PROVE  LogInv'
<1>1. /\ LogNow /\ OpenFileIsLast /\ RecordsAreOnTime /\ FilesAreShort
      /\ HeadIsKept /\ RecordsAreKept
  BY DEF LogInv, LogNow, LogFilesInv
<1>2. SinkTyped' /\ QueueIsNext'
  BY SinkStep, QueueStep DEF LogInv
<1>3. LogFilesInv' /\ FileIsThere' /\ OpenFileIsLast' /\ HoursAreNew'
  BY <1>1, FilesStep, OpenFileStep, HoursStep
<1>4. RecordsAreOnTime' /\ FilesAreShort' /\ HeadIsKept' /\ RecordsAreKept'
  BY <1>1, TimesStep, SizesStep, HeadStep, KeptStep
<1> QED BY <1>2, <1>3, <1>4 DEF LogInv, LogFilesInv
-----------------------------------------------------------------------------
(* The recordings and the logs together: a step is one of either's.        *)
DiskInv == RecorderInv /\ LogInv

(* Every step of the disk is a step of the recorder and a step of the logs, or leaves them
   alone, and keeps the invariants of both. *)
LEMMA DiskStep ==
  ASSUME DiskInv, [DiskNext]_disk_vars
  PROVE  DiskInv' /\ [Next]_vars /\ [Logs!Next]_Logs!vars
<1>1. /\ UNCHANGED log_vars <=> UNCHANGED Logs!vars
  BY DEF log_vars, Logs!vars, Logs!process, Logs!backend, Logs!history
<1>2. [Next]_vars /\ [Logs!Next]_Logs!vars
  <2>1. CASE UNCHANGED disk_vars
    BY <2>1, <1>1 DEF disk_vars
  <2>2. CASE Recordings /\ Next
    BY <2>2, <1>1 DEF Recordings
  <2>3. CASE LogsOnly /\ Logs!Next
    BY <2>3 DEF LogsOnly
  <2>4. DiskNext => (Recordings /\ Next) \/ (LogsOnly /\ Logs!Next)
    BY DEF DiskNext, Next, Logs!Next
  <2> QED BY <2>1, <2>2, <2>3, <2>4
<1> QED BY <1>2, RecorderNext, LogStep DEF DiskInv

(* Both invariants hold in every state.                                    *)
LEMMA DiskInvariant == DiskSpec => []DiskInv
<1>1. DiskInit => DiskInv
  BY RecorderInit, LogInit DEF DiskInit, DiskInv
<1>2. DiskInv /\ [DiskNext]_disk_vars => DiskInv'
  BY DiskStep
<1> QED BY <1>1, <1>2, PTL DEF DiskSpec

(* Every variable of the contexts and the recordings, of the backends and  *)
(* the log files has its type.                                             *)
THEOREM DiskTypes == DiskSpec => []DiskTypeOK
<1>1. DiskInv => DiskTypeOK
  <2> SUFFICES ASSUME RecorderInv, LogInv
               PROVE  TypeOK /\ Logs!TypeOK
    BY DEF DiskInv, DiskTypeOK
  <2>1. TypeOK
    BY InvTypes DEF RecorderInv
  <2> USE DEF LogInv
  <2>2. /\ kind \in Logs!Kinds /\ now \in 1 .. LastHour
        /\ sink \in {"running", "removed", "flushing", "stopped"}
        /\ at \in {"idle", "stale", "rotated", "current", "open", "written", "full", "moved"}
        /\ written \in Nat /\ good \in BOOLEAN /\ (at # "idle" => queue # <<>>)
    BY DEF SinkTyped
  <2>3. current \in 0 .. now
    <3>1. now \in Nat /\ current \in Nat /\ current <= Logs!Period(now)
      BY DEF SinkTyped
    <3>2. Logs!Period(now) \in Nat /\ Logs!Period(now) <= now
      BY <3>1, PeriodIsMonotone
    <3> QED BY <3>1, <3>2
  <2>4. LogNames \subseteq {Logs!Active} \union
                             {Logs!Dated(p, i) : p \in 0 .. now, i \in 0 .. logged}
    <3> SUFFICES ASSUME NEW name \in DatedNames
                 PROVE  \E p \in 0 .. now, i \in 0 .. logged : name = Logs!Dated(p, i)
      BY DEF DatedNames
    <3>1. now \in Nat /\ logged \in Nat
      BY DEF SinkTyped
    <3>2. Logs!Period(now) \in Nat /\ Logs!Period(now) <= now
      BY <3>1, PeriodIsMonotone
    <3>3. name = Logs!Dated(name.period, name.index)
          /\ name.period \in Nat /\ name.period <= Logs!Period(now)
          /\ name.index \in Nat /\ name.index <= logged
      BY DatedFacts
    <3>4. name.period \in 0 .. now /\ name.index \in 0 .. logged
      BY <3>1, <3>2, <3>3
    <3> QED BY <3>3, <3>4
  <2>5. file \in LogNames \union {Logs!Closed}
        /\ (at \in {"open", "written"} => file # Logs!Closed)
    BY DEF FileIsThere
  <2>6. ASSUME NEW name \in LogNames, NEW i \in DOMAIN log_files[name]
        PROVE  LET r == log_files[name][i] IN
               r.size \in Sizes /\ r.begun \in 1 .. r.done /\ r.done \in 1 .. now
    <3>1. log_files[name][i] \in OnFile
      BY ElementOfSeq, LenProperties DEF FilesNamed
    <3>2. log_files[name][i].begun \in 1 .. log_files[name][i].done
          /\ log_files[name][i].done <= now
      BY DEF RecordsArePast
    <3>3. log_files[name][i].size \in Sizes /\ log_files[name][i].done \in Nat
      BY <3>1 DEF OnFile
    <3>4. now \in Nat
      BY DEF SinkTyped
    <3> QED BY <3>2, <3>3, <3>4
  <2>7. \A name \in LogNames : \A r \in Logs!ToSet(log_files[name]) :
          r.size \in Sizes /\ r.begun \in 1 .. r.done /\ r.done \in 1 .. now
    BY <2>6 DEF Logs!ToSet
  <2>8. Logs!Files = LogNames
    BY DEF Logs!Files, LogNames
  <2>9. Logs!TypeOK
    BY <2>2, <2>3, <2>4, <2>5, <2>7, <2>8 DEF Logs!TypeOK
  <2> QED BY <2>1, <2>9
<1> QED BY <1>1, DiskInvariant, PTL

(* write_flv and the process that may die in it: a file that one           *)
(* connection wrote alone, under its only name, is a recording.            *)
THEOREM DiskRecordingsAreWhole == DiskSpec => []RecordingIsWhole
<1>1. DiskInv => RecordingIsWhole
  BY DEF DiskInv, RecorderInv, FilesInv
<1> QED BY <1>1, DiskInvariant, PTL

(* Whatever files it shares, a connection leaves one header and each of    *)
(* its messages once and in order, beside any logs.                        *)
THEOREM DiskMessagesOnce == DiskSpec => []EveryMessageOnce
<1>1. DiskInv => EveryMessageOnce
  BY InvOnce DEF DiskInv, RecorderInv
<1> QED BY <1>1, DiskInvariant, PTL

(* consume, rotate_file and stop_logger: a record of a backend that keeps  *)
(* its backups is in the queue or a file, unless an open or a write failed *)
(* for it or the process ended with it in the queue.                       *)
THEOREM LogsKeepTheirRecords == DiskSpec => []RecordsAreKept
<1>1. DiskInv => RecordsAreKept
  BY DEF DiskInv, LogInv
<1> QED BY <1>1, DiskInvariant, PTL

(* generate_filepath and scan_next_index: reading the files by their names *)
(* reads the records in the order they were logged.                        *)
THEOREM LogsAreInOrder == DiskSpec => []FilesAreInOrder
<1>1. DiskInv => FilesAreInOrder
  <2> SUFFICES ASSUME IdsInOrder
               PROVE  Logs!FilesAreInOrder
    BY DEF DiskInv, LogInv, FilesAreInOrder
  <2>1. \A name \in LogNames : \A i, j \in DOMAIN log_files[name] :
          i < j => log_files[name][i].id < log_files[name][j].id
    BY DEF IdsInOrder
  <2>2. \A a, b \in LogNames : Logs!Before(a, b) =>
          \A i \in Logs!Ids(log_files[a]), j \in Logs!Ids(log_files[b]) : i < j
    BY DEF IdsInOrder, Logs!Ids, Logs!ToSet
  <2> QED BY <2>1, <2>2 DEF Logs!FilesAreInOrder, Logs!Files, LogNames
<1> QED BY <1>1, DiskInvariant, PTL

(* rotate_file before the write: a record is filed under the hour or day   *)
(* in which consume began it, or a later one of a renamed file.            *)
THEOREM LogsAreFiledByTime == DiskSpec => []FiledByTime
<1>1. DiskInv => FiledByTime
  <2> SUFFICES ASSUME RecordsAreOnTime
               PROVE  Logs!FiledByTime
    BY DEF DiskInv, LogInv, FiledByTime
  <2>1. \A name \in LogNames \ {Logs!Active} : \A i \in DOMAIN log_files[name] :
          /\ Logs!Period(log_files[name][i].begun) <= name.period
          /\ ~Logs!Backup => name.period <= Logs!Period(log_files[name][i].done)
    BY DEF RecordsAreOnTime
  <2> QED BY <2>1 DEF Logs!FiledByTime, Logs!ToSet, Logs!Files, LogNames
<1> QED BY <1>1, DiskInvariant, PTL

(* consume and characters_written_: a file by size is below the rotation   *)
(* size before its last record, and with an active file before one record  *)
(* for each restart.                                                       *)
THEOREM LogsAreShort == DiskSpec => []SizesAreBounded
<1>1. DiskInv => SizesAreBounded
  <2> SUFFICES ASSUME SinkTyped, FilesNamed, FilesAreShort, ~Logs!Hourly,
                      NEW name \in LogNames
               PROVE  Logs!Length(log_files[name]) <
                        RotationSize + Longest * (IF Logs!Backup THEN 1 + log_restarts ELSE 1)
    BY DEF DiskInv, LogInv, SizesAreBounded, Logs!SizesAreBounded, Logs!Files, LogNames, Longest
  <2>1. CASE name # Logs!Active
    BY <2>1 DEF FilesAreShort, DatedNames, DatedBound
  <2>2. CASE name = Logs!Active
    <3>1. Logs!Backup
      BY <2>2 DEF FilesNamed
    <3>2. Logs!Length(log_files[name]) < ActiveBound /\ Logs!Length(log_files[name]) \in Nat
      BY <2>2, LengthFacts DEF FilesAreShort, FilesNamed
    <3>3. Longest \in Nat /\ log_restarts \in Nat /\ RotationSize \in Nat
      BY SizesAreLengths, LogAssumption DEF SinkTyped
    <3>4. Longest * log_restarts \in Nat
          /\ Longest * (1 + log_restarts) = Longest * log_restarts + Longest
      <4>1. \A l, n \in Nat : l * n \in Nat /\ l * (1 + n) = l * n + l
        OBVIOUS
      <4> QED BY <3>3, <4>1
    <3>5. ActiveBound <= RotationSize + Longest * (1 + log_restarts) /\ ActiveBound \in Nat
      BY <3>3, <3>4 DEF ActiveBound
    <3>6. RotationSize + Longest * (1 + log_restarts) \in Nat
      BY <3>3, <3>4
    <3> QED BY <3>1, <3>2, <3>5, <3>6
  <2> QED BY <2>1, <2>2
<1> QED BY <1>1, DiskInvariant, PTL

(* rollover_without_max: only a backup by size takes the place of another, *)
(* of the last one of the day, and only while that one is not full.        *)
THEOREM BackupsAreKept == DiskSpec => OnlySmallBackupsAreReplaced
<1> DEFINE Kept == \A name \in Logs!Files :
             \/ Logs!Ids(log_files[name]) \subseteq (Logs!OnDisk)'
             \/ /\ kind = "size_backup"
                /\ name = Logs!Dated(Logs!Day(now),
                     Logs!Max({n.index : n \in {m \in Logs!Files : m.period = Logs!Day(now)}}))
                /\ Logs!Length(log_files[name]) < RotationSize
<1>1. DiskInv /\ [DiskNext]_disk_vars => [Kept]_Logs!vars
  <2> SUFFICES ASSUME DiskInv, [DiskNext]_disk_vars, NEW name \in LogNames
               PROVE  \/ Logs!Ids(log_files[name]) \subseteq (Logs!OnDisk)'
                      \/ /\ kind = "size_backup"
                         /\ name = Logs!Dated(Logs!Day(now), Logs!Max(Indices(Logs!Day(now))))
                         /\ Logs!Length(log_files[name]) < RotationSize
    BY DEF Logs!Files, LogNames, Indices
  <2>1. LogNow /\ [Logs!Next]_Logs!vars
    BY DiskStep DEF DiskInv, LogInv, LogNow, LogFilesInv
  <2>2. CASE ~Moves(name)
    <3>1. \A i \in DOMAIN log_files[name] : log_files[name][i].id \in (Logs!OnDisk)'
      <4> SUFFICES ASSUME NEW i \in DOMAIN log_files[name]
                   PROVE  log_files[name][i].id \in (Logs!OnDisk)'
        OBVIOUS
      <4>1. \E other \in LogNames' : \E j \in DOMAIN log_files'[other] :
              log_files'[other][j] = log_files[name][i]
        BY <2>1, <2>2, Survivors
      <4> QED BY <4>1, OnDiskFacts
    <3> QED BY <3>1 DEF Logs!Ids, Logs!ToSet
  <2>3. CASE Moves(name)
    <3> DEFINE day == Logs!Day(now)
    <3>1. Logs!Backup /\ name = Logs!generate_filepath /\ NameIsNext(name)
      BY <2>3 DEF Moves
    <3>2. kind = "size_backup"
      BY <3>1 DEF NameIsNext, Logs!Backup
    <3>3. name = Logs!Dated(day, Logs!scan_next_index(day))
      BY <3>1, <3>2 DEF Logs!generate_filepath, Logs!DayBackupFile
    <3>4. day \in Nat
      <4>1. now \in Nat
        BY <2>1 DEF LogNow, SinkTyped
      <4> QED BY <4>1, DayIsMonotone
    <3> HIDE DEF day
    <3>5. /\ Logs!scan_next_index(day) = Logs!Max(Indices(day))
          /\ Logs!Length(log_files[name]) < RotationSize
      BY <2>1, <3>3, <3>4, ScanFacts DEF LogNow, LogFilesInv
    <3> QED BY <3>2, <3>3, <3>5 DEF day
  <2> QED BY <2>2, <2>3
<1>2. DiskSpec => [][Kept]_Logs!vars
  <2> HIDE DEF Kept
  <2> QED BY <1>1, DiskInvariant, PTL DEF DiskSpec
<1> QED BY <1>2 DEF OnlySmallBackupsAreReplaced, Logs!OnlySmallBackupsAreReplaced
=============================================================================
