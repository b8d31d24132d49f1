------------------------------ MODULE LogFiles ------------------------------
(***************************************************************************)
(* The log sinks (src/castislogger.h, src/cichannellogger.h): what the     *)
(* records of a process leave on disk.  A sink queues the records of every *)
(* thread; one thread takes them from the queue and calls consume of the   *)
(* sink's backend, which rotates files by hour or by size and day.  There  *)
(* are four backends:                                                      *)
(*                                                                         *)
(*   "hour"         cilog_date_hour_backend: one file per hour             *)
(*   "size"         cilog_backend: numbered files per day                  *)
(*   "hour_backup"  cilog_date_hour_based_backup_backend and               *)
(*   "size_backup"  cilog_size_based_backup_backend: an active file that   *)
(*                  is renamed to a dated backup (the program's logger)    *)
(*                                                                         *)
(* Every call of consume reads the clock several times, and the hour may   *)
(* pass between any two of them; so consume is a sequence of steps.  The   *)
(* process may end at any step; the files stay.                            *)
(***************************************************************************)
EXTENDS Integers, Sequences, FiniteSets, SequencesExt

CONSTANTS
  Sizes,          \* the lengths of a record, its newline counted
  RotationSize,   \* rotation_size_
  HoursPerDay,    \* how many values of the clock make a day
  LastHour,       \* bound on the clock
  MaxRecords,     \* bound on the records logged
  MaxRestarts,    \* bound on the restarts of the process
  MaxFailures     \* bound on the opens and writes that fail

VARIABLES
  kind,      \* the backend of this sink
  now,       \* the clock, in hours
  sink,      \* "running", or how far stop_logger has come
  queue,     \* the records the sink holds, the first one in progress
  at,        \* where in consume its thread is
  current,   \* current_date_hour_ or current_date_
  written,   \* characters_written_
  file,      \* file_: the name it is open under, or Closed
  good,      \* file_.good()
  disk,      \* the files
  logged,    \* history: how many records were logged
  failed,    \* history: the records an open or a write failed for
  gone,      \* history: the records a stop of the process took from the queue
  restarts, failures

backend == <<at, current, written, file, good>>
process == <<sink, queue, backend>>
history == <<logged, failed, gone, restarts, failures>>
vars == <<kind, now, process, disk, history>>

Kinds == {"hour", "size", "hour_backup", "size_backup"}
Hourly == kind \in {"hour", "hour_backup"}
Backup == kind \in {"hour_backup", "size_backup"}

Day(hour) == hour \div HoursPerDay
Period(hour) == IF Hourly THEN hour ELSE Day(hour)

(* A file name is the hour or day and the index in it, or the active file. *)
Dated(period, index) == [period |-> period, index |-> index]
Active == Dated(-1, 0)
Closed == Dated(-2, 0)

NotBegun == 0  \* the clock at which consume took a record that still waits

Files == DOMAIN disk
Records(name) == IF name \in Files THEN disk[name] ELSE <<>>

(* What tellp and file_size say: a record on disk knows where it ends. *)
Length(records) == IF records = <<>> THEN 0 ELSE Last(records).end
Ids(records) == {r.id : r \in ToSet(records)}
OnDisk == UNION {Ids(disk[name]) : name \in Files}
Queued == Ids(queue)

-----------------------------------------------------------------------------
(* init_async_channel_logger and its like, called by main: a new backend   *)
(* with nothing open, and a sink registered with the core.                 *)
Init ==
  /\ kind \in Kinds /\ now = 1
  /\ sink = "running" /\ queue = <<>>
  /\ at = "idle" /\ file = Closed /\ good = TRUE
  /\ current = Period(now) /\ written = 0
  /\ disk = [name \in {} |-> <<>>]
  /\ logged = 0 /\ failed = {} /\ gone = {} /\ restarts = 0 /\ failures = 0

(* The clock: local time, taken never to be set back. *)
Tick ==
  /\ now < LastHour
  /\ now' = now + 1
  /\ UNCHANGED <<kind, process, disk, history>>

(* RTMPLOG on any thread: the record waits in the sink's queue. *)
Log(size) ==
  /\ sink = "running" /\ logged < MaxRecords
  /\ logged' = logged + 1
  /\ queue' = Append(queue, [id |-> logged + 1, size |-> size, begun |-> NotBegun])
  /\ UNCHANGED <<kind, now, sink, backend, disk, failed, gone, restarts, failures>>

-----------------------------------------------------------------------------
(* scan_next_index: the last index of the day, or the one behind it when   *)
(* its file is full.                                                       *)
scan_next_index_Last(day) ==
  LET indices == {name.index : name \in {n \in Files : n.period = day}}
  IN IF indices = {} THEN 0 ELSE Max(indices)

scan_next_index(day) ==
  LET indices == {name.index : name \in {n \in Files : n.period = day}}
      last == IF indices = {} THEN 0 ELSE Max(indices)
  IN IF Dated(day, last) \in Files /\ Length(disk[Dated(day, last)]) >= RotationSize
     THEN last + 1 ELSE last

(* The dated names.  Those by the day come from the files that are there;  *)
(* a backup by the hour is named after the hour before.                    *)
HourFile == Dated(now, 0)
HourBackupFile == Dated(now - 1, 0)
DayFile == Dated(Day(now), scan_next_index(Day(now)))
DayBackupFile == Dated(Day(now), scan_next_index(Day(now)))

generate_filepath_HourOfDay ==
  IF Hourly THEN Dated(now % HoursPerDay, 0) ELSE DayFile

generate_filepath ==
  CASE kind = "hour"        -> HourFile
    [] kind = "hour_backup" -> HourBackupFile
    [] kind = "size"        -> DayFile
    [] kind = "size_backup" -> DayBackupFile

(* rollover_without_max: the active file takes a dated name, whatever had  *)
(* that name before; an error of rename is caught and forgotten.           *)
rollover_without_max ==
  IF Active \in Files
  THEN disk' = [name \in (Files \ {Active}) \union {generate_filepath} |->
                  IF name = generate_filepath THEN disk[Active] ELSE disk[name]]
  ELSE UNCHANGED disk

RotateFile_LeftOpen(from, to) ==
  /\ at = from /\ at' = to
  /\ written' = 0
  /\ IF Backup THEN rollover_without_max ELSE UNCHANGED disk
  /\ UNCHANGED <<kind, now, sink, queue, current, file, good, history>>

(* rotate_file, down to the line that reads the clock again. *)
RotateFile(from, to) ==
  /\ at = from /\ at' = to
  /\ file' = Closed /\ good' = TRUE
  /\ written' = 0
  /\ IF Backup THEN rollover_without_max ELSE UNCHANGED disk
  /\ UNCHANGED <<kind, now, sink, queue, current, history>>

(* rotate_file: current_date_ or current_date_hour_ is what the clock says *)
(* now; behind the record's write this ends the record.                    *)
SetCurrent(from, to) ==
  /\ at = from /\ at' = to
  /\ current' = Period(now)
  /\ queue' = IF to = "idle" THEN Tail(queue) ELSE queue
  /\ UNCHANGED <<kind, now, sink, written, file, good, disk, history>>

-----------------------------------------------------------------------------
(* The thread of the sink, or stop_logger's flush, takes the next record.  *)
Feeding == sink \in {"running", "removed", "flushing"}

Consume_Untested ==
  /\ Feeding /\ at = "idle" /\ queue # <<>>
  /\ queue' = [queue EXCEPT ![1].begun = now]
  /\ at' = "current"
  /\ UNCHANGED <<kind, now, sink, current, written, file, good, disk, history>>

(* consume, its first test: a file of an earlier hour or day is rotated.   *)
Consume ==
  /\ Feeding /\ at = "idle" /\ queue # <<>>
  /\ queue' = [queue EXCEPT ![1].begun = now]
  /\ at' = IF current # Period(now) THEN "stale" ELSE "current"
  /\ UNCHANGED <<kind, now, sink, current, written, file, good, disk, history>>

(* The name a closed file is opened under. *)
OpenName == IF Backup THEN Active ELSE generate_filepath

(* consume: a file that is not open is opened for append. *)
OpenFile_FromZero ==
  /\ at = "current" /\ at' = "open"
  /\ IF file # Closed THEN UNCHANGED <<file, disk, written>>
     ELSE /\ file' = OpenName
          /\ disk' = [name \in Files \union {OpenName} |-> Records(name)]
          /\ written' = 0
  /\ UNCHANGED <<kind, now, sink, queue, current, good, history>>

OpenFile ==
  /\ at = "current" /\ at' = "open"
  /\ IF file # Closed THEN UNCHANGED <<file, disk, written>>
     ELSE /\ file' = OpenName
          /\ disk' = [name \in Files \union {OpenName} |-> Records(name)]
          /\ written' = IF Hourly THEN written ELSE Length(Records(OpenName))
  /\ UNCHANGED <<kind, now, sink, queue, current, good, history>>

(* consume: a file that cannot be opened costs the record, silently. *)
OpenFails ==
  /\ at = "current" /\ at' = "idle" /\ file = Closed
  /\ failures < MaxFailures /\ failures' = failures + 1
  /\ failed' = failed \union {Head(queue).id}
  /\ queue' = Tail(queue)
  /\ UNCHANGED <<kind, now, sink, current, written, file, good, disk, logged, gone, restarts>>

CountWritten == written' = IF Hourly THEN written ELSE written + Head(queue).size

(* The record in progress as it goes behind what the file holds. *)
RecordOnDisk ==
  [id |-> Head(queue).id, size |-> Head(queue).size, begun |-> Head(queue).begun,
   done |-> now, end |-> Length(Records(file)) + Head(queue).size]

(* consume: write, put and flush.  The backends with an active file do not *)
(* look at the state of the stream, and a stream that failed stays failed. *)
Write ==
  /\ at = "open" /\ at' = "written"
  /\ CountWritten
  /\ IF good
     THEN /\ disk' = [disk EXCEPT ![file] = Append(@, RecordOnDisk)]
          /\ UNCHANGED failed
     ELSE /\ failed' = failed \union {Head(queue).id}
          /\ UNCHANGED disk
  /\ UNCHANGED <<kind, now, sink, queue, current, file, good, logged, gone, restarts, failures>>

WriteFails ==
  /\ at = "open" /\ at' = "written"
  /\ failures < MaxFailures /\ failures' = failures + 1
  /\ failed' = failed \union {Head(queue).id}
  /\ good' = FALSE
  /\ CountWritten
  /\ UNCHANGED <<kind, now, sink, queue, current, file, disk, logged, gone, restarts>>

(* consume, its last test, which differs in every backend. *)
MustRotate ==
  CASE kind = "hour"        -> current # now \/ ~good
    [] kind = "hour_backup" -> current # now
    [] kind = "size"        -> written >= RotationSize \/ ~good
    [] kind = "size_backup" -> written >= RotationSize

EndRecord ==
  /\ at = "written"
  /\ IF MustRotate THEN at' = "full" /\ UNCHANGED queue
                   ELSE at' = "idle" /\ queue' = Tail(queue)
  /\ UNCHANGED <<kind, now, sink, current, written, file, good, disk, history>>

-----------------------------------------------------------------------------
(* stop_logger, when main's server thread has been joined: the sink takes  *)
(* no more records, its thread ends behind the record it is at, and flush  *)
(* consumes what is left.                                                  *)
RemoveSink ==
  /\ sink = "running" /\ sink' = "removed"
  /\ UNCHANGED <<kind, now, queue, backend, disk, history>>

StopThread ==
  /\ sink = "removed" /\ at = "idle" /\ sink' = "flushing"
  /\ UNCHANGED <<kind, now, queue, backend, disk, history>>

ResetSink_Unflushed ==
  /\ sink = "flushing" /\ at = "idle"
  /\ sink' = "stopped" /\ file' = Closed /\ queue' = <<>>
  /\ UNCHANGED <<kind, now, at, current, written, good, disk, history>>

(* The backend is destroyed, and with it the open file. *)
ResetSink ==
  /\ sink = "flushing" /\ at = "idle" /\ queue = <<>>
  /\ sink' = "stopped" /\ file' = Closed
  /\ UNCHANGED <<kind, now, queue, at, current, written, good, disk, history>>

(* The process ends, in order or not, and starts again. *)
Restart ==
  /\ restarts < MaxRestarts /\ restarts' = restarts + 1
  /\ gone' = gone \union (Queued \ (OnDisk \union failed))
  /\ sink' = "running" /\ queue' = <<>>
  /\ at' = "idle" /\ file' = Closed /\ good' = TRUE
  /\ current' = Period(now) /\ written' = 0
  /\ UNCHANGED <<kind, now, disk, logged, failed, failures>>

Stopped == sink = "stopped" /\ UNCHANGED vars

Next ==
  \/ Tick
  \/ \E size \in Sizes : Log(size)
  \/ Consume
  \/ RotateFile("stale", "rotated") \/ SetCurrent("rotated", "current")
  \/ OpenFile \/ OpenFails
  \/ Write \/ WriteFails
  \/ EndRecord
  \/ RotateFile("full", "moved") \/ SetCurrent("moved", "idle")
  \/ RemoveSink \/ StopThread \/ ResetSink
  \/ Restart
  \/ Stopped

Spec == Init /\ [][Next]_vars

-----------------------------------------------------------------------------
(* Type invariant of the variables of the four backends and of the sink:   *)
(* what consume, rotate_file, the clock and stop_logger leave in them.     *)
TypeOK ==
  /\ kind \in Kinds /\ now \in 1 .. LastHour
  /\ sink \in {"running", "removed", "flushing", "stopped"}
  /\ at \in {"idle", "stale", "rotated", "current", "open", "written", "full", "moved"}
  /\ current \in 0 .. now /\ written \in Nat /\ good \in BOOLEAN
  /\ Files \subseteq {Active} \union {Dated(p, i) : p \in 0 .. now, i \in 0 .. logged}
  /\ file \in Files \union {Closed}
  /\ at \in {"open", "written"} => file # Closed
  /\ at # "idle" => queue # <<>>
  /\ \A name \in Files : \A r \in ToSet(disk[name]) :
       r.size \in Sizes /\ r.begun \in 1 .. r.done /\ r.done \in 1 .. now

(* A record handed to the logger while its sink is registered is in the    *)
(* queue or in a file, unless an open or a write failed for it or the      *)
(* process ended first; stop_logger loses none.  The backends that rename  *)
(* nothing keep every record whatever the order of restarts, rotations and *)
(* changes of the hour.                                                    *)
RecordsAreKept ==
  kind # "size_backup" =>
    \A id \in 1 .. logged : id \in Queued \union OnDisk \union failed \union gone

(* cilog_size_based_backup_backend may rename the active file over an      *)
(* earlier backup, but only over the last one of the day, when that is     *)
(* shorter than the rotation size; no other step of any backend takes a    *)
(* record out of the files.                                                *)
OnlySmallBackupsAreReplaced ==
  [][\A name \in Files :
       \/ Ids(disk[name]) \subseteq OnDisk'
       \/ /\ kind = "size_backup"
          /\ name = Dated(Day(now), Max({n.index : n \in {m \in Files : m.period = Day(now)}}))
          /\ Length(disk[name]) < RotationSize]_vars

(* Names of files are chosen so that reading the dated files by period and *)
(* index, and the active file behind them, reads the records in the order  *)
(* they were logged, across rotations, restarts and midnight.              *)
Before(a, b) ==
  \/ a # Active /\ b = Active
  \/ a # Active /\ b # Active
     /\ \/ a.period < b.period
        \/ a.period = b.period /\ a.index < b.index

FilesAreInOrder ==
  /\ \A name \in Files : \A i, j \in DOMAIN disk[name] :
       i < j => disk[name][i].id < disk[name][j].id
  /\ \A a, b \in Files : Before(a, b) =>
       \A i \in Ids(disk[a]), j \in Ids(disk[b]) : i < j

(* A record is filed under the hour or day in which it was consumed; the   *)
(* backends with an active file name it after the rotation, so that a      *)
(* backup may hold earlier records but never one from after its name.      *)
FiledByTime ==
  \A name \in Files \ {Active} : \A r \in ToSet(disk[name]) :
    /\ Period(r.begun) <= name.period
    /\ ~Backup => name.period <= Period(r.done)

(* The backends that rotate by size keep a file below the rotation size    *)
(* until its last record.  With an active file, each restart between the   *)
(* write and the rotation lets one record more in.                         *)
SizesAreBounded ==
  ~Hourly =>
    \A name \in Files :
      Length(disk[name]) <
        RotationSize + Max(Sizes) * (IF Backup THEN 1 + restarts ELSE 1)
=============================================================================
