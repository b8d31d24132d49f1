------------------------------ MODULE DiskFiles ------------------------------
(***************************************************************************)
(* What the process leaves on disk: the recordings (FlvRecorder) and the   *)
(* log files (LogFiles).  Both append to files that outlive the process    *)
(* and name them from state that does not.  They share nothing but the end *)
(* of the process, which each of them has at every step, so a behaviour    *)
(* follows one of them.                                                    *)
(***************************************************************************)
EXTENDS FlvRecorder, Integers, TLC

CONSTANTS
  Sizes, RotationSize, HoursPerDay, LastHour, MaxRecords, MaxFailures,
  MaxLogRestarts  \* bound on the restarts of the process seen by a log

ASSUME LogAssumption ==
  /\ Sizes \subseteq Nat \ {0}
  /\ \E longest \in Sizes : \A size \in Sizes : size <= longest
  /\ {RotationSize, HoursPerDay, LastHour} \subseteq Nat \ {0}
  /\ {MaxRecords, MaxLogRestarts, MaxFailures} \subseteq Nat

VARIABLES
  subject,   \* what this behaviour follows
  kind, now, sink, queue, at, current, written, file, good,  \* of LogFiles
  log_files, logged, failed, gone, log_restarts, failures    \* of LogFiles

Logs == INSTANCE LogFiles
  WITH disk <- log_files, restarts <- log_restarts, MaxRestarts <- MaxLogRestarts

log_vars == <<kind, now, sink, queue, at, current, written, file, good,
              log_files, logged, failed, gone, log_restarts, failures>>
disk_vars == <<subject, vars, log_vars>>

DiskInit ==
  /\ Init /\ Logs!Init
  /\ subject \in {"recordings", "logs"}
  /\ subject = "recordings" => kind = "hour"

Recordings == subject = "recordings" /\ UNCHANGED <<subject, log_vars>>
LogsOnly == subject = "logs" /\ UNCHANGED <<subject, vars>>

DiskNext ==
  \/ \E c \in Connections :
       \/ Recordings /\ Accept(c)
       \/ Recordings /\ Close(c)
       \/ Recordings /\ \E name \in StreamNames : HandlePublish(c, name)
       \/ Recordings /\ \E k \in MediaKinds : HandleMediaMessage(c, k)
       \/ Recordings /\ \E k \in MediaKinds : RestartInTag(c, k)
       \/ Recordings /\ \E k \in MediaKinds : RestartInDumps(c, k)
  \/ Recordings /\ Restart
  \/ Recordings /\ Ended
  \/ LogsOnly /\ Logs!Tick
  \/ LogsOnly /\ \E size \in Sizes : Logs!Log(size)
  \/ LogsOnly /\ Logs!Consume
  \/ LogsOnly /\ Logs!RotateFile("stale", "rotated")
  \/ LogsOnly /\ Logs!SetCurrent("rotated", "current")
  \/ LogsOnly /\ Logs!OpenFile
  \/ LogsOnly /\ Logs!OpenFails
  \/ LogsOnly /\ Logs!Write
  \/ LogsOnly /\ Logs!WriteFails
  \/ LogsOnly /\ Logs!EndRecord
  \/ LogsOnly /\ Logs!RotateFile("full", "moved")
  \/ LogsOnly /\ Logs!SetCurrent("moved", "idle")
  \/ LogsOnly /\ Logs!RemoveSink
  \/ LogsOnly /\ Logs!StopThread
  \/ LogsOnly /\ Logs!ResetSink
  \/ LogsOnly /\ Logs!Restart
  \/ LogsOnly /\ Logs!Stopped

(* The connections are alike. *)
Symmetry == Permutations(Connections)

DiskSpec == DiskInit /\ [][DiskNext]_disk_vars

-----------------------------------------------------------------------------
(* Every variable of the recorder's contexts and files and of the backends *)
(* and their files has its type.                                           *)
DiskTypeOK == TypeOK /\ Logs!TypeOK

(* consume, rotate_file and stop_logger keep every record: see LogFiles.   *)
RecordsAreKept == Logs!RecordsAreKept

(* rollover_without_max replaces no backup but a short last one.           *)
OnlySmallBackupsAreReplaced == Logs!OnlySmallBackupsAreReplaced

(* scan_next_index and generate_filepath name files in the order of what   *)
(* is in them.                                                             *)
FilesAreInOrder == Logs!FilesAreInOrder

(* rotate_file before the write, by the hour or day consume begins in.     *)
FiledByTime == Logs!FiledByTime

(* consume rotates at rotation_size_, counted from what is on disk.        *)
SizesAreBounded == Logs!SizesAreBounded
=============================================================================
