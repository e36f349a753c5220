------------------------------- MODULE Training -------------------------------
(***************************************************************************)
(* A self-play process and the input pipeline of networks/train.py reading *)
(* the logs it writes, rotates and leaves behind.  The pipeline lists the  *)
(* log files once, when it starts, and reads the files of that list in a   *)
(* new random order in every epoch.  Any error of the reader ends the      *)
(* training: the queue runner asks the coordinator to stop.                *)
(*                                                                         *)
(* A file that was unlinked stays readable to whoever has it open; one     *)
(* that was emptied by fopen does not: from there on the reader has the    *)
(* old bytes in its buffers and the new ones behind them.                  *)
(***************************************************************************)
EXTENDS SelfPlay

VARIABLES
  trainer,    \* "off", "reading" or "failed"
  listed,     \* the logs match_filenames_once found
  pending,    \* those of them the filename queue still has in this epoch
  work        \* the log being read: its file, who wrote it, and the place

trainerVars == <<trainer, listed, pending, work>>

allVars == <<vars, trainerVars>>

NoWork == [file |-> 0, life |-> 0, pos |-> 0]

TrainingInit ==
  /\ Init
  /\ trainer = "off"
  /\ listed = {}
  /\ pending = {}
  /\ work = NoWork

(* The list is made; string_input_producer asserts that it is not empty.   *)
ListFiles ==
  /\ trainer = "off"
  /\ listed' = DOMAIN dir
  /\ pending' = listed'
  /\ trainer' = IF listed' = {} THEN "failed" ELSE "reading"
  /\ UNCHANGED work

(* The producer enqueues the list again, shuffled.                         *)
NextEpoch ==
  /\ trainer = "reading"
  /\ pending = {}
  /\ work = NoWork
  /\ pending' = listed
  /\ UNCHANGED <<trainer, listed, work>>

(* OnWorkStartedLocked opens the next file, if it is still there.          *)
StartWork(k) ==
  /\ trainer = "reading"
  /\ work = NoWork
  /\ k \in pending
  /\ pending' = pending \ {k}
  /\ \/ /\ k \in DOMAIN dir
        /\ work' = [file |-> dir[k], life |-> files[dir[k]].life, pos |-> 0]
        /\ UNCHANGED trainer
     \/ /\ k \notin DOMAIN dir
        /\ trainer' = "failed"
        /\ UNCHANGED work
  /\ UNCHANGED listed

Overwritten == files[work.file].life # work.life

(* A bug: a record that ends where the file ends is taken for cut off.     *)
BugWholeRecord == work.pos + 2 < files[work.file].disk

WholeRecord == work.pos + 2 <= files[work.file].disk

CutRecord == work.pos + 1 = files[work.file].disk

(* ReadRecord returns a record.  Of an overwritten log it may still have   *)
(* old records in its buffers, or be lucky.                                *)
ReadRecord ==
  /\ trainer = "reading"
  /\ work # NoWork
  /\ IF Overwritten THEN work.pos < 2 * BatchesPerLog * BatchSize ELSE WholeRecord
  /\ work' = [work EXCEPT !.pos = @ + 2]
  /\ UNCHANGED <<trainer, listed, pending>>

(* A bug: the reader starts over at the end of a file.                     *)
BugFinishWork == [work EXCEPT !.pos = 0]

FinishWork == NoWork

(* The end of the file, where a header was expected: OutOfRange, and on to *)
(* the next file.                                                          *)
EndOfFile ==
  /\ trainer = "reading"
  /\ work # NoWork
  /\ Overwritten \/ ~(WholeRecord \/ CutRecord)
  /\ work' = FinishWork
  /\ UNCHANGED <<trainer, listed, pending>>

(* The end of the file inside of a record, or bytes that do not belong     *)
(* together: DataLoss.                                                     *)
DataLoss ==
  /\ trainer = "reading"
  /\ work # NoWork
  /\ Overwritten \/ CutRecord
  /\ trainer' = "failed"
  /\ UNCHANGED <<listed, pending, work>>

TrainerStep ==
  /\ \/ ListFiles
     \/ NextEpoch
     \/ \E k \in pending : StartWork(k)
     \/ ReadRecord
     \/ EndOfFile
     \/ DataLoss
  /\ UNCHANGED vars

TrainingNext == (Next /\ UNCHANGED trainerVars) \/ TrainerStep

(* As SelfPlay, and the threads of a trainer that was started run.         *)
TrainingSpec ==
  /\ TrainingInit
  /\ [][TrainingNext]_allVars
  /\ Fairness
  /\ WF_allVars(TrainerStep /\ trainer # "off")

-------------------------------------------------------------------------------
(* The file being read was closed by the process that is running now, and  *)
(* is as it was when it was opened for reading.                            *)
ReadsClosedLog ==
  work # NoWork /\ work.file # log /\ work.life = life /\ ~Overwritten

(* A training run fails only if there was nothing to train on, if the log  *)
(* it was about to open is none of those the process that is playing       *)
(* keeps, or inside of a log that was overwritten or that does not have    *)
(* all its games on the disk, because it was being written or a process    *)
(* died writing it.  A log that RotateLog closed never makes it fail.      *)
TrainerFailuresExplained ==
  [][trainer # "failed" /\ trainer' = "failed" =>
       \/ trainer = "off" /\ DOMAIN dir = {}
       \/ /\ work = NoWork
          /\ \E k \in pending : /\ pending' = pending \ {k}
                               /\ k \notin (next_log - LogsKept) .. (next_log - 1)
       \/ /\ work # NoWork
          /\ ~ReadsClosedLog
          /\ Overwritten \/ files[work.file].disk # 2 * BatchesPerLog * BatchSize]_allVars

(* The reader leaves a closed log only after the last of its games: none   *)
(* is lost between the buffers of the writer and those of the reader.      *)
TrainerReadsWholeLogs ==
  [][work' = NoWork /\ ReadsClosedLog
       => work.pos = 2 * BatchesPerLog * BatchSize]_allVars

(* Every epoch of a training run ends, unless the run fails.               *)
EpochEnds ==
  trainer = "reading" ~> (trainer = "failed" \/ (pending = {} /\ work = NoWork))
===============================================================================
