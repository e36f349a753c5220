------------------------------- MODULE SelfPlay -------------------------------
(***************************************************************************)
(* The self-play process: SelfPlay (self_play/self_play.cc) lets a         *)
(* Supervisor (self_play/supervisor.cc) play batches of games, one thread  *)
(* per game, and write their recordings to rotating log files.             *)
(*                                                                         *)
(* The process may die at any point: a game thread reaches a LOG(FATAL)    *)
(* (module PlayGame), a thread throws and get() rethrows, a TF_CHECK_OK    *)
(* fails, or it is killed.  What the operating system has of the files     *)
(* survives, and the process may be started again on the same directory.   *)
(* A machine that loses power is not considered.                           *)
(*                                                                         *)
(* A recording is identified by the run of the process it belongs to and   *)
(* its number in that run.  Places in a log are counted in half records:   *)
(* an odd place is one where a record has its header and not its whole     *)
(* data.  A log goes through the buffers of zlib and of stdio, which hand   *)
(* on what they like: how far it has got to the file is a choice at every  *)
(* write, until the zlib stream is finished and the file is closed.        *)
(***************************************************************************)
EXTENDS Integers, Sequences, FiniteSets

CONSTANTS
  BatchSize,        \* games per PlayBatch, 8 in the program
  BatchesPerLog,    \* PlayBatch calls per log, 100 in the program
  MaxReplayFiles,   \* FLAGS_max_replay_files, 10 by default
  FloatLimit,       \* 2^24: the float that adding 1.0f does not change
  MaxLogs,          \* bound: logs opened per run of the process
  MaxRestarts       \* bound: times the process is started again

ASSUME SelfPlayAssumption ==
  /\ BatchSize \in Nat \ {0}
  /\ BatchesPerLog \in Nat \ {0}
  /\ MaxReplayFiles \in Nat \ {0}
  /\ FloatLimit \in Nat \ {0}
  /\ MaxLogs \in Nat
  /\ MaxRestarts \in Nat

Threads == 1 .. BatchSize

Players == {"FIRST", "SECOND"}

VARIABLES
  pc,         \* where the main thread is
  next_log,   \* next_log_
  batches,    \* the batches of the current log that have been played
  result,     \* the future of each game: "playing", a score, or "taken"
  won,        \* player_1_won_ and player_2_won_
  log,        \* the file behind file_, 0 if there is none
  dir,        \* the replay directory: the file of each log number
  files,      \* all files, the unlinked ones included
  life        \* how often the process has been started again

vars == <<pc, next_log, batches, result, won, log, dir, files, life>>

(* The scores a game can end with.                                         *)
Scores == {"1.0", "0.0"}

Idle == [i \in Threads |-> "taken"]

NothingWon == [p \in Players |-> 0]

(* A file: the process that wrote it, the records it passed to the writer, *)
(* whether the zlib stream is finished, and how far it got to the disk.    *)
EmptyFile == [life |-> life, records |-> << >>, finished |-> FALSE, disk |-> 0]

FileType ==
  [life : Nat, records : Seq(Nat \X Nat), finished : BOOLEAN, disk : Nat]

End(f) == 2 * Len(f.records)

TypeOK ==
  /\ pc \in {"close_writer", "close_file", "delete_old", "open_new", "play",
             "collect", "flush", "dead"}
  /\ next_log \in 0 .. MaxLogs
  /\ batches \in 0 .. BatchesPerLog
  /\ result \in [Threads -> {"playing", "taken"} \cup Scores]
  /\ won \in [Players -> 0 .. FloatLimit]
  /\ log \in 0 .. Len(files)
  /\ DOMAIN dir \subseteq 0 .. (MaxLogs - 1)
  /\ \A k \in DOMAIN dir : dir[k] \in 1 .. Len(files)
  /\ files \in Seq(FileType)
  /\ \A n \in 1 .. Len(files) : files[n].life <= life /\ files[n].disk <= End(files[n])
  /\ life \in 0 .. MaxRestarts

(* The constructor ends in RotateLog, with neither a writer nor a file.    *)
Init ==
  /\ pc = "close_writer"
  /\ next_log = 0
  /\ batches = 0
  /\ result = Idle
  /\ won = NothingWon
  /\ log = 0
  /\ dir = << >>
  /\ files = << >>
  /\ life = 0

-------------------------------------------------------------------------------
(* What the buffers may have let through of a log that is being written.   *)
MayReachDisk(f) == {[f EXCEPT !.disk = d] : d \in f.disk .. End(f)}

(* RotateLog, from its first line to its last: a crash may fall between    *)
(* any two of them.                                                        *)
(*                                                                         *)
(* The destructor of RecordWriter finishes the zlib stream, which hands    *)
(* everything to stdio; the bug is to drop the writer without closing it.  *)
BugFinish(f) == f

Finish(f) == [f EXCEPT !.finished = TRUE]

CloseWriter ==
  /\ pc = "close_writer"
  /\ IF log = 0 THEN UNCHANGED files
     ELSE \E f \in MayReachDisk(Finish(files[log])) : files' = [files EXCEPT ![log] = f]
  /\ pc' = "close_file"
  /\ UNCHANGED <<next_log, batches, result, won, log, dir, life>>

(* fclose writes all that stdio has to the file.                           *)
CloseFile ==
  /\ pc = "close_file"
  /\ IF log = 0 THEN UNCHANGED files
     ELSE \E f \in MayReachDisk(files[log]) :
            /\ f.finished => f.disk = End(f)
            /\ files' = [files EXCEPT ![log] = f]
  /\ log' = 0
  /\ pc' = "delete_old"
  /\ UNCHANGED <<next_log, batches, result, won, dir, life>>

(* A bug: the oldest file is kept one rotation too long.                   *)
BugOldLogs == IF next_log - MaxReplayFiles > 0 THEN {next_log - MaxReplayFiles - 1} ELSE {}

(* The file to delete; that there is none is only logged.                  *)
OldLogs == IF next_log - MaxReplayFiles >= 0 THEN {next_log - MaxReplayFiles} ELSE {}

DeleteOld ==
  /\ pc = "delete_old"
  /\ dir' = [k \in DOMAIN dir \ OldLogs |-> dir[k]]
  /\ pc' = "open_new"
  /\ UNCHANGED <<next_log, batches, result, won, log, files, life>>

(* fopen with "w": a file of that name is emptied, a new one made if there *)
(* is none.                                                                *)
OpenNew ==
  /\ pc = "open_new"
  /\ next_log < MaxLogs
  /\ IF next_log \in DOMAIN dir
     THEN /\ log' = dir[next_log]
          /\ files' = [files EXCEPT ![dir[next_log]] = EmptyFile]
          /\ UNCHANGED dir
     ELSE /\ log' = Len(files) + 1
          /\ files' = Append(files, EmptyFile)
          /\ dir' = [k \in DOMAIN dir \cup {next_log} |->
                        IF k = next_log THEN Len(files) + 1 ELSE dir[k]]
  /\ next_log' = next_log + 1
  /\ batches' = 0
  /\ pc' = "play"
  /\ UNCHANGED <<result, won, life>>

-------------------------------------------------------------------------------
(* PlayBatch starts its threads.  They share nothing but the generator of  *)
(* the seeds, which no property depends on.                                *)
StartBatch ==
  /\ pc = "play"
  /\ result' = [i \in Threads |-> "playing"]
  /\ pc' = "collect"
  /\ UNCHANGED <<next_log, batches, won, log, dir, files, life>>

GameEnds(i) ==
  /\ pc # "dead"
  /\ result[i] = "playing"
  /\ \E score \in Scores : result' = [result EXCEPT ![i] = score]
  /\ UNCHANGED <<pc, next_log, batches, won, log, dir, files, life>>

(* Adding 0.0f or 1.0f to a float counter.                                 *)
FloatAdd(x, y) == IF x >= FloatLimit THEN x ELSE x + y

(* A bug: both players are credited with the score.                        *)
BugCountScore(score) == [p \in Players |-> FloatAdd(won[p], IF score = "1.0" THEN 1 ELSE 0)]

CountScore(score) ==
  [p \in Players |->
     FloatAdd(won[p], IF (p = "FIRST") = (score = "1.0") THEN 1 ELSE 0)]

(* A bug: whichever game is over first is written first.                   *)
BugNextToTake(i) == result[i] \in Scores

(* A bug: each turn of the loop waits for all futures, those it has taken  *)
(* the result of included.                                                 *)
BugWaitForAll(i) == \A j \in Threads : result[j] \in Scores

(* The futures are waited for in the order the games were started.         *)
NextToTake(i) == result[i] \in Scores /\ \A j \in 1 .. (i - 1) : result[j] = "taken"

(* The number of game i of the current batch.                              *)
GameNumber(i) == ((next_log - 1) * BatchesPerLog + batches) * BatchSize + i

TakeResult(i) ==
  /\ pc = "collect"
  /\ NextToTake(i)
  /\ result' = [result EXCEPT ![i] = "taken"]
  /\ won' = CountScore(result[i])
  /\ \E f \in MayReachDisk([files[log] EXCEPT !.records = Append(@, <<life, GameNumber(i)>>)]) :
       files' = [files EXCEPT ![log] = f]
  /\ pc' = IF \A j \in Threads : result'[j] = "taken" THEN "flush" ELSE "collect"
  /\ UNCHANGED <<next_log, batches, log, dir, life>>

(* The bug is to play one batch too many for a log.                        *)
BugLogIsFull(n) == n > BatchesPerLog

LogIsFull(n) == n = BatchesPerLog

(* Flush: zlib compresses what it has been given and hands on what came    *)
(* out, but with Z_NO_FLUSH it may keep some back, and stdio is not        *)
(* flushed at all.  Back in SelfPlay, a full log is rotated.               *)
Flush ==
  /\ pc = "flush"
  /\ \E f \in MayReachDisk(files[log]) : files' = [files EXCEPT ![log] = f]
  /\ batches' = batches + 1
  /\ pc' = IF LogIsFull(batches') THEN "close_writer" ELSE "play"
  /\ UNCHANGED <<next_log, result, won, log, dir, life>>

-------------------------------------------------------------------------------
(* The process dies, and with it what was in its buffers and counters; the *)
(* model remembers which log it was writing.                               *)
OnlyDisk(f) == [f EXCEPT !.records = SubSeq(@, 1, (f.disk + 1) \div 2)]

Die ==
  /\ pc # "dead"
  /\ pc' = "dead"
  /\ result' = Idle
  /\ files' = IF log = 0 THEN files ELSE [files EXCEPT ![log] = OnlyDisk(@)]
  /\ batches' = 0
  /\ won' = NothingWon
  /\ UNCHANGED <<next_log, log, dir, life>>

(* The process is started again: the directory is as it was, next_log_     *)
(* starts from 0.                                                          *)
Restart ==
  /\ pc = "dead"
  /\ life < MaxRestarts
  /\ life' = life + 1
  /\ pc' = "close_writer"
  /\ next_log' = 0
  /\ log' = 0
  /\ UNCHANGED <<batches, result, won, dir, files>>

RotateLog == CloseWriter \/ CloseFile \/ DeleteOld \/ OpenNew

PlayBatch == StartBatch \/ (\E i \in Threads : TakeResult(i)) \/ Flush

Next == RotateLog \/ PlayBatch \/ (\E i \in Threads : GameEnds(i)) \/ Die \/ Restart

(* The main thread runs, and so does every game to its end (CallEnds of    *)
(* PlayGame).  Nothing makes the process die or come back.                 *)
Fairness ==
  /\ WF_vars(RotateLog \/ PlayBatch)
  /\ \A i \in Threads : WF_vars(GameEnds(i))

Spec == Init /\ [][Next]_vars /\ Fairness

-------------------------------------------------------------------------------
(* RotateLog: of the logs any one run of the process has written there are *)
(* never more than max_replay_files in the directory, neither while it     *)
(* runs nor after it died, nor when a later run has emptied some of them.  *)
RunKeepsMaxReplayFiles ==
  \A l \in 0 .. life :
    Cardinality({k \in DOMAIN dir : files[dir[k]].life = l}) <= MaxReplayFiles

(* The flag max_replay_files, "Maximum number of log files."  A process    *)
(* that is started again counts from 0, and leaves alone the logs its      *)
(* predecessor left above its own.                                         *)
MaximumNumberOfLogFiles == Cardinality(DOMAIN dir) <= MaxReplayFiles

(* The games of log k of a run of the process, and whether a file has them *)
(* all on the disk.                                                        *)
GamesOfLog(l, k) ==
  [n \in 1 .. (BatchesPerLog * BatchSize) |-> <<l, k * BatchesPerLog * BatchSize + n>>]

IsWhole(k) ==
  LET f == files[dir[k]] IN f.records = GamesOfLog(f.life, k) /\ f.disk = End(f)

(* The newest max_replay_files logs of this run, without the oldest of     *)
(* them once RotateLog has deleted it and not yet opened another.          *)
LogsKept ==
  IF pc = "open_new" \/ (pc = "dead" /\ log = 0) THEN MaxReplayFiles - 1 ELSE MaxReplayFiles

(* RotateLog and PlayBatch: the newest max_replay_files logs of a process  *)
(* are there (LogsKept), and each that it has closed holds all the games   *)
(* of its batches, in the order they were started, down to the disk:       *)
(* nothing is left in a buffer, and it does not matter which game was over *)
(* first.                                                                  *)
ClosedLogsAreWhole ==
  \A k \in 0 .. (next_log - 1) :
    k >= next_log - LogsKept =>
      /\ k \in DOMAIN dir
      /\ files[dir[k]].life = life
      /\ dir[k] # log => IsWhole(k)

(* A log that is not whole is the one being written, or one that was being *)
(* written when a process died: each run of the process leaves one at most.*)
CrashTearsOneLog ==
  \A l \in 0 .. life :
    Cardinality({k \in DOMAIN dir : files[dir[k]].life = l /\ ~IsWhole(k)}) <= 1

(* PrintStats: the two counters never claim more games than this run has   *)
(* written, in all its logs; they claim fewer only when one of them has    *)
(* reached the float that 1.0f is lost on.                                 *)
CountersCountGames ==
  LET counted == won["FIRST"] + won["SECOND"]
      written == IF log = 0 THEN next_log * BatchesPerLog * BatchSize
                 ELSE (next_log - 1) * BatchesPerLog * BatchSize + Len(files[log].records)
  IN pc # "dead" =>
       /\ counted <= written
       /\ counted < written => \E p \in Players : won[p] = FloatLimit

Saved ==
  \A n \in 1 .. Len(files) : files[n].life = life => files[n].disk = End(files[n])

(* Recordings do not stay in a buffer: although Flush does not see to it,  *)
(* all that this run of the process has written is on the disk at some     *)
(* later time, if the process lives to rotate the log.                     *)
RecordingsReachDisk == ~Saved ~> (pc = "dead" \/ Saved)
===============================================================================
