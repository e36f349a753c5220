---------------------------- MODULE SelfPlayProofs ----------------------------
(***************************************************************************)
(* Theorems about the self-play process, and about a training run beside   *)
(* it, for every batch size, number of batches per log, max_replay_files,  *)
(* float limit, and for every number of logs and restarts.                 *)
(*                                                                         *)
(* None of the properties is inductive.  What is needed on top of them:    *)
(* which log numbers the directory has (DirInv), that the file behind      *)
(* file_ is the newest of them (WriterInv), which logs may be torn         *)
(* (TornInv), and how far each stage of PlayBatch has got with the log     *)
(* being written (ProgressInv), from which it follows that a log is full   *)
(* and whole when RotateLog closes it.                                     *)
(*                                                                         *)
(* The reader of a training run never writes, so SelfPlayInv holds beside  *)
(* it.  That invariant speaks of the logs in the directory; the reader may *)
(* have a file open that was unlinked, so ClosedFilesInv says of every     *)
(* file, named or not, that all its games are on the disk once it was      *)
(* closed.  What the reader knows of its file (WorkInv) lasts because a    *)
(* file only grows until another process empties it (FilesGrow).           *)
(***************************************************************************)
EXTENDS Training, FiniteSetTheorems, SequenceTheorems, TLAPS

(* The run of the process that wrote log k.                                *)
LifeOf(k) == files[dir[k]].life

GamesPerLog == BatchesPerLog * BatchSize

(* The directory: no two logs are the same file; the logs of this process  *)
(* are among its last MaxReplayFiles, and those that LogsKept counts are   *)
(* there; the logs a dead process left are as close together.              *)
DirInv ==
  /\ \A k, m \in DOMAIN dir : dir[k] = dir[m] => k = m
  /\ \A k \in DOMAIN dir : LifeOf(k) = life =>
       /\ next_log - MaxReplayFiles <= k /\ k < next_log
       /\ pc = "open_new" => next_log - MaxReplayFiles < k
  /\ \A k, m \in DOMAIN dir : LifeOf(k) = LifeOf(m) => k - m < MaxReplayFiles
  /\ \A k \in 0 .. (next_log - 1) :
       k >= next_log - LogsKept => k \in DOMAIN dir /\ LifeOf(k) = life

(* The file behind file_ is the newest log.                                *)
WriterInv ==
  /\ pc \in {"play", "collect", "flush"} => log # 0
  /\ pc \in {"delete_old", "open_new"} => log = 0
  /\ log # 0 => /\ next_log - 1 \in DOMAIN dir
                /\ dir[next_log - 1] = log
                /\ files[log].life = life

(* A log of this process that is not whole is the one being written, and a *)
(* process that died left one of them at most.                             *)
TornInv ==
  /\ \A k \in DOMAIN dir : LifeOf(k) = life /\ ~IsWhole(k) => dir[k] = log
  /\ \A k, m \in DOMAIN dir :
       LifeOf(k) = LifeOf(m) /\ ~IsWhole(k) /\ ~IsWhole(m) => k = m

(* The records of the log being written are the next games, in order, as   *)
(* many as PlayBatch has got to: TakenOfBatch of the current batch.        *)
RecordsInLog == Len(files[log].records)

TakenOfBatch == RecordsInLog - batches * BatchSize

ProgressInv ==
  pc # "dead" /\ log # 0 =>
    /\ \A n \in 1 .. RecordsInLog :
         files[log].records[n] = <<life, (next_log - 1) * GamesPerLog + n>>
    /\ pc \in {"close_writer", "close_file"} => RecordsInLog = GamesPerLog
    /\ pc = "close_file" => files[log].finished
    /\ pc = "play" => batches < BatchesPerLog /\ RecordsInLog = batches * BatchSize
    /\ pc = "collect" =>
         /\ batches < BatchesPerLog
         /\ TakenOfBatch \in 0 .. (BatchSize - 1)
         /\ \A i \in Threads : result[i] = "taken" <=> i <= TakenOfBatch
    /\ pc = "flush" => batches < BatchesPerLog /\ RecordsInLog = (batches + 1) * BatchSize

CounterInv == CountersCountGames /\ (pc = "dead" => won = NothingWon)

SelfPlayInv == TypeOK /\ DirInv /\ WriterInv /\ TornInv /\ ProgressInv /\ CounterInv
-------------------------------------------------------------------------------
(* Facts about files.                                                      *)
LEMMA FileFacts ==
  ASSUME NEW f \in FileType
  PROVE  /\ f.life \in Nat /\ f.disk \in Nat /\ f.finished \in BOOLEAN
         /\ f.records \in Seq(Nat \X Nat)
         /\ Len(f.records) \in Nat
         /\ End(f) = 2 * Len(f.records)
<1>1. f.records \in Seq(Nat \X Nat)
  BY DEF FileType
<1>2. Len(f.records) \in Nat
  BY <1>1, LenProperties
<1> QED
  BY <1>1, <1>2 DEF FileType, End

LEMMA BuffersKeepRecords ==
  ASSUME NEW g \in FileType, g.disk <= End(g), NEW f \in MayReachDisk(g)
  PROVE  /\ f \in FileType
         /\ f.life = g.life /\ f.records = g.records /\ f.finished = g.finished
         /\ f.disk <= End(f)
         /\ g.disk <= f.disk
<1>1. g.disk \in Nat /\ End(g) \in Nat
  BY FileFacts
<1>2. PICK d \in g.disk .. End(g) : f = [g EXCEPT !.disk = d]
  BY DEF MayReachDisk
<1>3. d \in Nat
  BY <1>1, <1>2
<1>4. f \in FileType /\ f.disk = d
  BY <1>2, <1>3, Zenon DEF FileType
<1>5. f.life = g.life /\ f.records = g.records /\ f.finished = g.finished
  BY <1>2 DEF FileType
<1>6. End(f) = End(g)
  BY <1>5 DEF End
<1> QED
  BY <1>1, <1>2, <1>4, <1>5, <1>6

LEMMA LogIsAFile ==
  ASSUME TypeOK, log # 0
  PROVE  /\ log \in 1 .. Len(files) /\ Len(files) \in Nat
         /\ files[log] \in FileType
         /\ files[log].disk <= End(files[log])
<1>1. Len(files) \in Nat
  BY LenProperties DEF TypeOK
<1>2. log \in 1 .. Len(files)
  BY <1>1 DEF TypeOK
<1> QED
  BY <1>1, <1>2, ElementOfSeq DEF TypeOK

(* What an update of the log being written leaves as it was.               *)
LEMMA LogUpdated ==
  ASSUME TypeOK, log # 0, NEW f \in FileType,
         f.life = files[log].life, f.disk <= End(f),
         files' = [files EXCEPT ![log] = f], dir' = dir, life' = life
  PROVE  /\ files' \in Seq(FileType)
         /\ Len(files') = Len(files)
         /\ files'[log] = f
         /\ \A n \in 1 .. Len(files)' :
              files'[n].life <= life' /\ files'[n].disk <= End(files'[n])
         /\ \A k \in DOMAIN dir : LifeOf(k)' = LifeOf(k)
         /\ \A k \in DOMAIN dir : dir[k] # log => IsWhole(k)' = IsWhole(k)
<1>1. log \in 1 .. Len(files)
  BY LogIsAFile
<1>2. files \in Seq(FileType)
  BY DEF TypeOK
<1>3. /\ files' \in Seq(FileType)
      /\ Len(files') = Len(files)
      /\ \A n \in 1 .. Len(files) : files'[n] = IF n = log THEN f ELSE files[n]
  BY <1>1, <1>2, ExceptSeq
<1>4. \A n \in 1 .. Len(files) : files'[n].life = files[n].life
  BY <1>3
<1>5. \A k \in DOMAIN dir : dir[k] \in 1 .. Len(files)
  BY DEF TypeOK
<1>6. \A k \in DOMAIN dir : LifeOf(k)' = LifeOf(k)
  BY <1>4, <1>5 DEF LifeOf
<1>7. \A k \in DOMAIN dir : dir[k] # log => IsWhole(k)' = IsWhole(k)
  <2> SUFFICES ASSUME NEW k \in DOMAIN dir, dir[k] # log
               PROVE  IsWhole(k)' = IsWhole(k)
    OBVIOUS
  <2>1. files'[dir'[k]] = files[dir[k]]
    BY <1>3, <1>5
  <2> QED
    BY <2>1 DEF IsWhole, GamesOfLog, End
<1>8. \A n \in 1 .. Len(files)' :
        files'[n].life <= life' /\ files'[n].disk <= End(files'[n])
  <2> SUFFICES ASSUME NEW n \in 1 .. Len(files)
               PROVE  files'[n].life <= life /\ files'[n].disk <= End(files'[n])
    BY <1>3
  <2>1. files[n].life <= life /\ files[n].disk <= End(files[n])
    BY DEF TypeOK
  <2> QED
    BY <2>1, <1>3, <1>4
<1> QED
  BY <1>1, <1>3, <1>6, <1>7, <1>8

(* An update of the log being written keeps the directory in order.        *)
LEMMA LogUpdateKeepsOrder ==
  ASSUME TypeOK, DirInv, WriterInv, TornInv, log # 0, NEW f \in FileType,
         f.life = files[log].life, f.disk <= End(f),
         files' = [files EXCEPT ![log] = f],
         UNCHANGED <<dir, life, log, next_log>>,
         pc' \notin {"delete_old", "open_new"}
  PROVE  DirInv' /\ WriterInv' /\ TornInv'
<1>1. /\ \A k \in DOMAIN dir : LifeOf(k)' = LifeOf(k)
      /\ \A k \in DOMAIN dir : dir[k] # log => IsWhole(k)' = IsWhole(k)
      /\ files'[log] = f
  BY LogUpdated, Zenon
<1>2. DirInv'
  <2>1. \A k, m \in DOMAIN dir' : dir'[k] = dir'[m] => k = m
    BY DEF DirInv
  <2>2. \A k \in DOMAIN dir' : LifeOf(k)' = life' =>
          /\ next_log' - MaxReplayFiles <= k /\ k < next_log'
          /\ pc' = "open_new" => next_log' - MaxReplayFiles < k
    BY <1>1 DEF DirInv
  <2>3. \A k, m \in DOMAIN dir' : LifeOf(k)' = LifeOf(m)' => k - m < MaxReplayFiles
    BY <1>1 DEF DirInv
  <2>4. LogsKept' = LogsKept
    BY DEF LogsKept, WriterInv
  <2>5. \A k \in 0 .. (next_log' - 1) :
          k >= next_log' - LogsKept' => k \in DOMAIN dir' /\ LifeOf(k)' = life'
    BY <1>1, <2>4 DEF DirInv
  <2> QED
    BY <2>1, <2>2, <2>3, <2>5 DEF DirInv
<1>3. WriterInv'
  BY <1>1 DEF WriterInv
<1>4. TornInv'
  <2>1. \A k \in DOMAIN dir : LifeOf(k)' = life /\ ~IsWhole(k)' => dir[k] = log
    BY <1>1 DEF TornInv
  <2>2. ASSUME NEW k \in DOMAIN dir, NEW m \in DOMAIN dir,
               LifeOf(k)' = LifeOf(m)', ~IsWhole(k)', ~IsWhole(m)'
        PROVE  k = m
    <3>1. CASE dir[k] # log /\ dir[m] # log
      BY <1>1, <2>2, <3>1 DEF TornInv
    <3>2. CASE dir[k] = log \/ dir[m] = log
      <4>1. LifeOf(k) = life /\ LifeOf(m) = life
        BY <1>1, <2>2, <3>2 DEF WriterInv, LifeOf
      <4>2. dir[k] = log /\ dir[m] = log
        BY <1>1, <2>1, <2>2, <4>1
      <4> QED
        BY <4>2 DEF DirInv
    <3> QED
      BY <3>1, <3>2
  <2>3. \A k, m \in DOMAIN dir :
          LifeOf(k)' = LifeOf(m)' /\ ~IsWhole(k)' /\ ~IsWhole(m)' => k = m
    BY <2>2
  <2> QED
    BY <2>1, <2>3 DEF TornInv
<1> QED
  BY <1>2, <1>3, <1>4

(* A step that touches neither the files nor the directory.                *)
LEMMA FilesUntouchedKeepsOrder ==
  ASSUME TypeOK, DirInv, TornInv, UNCHANGED <<files, dir, life, log, next_log>>,
         pc' = "open_new" => pc = "open_new",
         pc \in {"open_new", "dead"} => pc' = pc \/ (pc' = "dead" /\ log = 0)
  PROVE  DirInv' /\ TornInv'
<1>1. \A k : LifeOf(k)' = LifeOf(k) /\ IsWhole(k)' = IsWhole(k)
  BY DEF LifeOf, IsWhole, GamesOfLog, End
<1>2. DirInv'
  <2>1. next_log \in Int /\ LogsKept \in Int /\ LogsKept' \in Int /\ LogsKept' <= LogsKept
    BY SelfPlayAssumption DEF LogsKept, TypeOK
  <2>2. \A k \in 0 .. (next_log - 1) :
          k >= next_log - LogsKept' => k \in DOMAIN dir' /\ LifeOf(k)' = life'
    <3> SUFFICES ASSUME NEW k \in 0 .. (next_log - 1), k >= next_log - LogsKept'
                 PROVE  k \in DOMAIN dir' /\ LifeOf(k)' = life'
      OBVIOUS
    <3>1. k >= next_log - LogsKept
      <4>1. \A j, n, x, y \in Int : j >= n - x /\ x <= y => j >= n - y
        OBVIOUS
      <4>2. k \in Int
        BY <2>1
      <4> QED
        BY <2>1, <4>1, <4>2, Zenon
    <3>2. k \in DOMAIN dir /\ LifeOf(k) = life
      BY <3>1 DEF DirInv
    <3> QED
      BY <1>1, <3>2
  <2> QED
    BY <1>1, <2>2 DEF DirInv
<1>3. TornInv'
  BY <1>1 DEF TornInv
<1> QED
  BY <1>2, <1>3

(* Counting the games of a log by batches.                                 *)
LEMMA GameCounts ==
  /\ GamesPerLog \in Nat \ {0}
  /\ BatchesPerLog * BatchSize = GamesPerLog
  /\ \A k \in Int : k * BatchesPerLog * BatchSize = k * GamesPerLog
  /\ \A k \in Int : k * GamesPerLog \in Int
  /\ \A k \in Nat : k * GamesPerLog \in Nat
  /\ \A k \in Int : (k - 1) * GamesPerLog + GamesPerLog = k * GamesPerLog
  /\ \A k \in Int, b \in Int :
       (k * BatchesPerLog + b) * BatchSize = k * GamesPerLog + b * BatchSize
  /\ \A b \in Int : (b + 1) * BatchSize = b * BatchSize + BatchSize
  /\ \A b \in Nat : b * BatchSize \in Nat
<1> BatchSize \in Nat \ {0} /\ BatchesPerLog \in Nat \ {0}
  BY SelfPlayAssumption
<1>1. GamesPerLog \in Nat \ {0}
  BY DEF GamesPerLog
<1>2. \A k \in Int : k * BatchesPerLog * BatchSize = k * GamesPerLog
  BY DEF GamesPerLog
<1>3. \A k \in Int, b \in Int :
        (k * BatchesPerLog + b) * BatchSize = k * GamesPerLog + b * BatchSize
  <2> SUFFICES ASSUME NEW k \in Int, NEW b \in Int
               PROVE  (k * BatchesPerLog + b) * BatchSize
                        = k * GamesPerLog + b * BatchSize
    OBVIOUS
  <2>1. k * BatchesPerLog \in Int
    OBVIOUS
  <2>2. \A x \in Int, y \in Int : (x + y) * BatchSize = x * BatchSize + y * BatchSize
    OBVIOUS
  <2> QED
    BY <1>2, <2>1, <2>2
<1>4. /\ \A k \in Int : k * GamesPerLog \in Int
      /\ \A k \in Nat : k * GamesPerLog \in Nat
  BY <1>1
<1>5. \A k \in Int : (k - 1) * GamesPerLog + GamesPerLog = k * GamesPerLog
  BY <1>1
<1>6. \A b \in Int : (b + 1) * BatchSize = b * BatchSize + BatchSize
  OBVIOUS
<1>7. \A b \in Nat : b * BatchSize \in Nat
  OBVIOUS
<1> QED
  BY <1>1, <1>2, <1>3, <1>4, <1>5, <1>6, <1>7 DEF GamesPerLog

(* The games PlayBatch has counted.                                        *)
GamesWritten ==
  IF log = 0 THEN next_log * GamesPerLog
  ELSE (next_log - 1) * GamesPerLog + Len(files[log].records)

(* What CountersCountGames says of the counters w after n games.           *)
Tally(w, n) ==
  /\ w["FIRST"] + w["SECOND"] <= n
  /\ w["FIRST"] + w["SECOND"] < n => \E p \in Players : w[p] = FloatLimit

LEMMA CountersAgree ==
  ASSUME next_log \in Int
  PROVE  CountersCountGames <=> (pc # "dead" => Tally(won, GamesWritten))
<1>1. next_log * BatchesPerLog * BatchSize = next_log * GamesPerLog
  BY GameCounts
<1>2. (next_log - 1) * BatchesPerLog * BatchSize = (next_log - 1) * GamesPerLog
  BY GameCounts
<1> QED
  BY <1>1, <1>2 DEF CountersCountGames, GamesWritten, Tally

LEMMA CountersAgreeNext ==
  ASSUME TypeOK'
  PROVE  CountersCountGames' <=> (pc' # "dead" => Tally(won', GamesWritten'))
<1>0. next_log' \in Int
  BY DEF TypeOK
<1>1. next_log' * BatchesPerLog * BatchSize = next_log' * GamesPerLog
  BY <1>0, GameCounts
<1>2. (next_log' - 1) * BatchesPerLog * BatchSize = (next_log' - 1) * GamesPerLog
  BY <1>0, GameCounts
<1> QED
  BY <1>1, <1>2 DEF CountersCountGames, GamesWritten, GamesPerLog, Tally

-------------------------------------------------------------------------------
(* The invariant holds initially, and every action keeps it.               *)
LEMMA InvInit == Init => SelfPlayInv
<1> SUFFICES ASSUME Init PROVE SelfPlayInv
  OBVIOUS
<1> USE SelfPlayAssumption DEF Init
<1>1. TypeOK
  <2>1. result \in [Threads -> {"playing", "taken"} \cup Scores]
    BY DEF Idle
  <2>2. won \in [Players -> 0 .. FloatLimit]
    BY DEF NothingWon
  <2>3. files \in Seq(FileType) /\ Len(files) = 0
    BY EmptySeq
  <2>4. DOMAIN dir = {}
    OBVIOUS
  <2> QED
    BY <2>1, <2>2, <2>3, <2>4 DEF TypeOK
<1>2. DOMAIN dir = {}
  OBVIOUS
<1>3. DirInv /\ WriterInv /\ TornInv /\ ProgressInv
  BY <1>2 DEF DirInv, WriterInv, TornInv, ProgressInv
<1>4. CounterInv
  <2>1. GamesWritten = 0
    BY GameCounts DEF GamesWritten
  <2>2. won["FIRST"] + won["SECOND"] = 0
    BY DEF NothingWon, Players
  <2> QED
    BY <2>1, <2>2, CountersAgree DEF CounterInv, Tally
<1> QED
  BY <1>1, <1>3, <1>4 DEF SelfPlayInv

LEMMA CloseWriterKeepsInv ==
  ASSUME SelfPlayInv, CloseWriter
  PROVE  SelfPlayInv'
<1> USE DEF SelfPlayInv
<1>1. CASE log = 0
  <2>1. UNCHANGED <<files, next_log, batches, result, won, log, dir, life>> /\ pc' = "close_file"
           /\ pc = "close_writer"
    BY <1>1 DEF CloseWriter
  <2>2. TypeOK'
    BY <2>1 DEF TypeOK
  <2>3. DirInv' /\ TornInv'
    BY <2>1, FilesUntouchedKeepsOrder
  <2>4. WriterInv' /\ ProgressInv'
    BY <1>1, <2>1 DEF WriterInv, ProgressInv
  <2>5. CounterInv'
    BY <2>1 DEF CounterInv, CountersCountGames, CloseWriter
  <2> QED
    BY <2>2, <2>3, <2>4, <2>5
<1>2. CASE log # 0
  <2> DEFINE g == Finish(files[log])
  <2>1. PICK f \in MayReachDisk(g) : files' = [files EXCEPT ![log] = f]
    BY <1>2 DEF CloseWriter
  <2>2. /\ g \in FileType /\ g.disk <= End(g) /\ g.finished
        /\ g.life = files[log].life /\ g.records = files[log].records
    BY <1>2, LogIsAFile, Zenon DEF Finish, FileType, End
  <2>3. /\ f \in FileType /\ f.disk <= End(f) /\ f.finished
        /\ f.life = files[log].life /\ f.records = files[log].records
    BY <2>2, BuffersKeepRecords
  <2>4. UNCHANGED <<next_log, batches, result, won, log, dir, life>> /\ pc' = "close_file"
           /\ pc = "close_writer"
    BY DEF CloseWriter
  <2>5. /\ files' \in Seq(FileType) /\ Len(files') = Len(files) /\ files'[log] = f
        /\ \A n \in 1 .. Len(files)' :
             files'[n].life <= life' /\ files'[n].disk <= End(files'[n])
    BY <1>2, <2>1, <2>3, <2>4, LogUpdated, Zenon
  <2>6. TypeOK'
    BY <2>4, <2>5 DEF TypeOK
  <2>7. DirInv' /\ WriterInv' /\ TornInv'
    BY <1>2, <2>1, <2>3, <2>4, LogUpdateKeepsOrder, Zenon
  <2>8. ProgressInv'
    BY <1>2, <2>3, <2>4, <2>5 DEF ProgressInv, RecordsInLog
  <2>9. CounterInv'
    BY <1>2, <2>3, <2>4, <2>5 DEF CounterInv, CountersCountGames
  <2> QED
    BY <2>6, <2>7, <2>8, <2>9
<1> QED
  BY <1>1, <1>2

LEMMA CloseFileKeepsInv ==
  ASSUME SelfPlayInv, CloseFile
  PROVE  SelfPlayInv'
<1> USE DEF SelfPlayInv
<1>0. /\ UNCHANGED <<next_log, batches, result, won, dir, life>>
      /\ pc = "close_file" /\ pc' = "delete_old" /\ log' = 0
  BY DEF CloseFile
<1>1. CASE log = 0
  <2>1. UNCHANGED <<files, log>>
    BY <1>0, <1>1 DEF CloseFile
  <2>2. TypeOK'
    BY <1>0, <2>1 DEF TypeOK
  <2>3. DirInv' /\ TornInv'
    BY <1>0, <2>1, FilesUntouchedKeepsOrder
  <2>4. WriterInv' /\ ProgressInv'
    BY <1>0 DEF WriterInv, ProgressInv
  <2>5. CounterInv'
    BY <1>0, <2>1 DEF CounterInv, CountersCountGames
  <2> QED
    BY <2>2, <2>3, <2>4, <2>5
<1>2. CASE log # 0
  <2>1. PICK f \in MayReachDisk(files[log]) :
          (f.finished => f.disk = End(f)) /\ files' = [files EXCEPT ![log] = f]
    BY <1>2 DEF CloseFile
  <2>2. files[log] \in FileType /\ files[log].disk <= End(files[log]) /\ files[log].finished
    BY <1>0, <1>2, LogIsAFile DEF ProgressInv
  <2>3. /\ f \in FileType /\ f.disk = End(f) /\ f.disk <= End(f)
        /\ f.life = files[log].life /\ f.records = files[log].records
    BY <2>1, <2>2, BuffersKeepRecords
  <2>4. /\ files' \in Seq(FileType) /\ Len(files') = Len(files) /\ files'[log] = f
        /\ \A n \in 1 .. Len(files)' :
             files'[n].life <= life' /\ files'[n].disk <= End(files'[n])
        /\ \A k \in DOMAIN dir : LifeOf(k)' = LifeOf(k)
        /\ \A k \in DOMAIN dir : dir[k] # log => IsWhole(k)' = IsWhole(k)
    BY <1>0, <1>2, <2>1, <2>3, LogUpdated, Zenon
  <2>5. TypeOK'
    <3>1. log' \in 0 .. Len(files')
      BY <1>0, <1>2, <2>4, LogIsAFile
    <3> QED
      BY <1>0, <2>4, <3>1 DEF TypeOK
  <2>6. DirInv'
    <3>1. LogsKept' = LogsKept
      BY <1>0 DEF LogsKept
    <3> QED
      BY <1>0, <2>4, <3>1 DEF DirInv
  <2>7. WriterInv' /\ ProgressInv'
    BY <1>0 DEF WriterInv, ProgressInv
  <2>8. next_log - 1 \in DOMAIN dir /\ dir[next_log - 1] = log /\ files[log].life = life
           /\ next_log \in Int
    BY <1>2 DEF WriterInv, TypeOK
  <2>9. IsWhole(next_log - 1)'
    <3>1. /\ Len(f.records) = GamesPerLog
          /\ \A n \in 1 .. GamesPerLog :
               f.records[n] = <<f.life, (next_log - 1) * GamesPerLog + n>>
      BY <1>0, <1>2, <2>3, <2>8 DEF ProgressInv, RecordsInLog
    <3>2. f.records = [n \in 1 .. GamesPerLog |-> f.records[n]]
      BY <2>3, <3>1, FileFacts, LenProperties, Zenon
    <3>3. GamesOfLog(f.life, next_log - 1)
            = [n \in 1 .. GamesPerLog |-> <<f.life, (next_log - 1) * GamesPerLog + n>>]
      BY <2>8, GameCounts DEF GamesOfLog
    <3>4. f.records = GamesOfLog(f.life, next_log - 1)
      BY <3>1, <3>2, <3>3, Zenon
    <3>5. files'[dir'[next_log - 1]] = f
      BY <1>0, <2>4, <2>8
    <3> QED
      BY <1>0, <2>3, <3>4, <3>5, Zenon DEF IsWhole, GamesOfLog, End
  <2>10. \A k \in DOMAIN dir : ~IsWhole(k)' => dir[k] # log /\ ~IsWhole(k)
    <3>1. \A k \in DOMAIN dir : dir[k] = log => k = next_log - 1
      BY <2>8 DEF DirInv
    <3>2. \A k \in DOMAIN dir : k = next_log - 1 => IsWhole(k)'
      BY <1>0, <2>9
    <3> QED
      BY <2>4, <3>1, <3>2
  <2>11. TornInv'
    <3>1. \A k \in DOMAIN dir : ~(LifeOf(k)' = life /\ ~IsWhole(k)')
      BY <2>4, <2>10 DEF TornInv
    <3>2. \A k, m \in DOMAIN dir :
            LifeOf(k)' = LifeOf(m)' /\ ~IsWhole(k)' /\ ~IsWhole(m)' => k = m
      BY <2>4, <2>10 DEF TornInv
    <3> QED
      BY <1>0, <3>1, <3>2 DEF TornInv
  <2>12. CounterInv'
    <3>1. GamesWritten' = GamesWritten
      <4>1. GamesWritten = (next_log - 1) * GamesPerLog + GamesPerLog
        BY <1>0, <1>2 DEF GamesWritten, ProgressInv, RecordsInLog
      <4>2. GamesWritten' = next_log * GamesPerLog
        BY <1>0 DEF GamesWritten, GamesPerLog
      <4> QED
        BY <2>8, <4>1, <4>2, GameCounts
    <3>2. Tally(won, GamesWritten)
      BY <1>0, <2>8, CountersAgree DEF CounterInv
    <3>3. CountersCountGames' <=> (pc' # "dead" => Tally(won', GamesWritten'))
      BY <2>5, CountersAgreeNext
    <3> QED
      BY <1>0, <3>1, <3>2, <3>3 DEF CounterInv
  <2> QED
    BY <2>5, <2>6, <2>7, <2>11, <2>12
<1> QED
  BY <1>1, <1>2

LEMMA DeleteOldKeepsInv ==
  ASSUME SelfPlayInv, DeleteOld
  PROVE  SelfPlayInv'
<1> USE SelfPlayAssumption DEF SelfPlayInv
<1>0. /\ UNCHANGED <<next_log, batches, result, won, log, files, life>>
      /\ pc = "delete_old" /\ pc' = "open_new"
  BY DEF DeleteOld
<1>1. log = 0
  BY <1>0 DEF WriterInv
<1>2. /\ DOMAIN dir' = DOMAIN dir \ OldLogs
      /\ \A k \in DOMAIN dir' : k \in DOMAIN dir /\ dir'[k] = dir[k]
  BY DEF DeleteOld
<1>3. TypeOK'
  BY <1>0, <1>2 DEF TypeOK
<1>4. \A k \in DOMAIN dir' : LifeOf(k)' = LifeOf(k) /\ IsWhole(k)' = IsWhole(k)
  BY <1>0, <1>2, Zenon DEF LifeOf, IsWhole, GamesOfLog, End
<1>5. next_log \in Int /\ DOMAIN dir \subseteq Nat
  BY DEF TypeOK
<1>6. DirInv'
  <2>1. \A k, m \in DOMAIN dir' : dir'[k] = dir'[m] => k = m
    BY <1>2 DEF DirInv
  <2>2. \A k \in DOMAIN dir' : LifeOf(k)' = life' =>
          next_log - MaxReplayFiles < k /\ k < next_log
    BY <1>0, <1>2, <1>4, <1>5 DEF DirInv, OldLogs
  <2>3. \A k, m \in DOMAIN dir' : LifeOf(k)' = LifeOf(m)' => k - m < MaxReplayFiles
    BY <1>2, <1>4 DEF DirInv
  <2>4. \A k \in 0 .. (next_log' - 1) :
          k >= next_log' - LogsKept' => k \in DOMAIN dir' /\ LifeOf(k)' = life'
    <3>1. LogsKept = MaxReplayFiles /\ LogsKept' = MaxReplayFiles - 1
      BY <1>0 DEF LogsKept
    <3> QED
      BY <1>0, <1>2, <1>4, <1>5, <3>1 DEF DirInv, OldLogs
  <2> QED
    BY <1>0, <1>2, <1>5, <2>1, <2>2, <2>3, <2>4 DEF DirInv
<1>7. TornInv'
  BY <1>0, <1>2, <1>4 DEF TornInv
<1>8. WriterInv' /\ ProgressInv'
  BY <1>0, <1>1 DEF WriterInv, ProgressInv
<1>9. CounterInv'
  BY <1>0 DEF CounterInv, CountersCountGames
<1> QED
  BY <1>3, <1>6, <1>7, <1>8, <1>9

(* After fopen the new log is an empty file of this process, and nothing   *)
(* else in the directory has changed.                                      *)
LEMMA NewLog ==
  ASSUME SelfPlayInv, OpenNew
  PROVE  /\ files' \in Seq(FileType)
         /\ log' \in 1 .. Len(files') /\ files'[log'] = EmptyFile
         /\ DOMAIN dir' = DOMAIN dir \cup {next_log} /\ dir'[next_log] = log'
         /\ \A k \in DOMAIN dir : k # next_log =>
              /\ dir'[k] = dir[k] /\ dir[k] # log'
              /\ files'[dir[k]] = files[dir[k]]
         /\ \A k \in DOMAIN dir' : dir'[k] \in 1 .. Len(files')
         /\ \A n \in 1 .. Len(files') :
              files'[n].life <= life /\ files'[n].disk <= End(files'[n])
<1> USE DEF SelfPlayInv
<1>0. files \in Seq(FileType) /\ Len(files) \in Nat /\ life \in Nat
  BY LenProperties DEF TypeOK
<1>1. EmptyFile \in FileType /\ EmptyFile.life = life /\ EmptyFile.disk = 0
  BY <1>0, EmptySeq DEF EmptyFile, FileType
<1>2. EmptyFile.life <= life /\ EmptyFile.disk <= End(EmptyFile)
  BY <1>0, <1>1, FileFacts
<1>3. \A n \in 1 .. Len(files) : files[n].life <= life /\ files[n].disk <= End(files[n])
  BY DEF TypeOK
<1>4. \A k \in DOMAIN dir : dir[k] \in 1 .. Len(files)
  BY DEF TypeOK
<1>5. CASE next_log \in DOMAIN dir
  <2>1. log' = dir[next_log] /\ files' = [files EXCEPT ![dir[next_log]] = EmptyFile]
           /\ dir' = dir
    BY <1>5 DEF OpenNew
  <2>2. /\ files' \in Seq(FileType) /\ Len(files') = Len(files)
        /\ \A n \in 1 .. Len(files) :
             files'[n] = IF n = dir[next_log] THEN EmptyFile ELSE files[n]
    BY <1>0, <1>1, <1>4, <1>5, <2>1, ExceptSeq
  <2>3. \A k \in DOMAIN dir : k # next_log => dir[k] # dir[next_log]
    BY <1>5 DEF DirInv
  <2>4. \A n \in 1 .. Len(files') :
          files'[n].life <= life /\ files'[n].disk <= End(files'[n])
    BY <1>2, <1>3, <2>2
  <2> HIDE DEF SelfPlayInv
  <2> QED
    BY <1>4, <1>5, <2>1, <2>2, <2>3, <2>4, Zenon
<1>6. CASE next_log \notin DOMAIN dir
  <2>1. /\ log' = Len(files) + 1
        /\ files' = Append(files, EmptyFile)
        /\ dir' = [k \in DOMAIN dir \cup {next_log} |->
                     IF k = next_log THEN Len(files) + 1 ELSE dir[k]]
    BY <1>6 DEF OpenNew
  <2>2. /\ files' \in Seq(FileType) /\ Len(files') = Len(files) + 1
        /\ \A n \in 1 .. Len(files) : files'[n] = files[n]
        /\ files'[Len(files) + 1] = EmptyFile
    BY <1>0, <1>1, <2>1, AppendProperties
  <2>3. \A n \in 1 .. Len(files') :
          files'[n].life <= life /\ files'[n].disk <= End(files'[n])
    <3>1. \A n \in 1 .. Len(files') : n \in 1 .. Len(files) \/ n = Len(files) + 1
      BY <1>0, <2>2
    <3> QED
      BY <1>2, <1>3, <2>2, <3>1
  <2>4. \A k \in DOMAIN dir : dir[k] # Len(files) + 1
    BY <1>0, <1>4
  <2>5. \A k \in DOMAIN dir' : dir'[k] \in 1 .. Len(files')
    BY <1>0, <1>4, <2>1, <2>2
  <2> HIDE DEF SelfPlayInv
  <2> QED
    BY <1>0, <1>4, <1>6, <2>1, <2>2, <2>3, <2>4, <2>5
<1> QED
  BY <1>5, <1>6

LEMMA OpenNewKeepsInv ==
  ASSUME SelfPlayInv, OpenNew
  PROVE  SelfPlayInv'
<1>0. /\ UNCHANGED <<result, won, life>> /\ pc = "open_new" /\ pc' = "play"
      /\ next_log < MaxLogs /\ next_log' = next_log + 1 /\ batches' = 0
  BY DEF OpenNew
<1>1. TypeOK /\ DirInv /\ WriterInv /\ TornInv /\ ProgressInv /\ CounterInv
  BY DEF SelfPlayInv
<1>2. log = 0 /\ next_log \in Nat /\ DOMAIN dir \subseteq Nat /\ life \in Nat
  BY <1>0, <1>1 DEF TypeOK, WriterInv
<1>3. /\ files' \in Seq(FileType)
      /\ log' \in 1 .. Len(files') /\ files'[log'] = EmptyFile
      /\ DOMAIN dir' = DOMAIN dir \cup {next_log} /\ dir'[next_log] = log'
      /\ \A k \in DOMAIN dir : k # next_log =>
           dir'[k] = dir[k] /\ dir[k] # log' /\ files'[dir[k]] = files[dir[k]]
      /\ \A k \in DOMAIN dir' : dir'[k] \in 1 .. Len(files')
      /\ \A n \in 1 .. Len(files') :
           files'[n].life <= life /\ files'[n].disk <= End(files'[n])
  BY NewLog
<1>4. EmptyFile.life = life /\ EmptyFile.records = << >>
  BY DEF EmptyFile
<1>5. TypeOK'
  <2>1. Len(files') \in Nat /\ log' \in 0 .. Len(files')
    BY <1>3, LenProperties
  <2>2. next_log' \in 0 .. MaxLogs /\ DOMAIN dir' \subseteq 0 .. (MaxLogs - 1)
    BY <1>0, <1>1, <1>2, <1>3, SelfPlayAssumption DEF TypeOK
  <2>3. batches' \in 0 .. BatchesPerLog
    BY <1>0, SelfPlayAssumption
  <2> QED
    BY <1>0, <1>1, <1>3, <2>1, <2>2, <2>3 DEF TypeOK
<1>6. \A k \in DOMAIN dir' :
        \/ k = next_log
        \/ k \in DOMAIN dir /\ k # next_log /\ LifeOf(k)' = LifeOf(k)
             /\ IsWhole(k)' = IsWhole(k) /\ dir'[k] = dir[k] /\ dir[k] # log'
  <2> SUFFICES ASSUME NEW k \in DOMAIN dir, k # next_log
               PROVE  LifeOf(k)' = LifeOf(k) /\ IsWhole(k)' = IsWhole(k)
    BY <1>3
  <2>1. files'[dir'[k]] = files[dir[k]]
    BY <1>3
  <2> QED
    BY <2>1 DEF LifeOf, IsWhole, GamesOfLog, End
<1>7. \A k \in DOMAIN dir' : k = next_log => LifeOf(k)' = life
  BY <1>3, <1>4 DEF LifeOf
<1>8. DirInv'
  <2> USE SelfPlayAssumption
  <2>1. \A k, m \in DOMAIN dir' : dir'[k] = dir'[m] => k = m
    BY <1>1, <1>3, <1>6 DEF DirInv
  <2>2. \A k \in DOMAIN dir' : LifeOf(k)' = life =>
          k = next_log \/ (next_log - MaxReplayFiles < k /\ k < next_log)
    <3>1. \A k \in DOMAIN dir : LifeOf(k) = life =>
            next_log - MaxReplayFiles < k /\ k < next_log
      BY <1>0, <1>1 DEF DirInv
    <3> QED
      BY <1>6, <3>1
  <2>3. \A k \in DOMAIN dir' : LifeOf(k)' = life' =>
          next_log' - MaxReplayFiles <= k /\ k < next_log'
    BY <1>0, <1>2, <1>3, <2>2
  <2>4. \A k, m \in DOMAIN dir' : LifeOf(k)' = LifeOf(m)' => k - m < MaxReplayFiles
    <3> SUFFICES ASSUME NEW k \in DOMAIN dir', NEW m \in DOMAIN dir',
                        LifeOf(k)' = LifeOf(m)'
                 PROVE  k - m < MaxReplayFiles
      OBVIOUS
    <3>1. k \in Nat /\ m \in Nat
      BY <1>2, <1>3
    <3>2. CASE k = next_log \/ m = next_log
      <4>1. LifeOf(k)' = life /\ LifeOf(m)' = life
        BY <1>7, <3>2
      <4> QED
        BY <1>2, <2>2, <3>1, <4>1
    <3>3. CASE k # next_log /\ m # next_log
      BY <1>1, <1>6, <3>3 DEF DirInv
    <3> QED
      BY <3>2, <3>3
  <2>5. ASSUME NEW k \in 0 .. (next_log' - 1), k >= next_log' - LogsKept'
        PROVE  k \in DOMAIN dir' /\ LifeOf(k)' = life'
    <3>1. CASE k = next_log
      BY <1>0, <1>3, <1>7, <3>1
    <3>2. CASE k # next_log
      <4>0. LogsKept = MaxReplayFiles - 1 /\ LogsKept' = MaxReplayFiles
        BY <1>0 DEF LogsKept
      <4>1. k \in 0 .. (next_log - 1) /\ k >= next_log - LogsKept
        BY <1>0, <1>2, <2>5, <3>2, <4>0
      <4>2. k \in DOMAIN dir /\ LifeOf(k) = life
        BY <1>1, <4>1 DEF DirInv
      <4> QED
        BY <1>0, <1>3, <1>6, <3>2, <4>2
    <3> QED
      BY <3>1, <3>2
  <2>6. pc' # "open_new"
    BY <1>0
  <2> QED
    BY <2>1, <2>3, <2>4, <2>5, <2>6 DEF DirInv
<1>9. WriterInv'
  <2>1. log' # 0 /\ next_log' - 1 = next_log
    BY <1>0, <1>2, <1>3
  <2> QED
    BY <1>0, <1>3, <1>4, <2>1 DEF WriterInv
<1>10. TornInv'
  <2>1. \A k \in DOMAIN dir' : LifeOf(k)' = life /\ ~IsWhole(k)' => k = next_log
    <3>1. \A k \in DOMAIN dir : dir[k] # 0
      BY <1>1, LenProperties DEF TypeOK
    <3> QED
      BY <1>1, <1>2, <1>6, <3>1 DEF TornInv
  <2>2. \A k, m \in DOMAIN dir' :
          LifeOf(k)' = LifeOf(m)' /\ ~IsWhole(k)' /\ ~IsWhole(m)' => k = m
    BY <1>1, <1>6, <1>7, <2>1 DEF TornInv
  <2> QED
    BY <1>0, <1>3, <2>1, <2>2 DEF TornInv
<1>11. ProgressInv'
  <2>1. RecordsInLog' = 0
    BY <1>3, <1>4, EmptySeq DEF RecordsInLog
  <2>2. batches' * BatchSize = 0 /\ batches' < BatchesPerLog
    BY <1>0, SelfPlayAssumption
  <2> QED
    BY <1>0, <2>1, <2>2 DEF ProgressInv
<1>12. CounterInv'
  <2>1. GamesWritten' = GamesWritten
    <3>1. log' # 0 /\ Len(files'[log'].records) = 0 /\ next_log' - 1 = next_log
      BY <1>0, <1>2, <1>3, <1>4, EmptySeq
    <3> QED
      BY <1>2, <3>1, GameCounts DEF GamesWritten
  <2>2. CountersCountGames' <=> (pc' # "dead" => Tally(won', GamesWritten'))
    BY <1>5, CountersAgreeNext
  <2>3. CountersCountGames <=> (pc # "dead" => Tally(won, GamesWritten))
    BY <1>2, CountersAgree
  <2> QED
    BY <1>0, <1>1, <2>1, <2>2, <2>3 DEF CounterInv
<1> QED
  BY <1>5, <1>8, <1>9, <1>10, <1>11, <1>12 DEF SelfPlayInv

LEMMA StartBatchKeepsInv ==
  ASSUME SelfPlayInv, StartBatch
  PROVE  SelfPlayInv'
<1> USE DEF SelfPlayInv
<1>0. /\ UNCHANGED <<next_log, batches, won, log, dir, files, life>>
      /\ pc = "play" /\ pc' = "collect" /\ result' = [i \in Threads |-> "playing"]
  BY DEF StartBatch
<1>1. TypeOK'
  BY <1>0 DEF TypeOK
<1>2. DirInv' /\ TornInv'
  BY <1>0, FilesUntouchedKeepsOrder
<1>3. WriterInv'
  BY <1>0 DEF WriterInv
<1>4. ProgressInv'
  <2>1. log # 0 /\ RecordsInLog' = RecordsInLog /\ TakenOfBatch' = TakenOfBatch
    BY <1>0 DEF WriterInv, RecordsInLog, TakenOfBatch
  <2>2. batches \in Nat
    BY DEF TypeOK
  <2>3. TakenOfBatch = 0
    BY <1>0, <2>1, <2>2, GameCounts DEF ProgressInv, TakenOfBatch
  <2>4. \A i \in Threads : result'[i] = "taken" <=> i <= 0
    BY <1>0 DEF Threads
  <2>5. 0 \in 0 .. (BatchSize - 1)
    BY SelfPlayAssumption
  <2> QED
    BY <1>0, <2>1, <2>3, <2>4, <2>5 DEF ProgressInv
<1>5. CounterInv'
  BY <1>0 DEF CounterInv, CountersCountGames
<1> QED
  BY <1>1, <1>2, <1>3, <1>4, <1>5

LEMMA GameEndsKeepsInv ==
  ASSUME SelfPlayInv, NEW i \in Threads, GameEnds(i)
  PROVE  SelfPlayInv'
<1> USE DEF SelfPlayInv
<1>0. UNCHANGED <<pc, next_log, batches, won, log, dir, files, life>>
        /\ result[i] = "playing"
  BY DEF GameEnds
<1>1. PICK score \in Scores : result' = [result EXCEPT ![i] = score]
  BY Zenon DEF GameEnds
<1>2. TypeOK'
  <2>1. result' \in [Threads -> {"playing", "taken"} \cup Scores]
    BY <1>1 DEF TypeOK
  <2> QED
    BY <1>0, <2>1 DEF TypeOK
<1>3. DirInv' /\ TornInv'
  BY <1>0, FilesUntouchedKeepsOrder
<1>4. WriterInv'
  BY <1>0 DEF WriterInv
<1>5. ProgressInv'
  <2>1. RecordsInLog' = RecordsInLog /\ TakenOfBatch' = TakenOfBatch
    BY <1>0 DEF RecordsInLog, TakenOfBatch
  <2>2. \A j \in Threads : result'[j] = "taken" <=> result[j] = "taken"
    <3>1. score # "taken"
      BY DEF Scores
    <3> QED
      BY <1>0, <1>1, <3>1 DEF TypeOK
  <2> QED
    BY <1>0, <2>1, <2>2 DEF ProgressInv
<1>6. CounterInv'
  BY <1>0 DEF CounterInv, CountersCountGames
<1> QED
  BY <1>2, <1>3, <1>4, <1>5, <1>6

(* PlayBatch credits one player with every game.                           *)
LEMMA CountersAddUp ==
  ASSUME won \in [Players -> 0 .. FloatLimit], NEW score \in Scores,
         NEW n \in Int, Tally(won, n), won' = CountScore(score)
  PROVE  /\ won' \in [Players -> 0 .. FloatLimit]
         /\ Tally(won', n + 1)
<1>1. won["FIRST"] \in 0 .. FloatLimit /\ won["SECOND"] \in 0 .. FloatLimit
  BY DEF Players
<1>2. /\ won'["FIRST"] = FloatAdd(won["FIRST"], IF score = "1.0" THEN 1 ELSE 0)
      /\ won'["SECOND"] = FloatAdd(won["SECOND"], IF score = "1.0" THEN 0 ELSE 1)
      /\ DOMAIN won' = Players /\ won' = [p \in Players |-> won'[p]]
  BY DEF CountScore, Players
<1>3. \A x \in 0 .. FloatLimit : \A y \in {0, 1} :
        /\ FloatAdd(x, y) \in 0 .. FloatLimit
        /\ FloatAdd(x, y) <= x + y
        /\ FloatAdd(x, y) = x + y \/ FloatAdd(x, y) = FloatLimit
        /\ x = FloatLimit => FloatAdd(x, y) = FloatLimit
  BY SelfPlayAssumption DEF FloatAdd
<1>4. won' \in [Players -> 0 .. FloatLimit]
  BY <1>1, <1>2, <1>3 DEF Players
<1>5. PICK y \in {0, 1} : /\ won'["FIRST"] = FloatAdd(won["FIRST"], y)
                          /\ won'["SECOND"] = FloatAdd(won["SECOND"], 1 - y)
  <2>1. CASE score = "1.0"
    BY <1>2, <2>1
  <2>2. CASE score # "1.0"
    BY <1>2, <2>2
  <2> QED
    BY <2>1, <2>2
<1> DEFINE a == won["FIRST"]
           b == won["SECOND"]
           a1 == won'["FIRST"]
           b1 == won'["SECOND"]
<1>6. /\ a \in Int /\ b \in Int /\ a1 \in Int /\ b1 \in Int
      /\ a1 <= a + y /\ (a1 = a + y \/ a1 = FloatLimit) /\ (a = FloatLimit => a1 = FloatLimit)
      /\ b1 <= b + (1 - y) /\ (b1 = b + (1 - y) \/ b1 = FloatLimit)
      /\ b = FloatLimit => b1 = FloatLimit
  <2>1. 1 - y \in {0, 1}
    OBVIOUS
  <2> QED
    BY <1>1, <1>3, <1>5, <2>1
<1>7. a + b <= n /\ (a + b < n => a = FloatLimit \/ b = FloatLimit)
  BY DEF Tally, Players
<1> HIDE DEF a, b, a1, b1
<1>8. a1 + b1 <= n + 1 /\ (a1 + b1 < n + 1 => a1 = FloatLimit \/ b1 = FloatLimit)
  BY <1>6, <1>7
<1>9. Tally(won', n + 1)
  BY <1>8 DEF Tally, Players, a1, b1
<1> QED
  BY <1>4, <1>9

LEMMA FlushKeepsInv ==
  ASSUME SelfPlayInv, Flush
  PROVE  SelfPlayInv'
<1> USE DEF SelfPlayInv
<1>0. /\ UNCHANGED <<next_log, result, won, log, dir, life>>
      /\ pc = "flush" /\ batches' = batches + 1
      /\ pc' = IF batches + 1 = BatchesPerLog THEN "close_writer" ELSE "play"
  BY DEF Flush, LogIsFull
<1>1. log # 0 /\ batches < BatchesPerLog /\ RecordsInLog = (batches + 1) * BatchSize
        /\ batches \in Nat
  BY <1>0 DEF WriterInv, ProgressInv, TypeOK
<1>2. PICK f \in MayReachDisk(files[log]) : files' = [files EXCEPT ![log] = f]
  BY Zenon DEF Flush
<1>3. /\ f \in FileType /\ f.disk <= End(f)
      /\ f.life = files[log].life /\ f.records = files[log].records
  BY <1>1, <1>2, LogIsAFile, BuffersKeepRecords
<1>4. /\ files' \in Seq(FileType) /\ Len(files') = Len(files) /\ files'[log] = f
      /\ \A n \in 1 .. Len(files)' :
           files'[n].life <= life' /\ files'[n].disk <= End(files'[n])
  BY <1>0, <1>1, <1>2, <1>3, LogUpdated, Zenon
<1>5. TypeOK'
  <2>1. batches' \in 0 .. BatchesPerLog
    BY <1>0, <1>1, SelfPlayAssumption
  <2> QED
    BY <1>0, <1>4, <2>1 DEF TypeOK
<1>6. DirInv' /\ WriterInv' /\ TornInv'
  BY <1>0, <1>1, <1>2, <1>3, LogUpdateKeepsOrder, Zenon
<1>7. ProgressInv'
  <2>1. RecordsInLog' = RecordsInLog /\ files'[log'].records = files[log].records
    BY <1>0, <1>3, <1>4 DEF RecordsInLog
  <2>2. pc' = "close_writer" => RecordsInLog = GamesPerLog
    BY <1>0, <1>1, GameCounts
  <2>3. pc' = "play" => batches' < BatchesPerLog
    BY <1>0, <1>1, SelfPlayAssumption
  <2>4. pc' \in {"close_writer", "play"}
    BY <1>0
  <2>5. \A n \in 1 .. RecordsInLog :
          files[log].records[n] = <<life, (next_log - 1) * GamesPerLog + n>>
    BY <1>0, <1>1 DEF ProgressInv
  <2> QED
    BY <1>0, <1>1, <2>1, <2>2, <2>3, <2>4, <2>5 DEF ProgressInv
<1>8. CounterInv'
  BY <1>0, <1>1, <1>3, <1>4 DEF CounterInv, CountersCountGames
<1> QED
  BY <1>5, <1>6, <1>7, <1>8

LEMMA DieKeepsInv ==
  ASSUME SelfPlayInv, Die
  PROVE  SelfPlayInv'
<1> USE DEF SelfPlayInv
<1>0. /\ UNCHANGED <<next_log, log, dir, life>>
      /\ pc' = "dead" /\ result' = Idle /\ batches' = 0 /\ won' = NothingWon
  BY DEF Die
<1>1. /\ result' \in [Threads -> {"playing", "taken"} \cup Scores]
      /\ won' \in [Players -> 0 .. FloatLimit] /\ batches' \in 0 .. BatchesPerLog
  BY <1>0, SelfPlayAssumption DEF Idle, NothingWon
<1>2. ProgressInv' /\ CounterInv'
  BY <1>0 DEF ProgressInv, CounterInv, CountersCountGames
<1>3. CASE log = 0
  <2>1. files' = files
    BY <1>3, SMTT(30) DEF Die
  <2>2. TypeOK'
    BY <1>0, <1>1, <2>1 DEF TypeOK
  <2>3. DirInv' /\ TornInv'
    BY <1>0, <1>3, <2>1, FilesUntouchedKeepsOrder
  <2>4. WriterInv'
    BY <1>0, <1>3 DEF WriterInv
  <2> QED
    BY <1>2, <2>2, <2>3, <2>4
<1>4. CASE log # 0
  <2> DEFINE g == files[log]
             f == OnlyDisk(g)
             n == (g.disk + 1) \div 2
  <2>1. g \in FileType /\ g.disk <= End(g)
    BY <1>4, LogIsAFile
  <2>2. /\ g.disk \in Nat /\ Len(g.records) \in Nat /\ g.records \in Seq(Nat \X Nat)
        /\ g.disk <= 2 * Len(g.records)
    BY <2>1, FileFacts
  <2>3. n \in 0 .. Len(g.records) /\ g.disk <= 2 * n
    BY <2>2
  <2>4. SubSeq(g.records, 1, n) \in Seq(Nat \X Nat) /\ Len(SubSeq(g.records, 1, n)) = n
    <3> HIDE DEF n
    <3>1. \A i \in 1 .. n : g.records[i] \in Nat \X Nat
      BY <2>2, <2>3, ElementOfSeq
    <3>2. n \in Int
      BY <2>2, <2>3
    <3> QED
      BY <2>2, <2>3, <3>1, <3>2, SubSeqProperties
  <2>5. f.records = SubSeq(g.records, 1, n) /\ f.life = g.life /\ f.disk = g.disk
    BY <2>1 DEF OnlyDisk, FileType
  <2>6. f \in FileType
    BY <2>1, <2>4, Zenon DEF OnlyDisk, FileType
  <2>7. f.disk <= End(f)
    BY <2>3, <2>4, <2>5 DEF End
  <2>8. files' = [files EXCEPT ![log] = f]
    BY <1>4 DEF Die
  <2> HIDE DEF f
  <2>9. /\ files' \in Seq(FileType) /\ Len(files') = Len(files)
        /\ \A j \in 1 .. Len(files)' :
             files'[j].life <= life' /\ files'[j].disk <= End(files'[j])
    BY <1>0, <1>4, <2>5, <2>6, <2>7, <2>8, LogUpdated, Zenon
  <2>10. TypeOK'
    BY <1>0, <1>1, <2>9, Zenon DEF TypeOK
  <2>11. DirInv' /\ WriterInv' /\ TornInv'
    BY <1>0, <1>4, <2>5, <2>6, <2>7, <2>8, LogUpdateKeepsOrder, Zenon
  <2> QED
    BY <1>2, <2>10, <2>11
<1> QED
  BY <1>3, <1>4

LEMMA TakeResultKeepsInv ==
  ASSUME SelfPlayInv, NEW i \in Threads, TakeResult(i)
  PROVE  SelfPlayInv'
<1> USE DEF SelfPlayInv
<1>0. /\ UNCHANGED <<next_log, batches, log, dir, life>>
      /\ pc = "collect" /\ result' = [result EXCEPT ![i] = "taken"]
      /\ won' = CountScore(result[i]) /\ result[i] \in Scores
      /\ \A j \in 1 .. (i - 1) : result[j] = "taken"
      /\ pc' = IF \A j \in Threads : result'[j] = "taken" THEN "flush" ELSE "collect"
  BY DEF TakeResult, NextToTake
<1>1. /\ log # 0 /\ batches < BatchesPerLog /\ batches \in Nat
      /\ TakenOfBatch \in 0 .. (BatchSize - 1)
      /\ \A j \in Threads : result[j] = "taken" <=> j <= TakenOfBatch
      /\ next_log \in Nat /\ life \in Nat
      /\ \A n \in 1 .. RecordsInLog :
           files[log].records[n] = <<life, (next_log - 1) * GamesPerLog + n>>
  BY <1>0 DEF WriterInv, ProgressInv, TypeOK
<1>2. BatchSize \in Nat /\ i \in 1 .. BatchSize
  BY SelfPlayAssumption DEF Threads
<1>3. i = TakenOfBatch + 1
  <2>1. ~(i <= TakenOfBatch)
    BY <1>0, <1>1 DEF Scores
  <2>2. CASE i = 1
    BY <1>1, <2>1, <2>2
  <2>3. CASE i # 1
    <3>1. i - 1 \in Threads /\ i - 1 \in 1 .. (i - 1)
      BY <1>2, <2>3 DEF Threads
    <3>2. i - 1 <= TakenOfBatch
      BY <1>0, <1>1, <3>1
    <3> QED
      BY <1>1, <1>2, <2>1, <3>2
  <2> QED
    BY <2>2, <2>3
<1>4. files[log] \in FileType /\ files[log].disk <= End(files[log]) /\ RecordsInLog \in Nat
  BY <1>1, LogIsAFile, FileFacts, SMTT(30) DEF RecordsInLog
<1>5. /\ batches * BatchSize \in Nat
      /\ RecordsInLog + 1 = batches * BatchSize + i
      /\ GameNumber(i) = (next_log - 1) * GamesPerLog + (RecordsInLog + 1)
      /\ GameNumber(i) \in Nat
  <2>1. batches * BatchSize \in Nat
    BY <1>1, GameCounts
  <2>2. RecordsInLog + 1 = batches * BatchSize + i
    BY <1>1, <1>2, <1>3, <1>4, <2>1, SMTT(30) DEF TakenOfBatch
  <2>3. ((next_log - 1) * BatchesPerLog + batches) * BatchSize
          = (next_log - 1) * GamesPerLog + batches * BatchSize
    <3>1. next_log - 1 \in Int /\ batches \in Int
      BY <1>1
    <3> QED
      BY <3>1, GameCounts, Zenon
  <2>4. (next_log - 1) * GamesPerLog \in Int
    BY <1>1, GameCounts
  <2>5. GameNumber(i) = (next_log - 1) * GamesPerLog + (RecordsInLog + 1)
    BY <1>1, <1>2, <2>1, <2>2, <2>3, <2>4 DEF GameNumber
  <2>6. next_log - 1 \in Nat
    BY <1>1 DEF WriterInv, TypeOK
  <2>7. (next_log - 1) * GamesPerLog \in Nat
    BY <2>6, GameCounts, Zenon
  <2> QED
    BY <1>4, <2>1, <2>2, <2>5, <2>7
<1> DEFINE record == <<life, GameNumber(i)>>
           g == [files[log] EXCEPT !.records = Append(@, record)]
<1>6. PICK f \in MayReachDisk(g) : files' = [files EXCEPT ![log] = f]
  BY Zenon DEF TakeResult
<1>7. /\ Append(files[log].records, record) \in Seq(Nat \X Nat)
      /\ Len(Append(files[log].records, record)) = RecordsInLog + 1
      /\ \A n \in 1 .. RecordsInLog : Append(files[log].records, record)[n] = files[log].records[n]
      /\ Append(files[log].records, record)[RecordsInLog + 1] = record
  <2>1. record \in Nat \X Nat
    BY <1>1, <1>5
  <2>2. files[log].records \in Seq(Nat \X Nat)
    BY <1>4, FileFacts
  <2> QED
    BY <2>1, <2>2, AppendProperties DEF RecordsInLog
<1>8. /\ g \in FileType /\ g.life = files[log].life /\ g.disk = files[log].disk
      /\ g.records = Append(files[log].records, record)
  BY <1>4, <1>7, Zenon DEF FileType
<1>9. g.disk <= End(g)
  <2>1. End(g) = 2 * (RecordsInLog + 1) /\ End(files[log]) = 2 * RecordsInLog
    BY <1>7, <1>8 DEF End, RecordsInLog
  <2>2. files[log].disk \in Nat
    BY <1>4, FileFacts
  <2> QED
    BY <1>4, <1>8, <2>1, <2>2
<1> HIDE DEF g
<1>10. /\ f \in FileType /\ f.disk <= End(f) /\ f.life = files[log].life
       /\ f.records = Append(files[log].records, record)
  BY <1>6, <1>8, <1>9, BuffersKeepRecords, SMTT(30)
<1> HIDE DEF record
<1>11. /\ files' \in Seq(FileType) /\ Len(files') = Len(files) /\ files'[log] = f
       /\ \A n \in 1 .. Len(files)' :
            files'[n].life <= life' /\ files'[n].disk <= End(files'[n])
  BY <1>0, <1>1, <1>6, <1>10, LogUpdated, Zenon
<1>12. /\ won' \in [Players -> 0 .. FloatLimit]
       /\ Tally(won', GamesWritten + 1)
  <2>1. GamesWritten \in Int
    BY <1>1, <1>4, GameCounts, SMTT(30) DEF GamesWritten, RecordsInLog
  <2>2. Tally(won, GamesWritten)
    BY <1>0, <1>1, CountersAgree, SMTT(30) DEF CounterInv
  <2>3. won \in [Players -> 0 .. FloatLimit]
    BY DEF TypeOK
  <2> QED
    BY <1>0, <2>1, <2>2, <2>3, CountersAddUp
<1>13. TypeOK'
  <2>1. result' \in [Threads -> {"playing", "taken"} \cup Scores]
    BY <1>0 DEF TypeOK
  <2>2. pc' \in {"collect", "flush"}
    BY <1>0, SMTT(30)
  <2> QED
    BY <1>0, <1>11, <1>12, <2>1, <2>2, SMTT(30) DEF TypeOK
<1>14. DirInv' /\ WriterInv' /\ TornInv'
  <2>1. pc' \notin {"delete_old", "open_new"}
    BY <1>0
  <2> QED
    BY <1>0, <1>1, <1>6, <1>10, <2>1, LogUpdateKeepsOrder, Zenon
<1>15. ProgressInv'
  <2>1. RecordsInLog' = RecordsInLog + 1 /\ TakenOfBatch' = i
    BY <1>0, <1>2, <1>5, <1>7, <1>10, <1>11, SMTT(30) DEF RecordsInLog, TakenOfBatch
  <2>2. \A n \in 1 .. (RecordsInLog + 1) :
          files'[log].records[n] = <<life, (next_log - 1) * GamesPerLog + n>>
    <3>1. record = <<life, (next_log - 1) * GamesPerLog + (RecordsInLog + 1)>>
      BY <1>5 DEF record
    <3>2. \A n \in 1 .. (RecordsInLog + 1) : n \in 1 .. RecordsInLog \/ n = RecordsInLog + 1
      BY <1>4
    <3> QED
      BY <1>1, <1>7, <1>10, <1>11, <3>1, <3>2, Zenon
  <2>3. \A j \in Threads : result'[j] = "taken" <=> j <= i
    <3>1. \A j \in Threads : result'[j] = IF j = i THEN "taken" ELSE result[j]
      BY <1>0 DEF TypeOK
    <3>2. \A j \in Threads : j <= i <=> (j = i \/ j <= TakenOfBatch)
      BY <1>1, <1>3, SMTT(30) DEF Threads
    <3> QED
      BY <1>1, <3>1, <3>2
  <2>4. CASE i = BatchSize
    <3>1. pc' = "flush"
      BY <1>0, <2>3, <2>4 DEF Threads
    <3>2. RecordsInLog + 1 = (batches + 1) * BatchSize
      BY <1>1, <1>5, <2>4, GameCounts, SMTT(30)
    <3> QED
      BY <1>0, <1>1, <2>1, <2>2, <3>1, <3>2 DEF ProgressInv
  <2>5. CASE i # BatchSize
    <3>1. BatchSize \in Threads /\ ~(BatchSize <= i)
      BY <1>2, <2>5 DEF Threads
    <3>2. pc' = "collect"
      BY <1>0, <2>3, <3>1
    <3>3. i \in 0 .. (BatchSize - 1)
      BY <1>2, <2>5
    <3> QED
      BY <1>0, <1>1, <2>1, <2>2, <2>3, <3>2, <3>3 DEF ProgressInv
  <2> QED
    BY <2>4, <2>5, SMTT(30)
<1>16. CounterInv'
  <2>1. GamesWritten' = GamesWritten + 1
    <3>1. GamesWritten = (next_log - 1) * GamesPerLog + RecordsInLog
      BY <1>1 DEF GamesWritten, RecordsInLog
    <3>2. GamesWritten' = (next_log - 1) * GamesPerLog + (RecordsInLog + 1)
      BY <1>0, <1>1, <1>7, <1>10, <1>11, Zenon DEF GamesWritten, GamesPerLog
    <3>3. (next_log - 1) * GamesPerLog \in Int
      BY <1>1, GameCounts
    <3> QED
      BY <1>4, <3>1, <3>2, <3>3
  <2>2. pc' # "dead"
    BY <1>0
  <2> QED
    BY <1>12, <1>13, <2>1, <2>2, CountersAgreeNext DEF CounterInv
<1> QED
  BY <1>13, <1>14, <1>15, <1>16

LEMMA RestartKeepsInv ==
  ASSUME SelfPlayInv, Restart
  PROVE  SelfPlayInv'
<1> USE SelfPlayAssumption DEF SelfPlayInv
<1>0. /\ UNCHANGED <<batches, result, won, dir, files>> /\ pc = "dead" /\ life < MaxRestarts
      /\ life' = life + 1 /\ pc' = "close_writer" /\ next_log' = 0 /\ log' = 0
  BY DEF Restart
<1>1. /\ life \in Nat /\ DOMAIN dir \subseteq Nat /\ files \in Seq(FileType)
      /\ \A k \in DOMAIN dir : dir[k] \in 1 .. Len(files)
      /\ \A n \in 1 .. Len(files) : files[n].life <= life
  BY DEF TypeOK
<1>2. \A n \in 1 .. Len(files) : files[n].life \in Nat
  BY <1>1, ElementOfSeq, FileFacts
<1>3. TypeOK'
  <2>1. \A n \in 1 .. Len(files) : files[n].life <= life + 1
    BY <1>1, <1>2
  <2>2. Len(files) \in Nat
    BY <1>1, LenProperties
  <2>3. log' \in 0 .. Len(files') /\ next_log' \in 0 .. MaxLogs /\ life' \in 0 .. MaxRestarts
    BY <1>0, <1>1, <2>2
  <2> QED
    BY <1>0, <2>1, <2>3, Zenon DEF TypeOK, End
<1>4. \A k \in DOMAIN dir :
        LifeOf(k)' = LifeOf(k) /\ IsWhole(k)' = IsWhole(k) /\ LifeOf(k) # life + 1
  BY <1>0, <1>1, <1>2 DEF LifeOf, IsWhole, GamesOfLog, End
<1>5. DirInv'
  <2>1. 0 .. (next_log' - 1) = {}
    BY <1>0
  <2> QED
    BY <1>0, <1>4, <2>1 DEF DirInv
<1>6. WriterInv' /\ ProgressInv'
  BY <1>0 DEF WriterInv, ProgressInv
<1>7. TornInv'
  BY <1>0, <1>4 DEF TornInv
<1>8. CounterInv'
  <2>1. GamesWritten' = 0
    BY <1>0, GameCounts DEF GamesWritten, GamesPerLog
  <2>2. won'["FIRST"] + won'["SECOND"] = 0
    BY <1>0 DEF CounterInv, NothingWon, Players
  <2> QED
    BY <1>0, <1>3, <2>1, <2>2, CountersAgreeNext DEF CounterInv, Tally
<1> QED
  BY <1>3, <1>5, <1>6, <1>7, <1>8

LEMMA SelfPlayInvNext == SelfPlayInv /\ [Next]_vars => SelfPlayInv'
<1> SUFFICES ASSUME SelfPlayInv, [Next]_vars PROVE SelfPlayInv'
  OBVIOUS
<1>1. CASE CloseWriter
  BY <1>1, CloseWriterKeepsInv
<1>2. CASE CloseFile
  BY <1>2, CloseFileKeepsInv
<1>3. CASE DeleteOld
  BY <1>3, DeleteOldKeepsInv
<1>4. CASE OpenNew
  BY <1>4, OpenNewKeepsInv
<1>5. CASE StartBatch
  BY <1>5, StartBatchKeepsInv
<1>6. CASE \E i \in Threads : TakeResult(i)
  BY <1>6, TakeResultKeepsInv
<1>7. CASE Flush
  BY <1>7, FlushKeepsInv
<1>8. CASE \E i \in Threads : GameEnds(i)
  BY <1>8, GameEndsKeepsInv
<1>9. CASE Die
  BY <1>9, DieKeepsInv
<1>10. CASE Restart
  BY <1>10, RestartKeepsInv
<1>11. CASE UNCHANGED vars
  <2>1. UNCHANGED <<pc, next_log, batches, result, won, log, dir, files, life>>
    BY <1>11 DEF vars
  <2>2. TypeOK'
    BY <2>1 DEF SelfPlayInv, TypeOK, End
  <2>3. DirInv' /\ TornInv'
    BY <2>1, FilesUntouchedKeepsOrder, SMTT(30) DEF SelfPlayInv
  <2>4. WriterInv' /\ ProgressInv' /\ CounterInv'
    BY <2>1 DEF SelfPlayInv, WriterInv, ProgressInv, RecordsInLog, TakenOfBatch, CounterInv,
                CountersCountGames
  <2> QED
    BY <2>2, <2>3, <2>4 DEF SelfPlayInv
<1> QED
  BY <1>1, <1>2, <1>3, <1>4, <1>5, <1>6, <1>7, <1>8, <1>9, <1>10, <1>11
     DEF Next, RotateLog, PlayBatch

LEMMA SelfPlayInvAlways == Spec => []SelfPlayInv
  BY InvInit, SelfPlayInvNext, PTL DEF Spec

(* Every reachable state of the self-play process is of its type: a log    *)
(* never holds more than its batches, and no counter passes the float that *)
(* it stops at.                                                            *)
THEOREM SelfPlayTypeCorrect == Spec => []TypeOK
<1>1. SelfPlayInv => TypeOK
  BY DEF SelfPlayInv
<1> QED
  BY <1>1, SelfPlayInvAlways, PTL

(* The counters PrintStats reports never exceed the games written in this  *)
(* run of the process, and add up to them until one of them can count no   *)
(* further.                                                                *)
THEOREM CountersCountGamesAlways == Spec => []CountersCountGames
<1>1. SelfPlayInv => CountersCountGames
  BY SMTT(30) DEF SelfPlayInv, CounterInv
<1> QED
  BY <1>1, SelfPlayInvAlways, PTL

(* The logs RotateLog has closed and not deleted hold all their games, in  *)
(* the order they were started, down to the disk, whatever the order the   *)
(* games end in and wherever a crash falls.                                *)
THEOREM ClosedLogsAreWholeAlways == Spec => []ClosedLogsAreWhole
<1>1. SelfPlayInv => ClosedLogsAreWhole
  BY DEF SelfPlayInv, DirInv, TornInv, ClosedLogsAreWhole, LifeOf
<1> QED
  BY <1>1, SelfPlayInvAlways, PTL

(* However often the process dies, each run of it leaves one log at most   *)
(* that is not whole.                                                      *)
THEOREM CrashTearsOneLogAlways == Spec => []CrashTearsOneLog
<1>1. SelfPlayInv => CrashTearsOneLog
  <2> SUFFICES ASSUME SelfPlayInv, NEW l \in 0 .. life
               PROVE  Cardinality({k \in DOMAIN dir :
                                     files[dir[k]].life = l /\ ~IsWhole(k)}) <= 1
    BY DEF CrashTearsOneLog
  <2> DEFINE torn == {k \in DOMAIN dir : files[dir[k]].life = l /\ ~IsWhole(k)}
  <2>1. \A k, m \in torn : k = m
    BY DEF SelfPlayInv, TornInv, LifeOf
  <2> HIDE DEF torn
  <2>2. CASE torn = {}
    BY <2>2, FS_EmptySet DEF torn
  <2>3. CASE torn # {}
    <3>1. PICK k \in torn : TRUE
      BY <2>3
    <3>2. torn = {k}
      BY <2>1, <3>1
    <3>3. Cardinality(torn) = 1
      BY <3>2, FS_Singleton
    <3> QED
      BY <3>3 DEF torn
  <2> QED
    BY <2>2, <2>3
<1> QED
  BY <1>1, SelfPlayInvAlways, PTL

LEMMA Quotient ==
  ASSUME NEW a \in Nat, NEW m \in Nat \ {0}
  PROVE  a = m * (a \div m) + (a % m) /\ a \div m \in Int /\ a % m \in Int
<1>1. a = m * (a \div m) + (a % m)
  OBVIOUS
<1>2. a \div m \in Int /\ a % m \in Int
  OBVIOUS
<1> QED
  BY <1>1, <1>2

LEMMA CloseAndCongruent ==
  ASSUME NEW a \in Nat, NEW b \in Nat, NEW m \in Nat \ {0},
         a - b < m, b - a < m, a % m = b % m
  PROVE  a = b
<1>1. a = m * (a \div m) + (a % m) /\ b = m * (b \div m) + (b % m)
  BY Quotient
<1>2. a \div m \in Int /\ b \div m \in Int /\ a % m \in Int
  BY Quotient
<1>3. \A q \in Int, r \in Int : q > r => m * q >= m * r + m
  <2> SUFFICES ASSUME NEW q \in Int, NEW r \in Int, q > r PROVE m * q >= m * r + m
    OBVIOUS
  <2>1. m * (q - r - 1) >= 0
    OBVIOUS
  <2>2. m * (q - r - 1) = m * q - m * r - m
    OBVIOUS
  <2> QED
    BY <2>1, <2>2
<1>4. CASE a \div m > b \div m
  BY <1>1, <1>2, <1>3, <1>4
<1>5. CASE b \div m > a \div m
  BY <1>1, <1>2, <1>3, <1>5
<1>6. CASE a \div m = b \div m
  BY <1>1, <1>6
<1> QED
  BY <1>2, <1>4, <1>5, <1>6

(* RotateLog never leaves more than max_replay_files logs of one run of    *)
(* the process: no two of them lie max_replay_files apart, so their        *)
(* numbers are different modulo max_replay_files.                          *)
THEOREM RunKeepsMaxReplayFilesAlways == Spec => []RunKeepsMaxReplayFiles
<1>1. SelfPlayInv => RunKeepsMaxReplayFiles
  <2> SUFFICES ASSUME SelfPlayInv, NEW l \in 0 .. life
               PROVE  Cardinality({k \in DOMAIN dir : files[dir[k]].life = l})
                        <= MaxReplayFiles
    BY DEF RunKeepsMaxReplayFiles
  <2> DEFINE logs == {k \in DOMAIN dir : files[dir[k]].life = l}
             R == 0 .. (MaxReplayFiles - 1)
             place == [k \in logs |-> k % MaxReplayFiles]
  <2>1. MaxReplayFiles \in Nat \ {0} /\ logs \subseteq Nat
    BY SelfPlayAssumption DEF SelfPlayInv, TypeOK
  <2>2. place \in [logs -> R]
    <3>1. \A k \in Nat : k % MaxReplayFiles \in R
      BY <2>1
    <3> QED
      BY <2>1, <3>1
  <2>3. \A k, m \in logs : k - m < MaxReplayFiles
    BY DEF SelfPlayInv, DirInv, LifeOf
  <2>4. \A k, m \in logs : place[k] = place[m] => k = m
    <3> SUFFICES ASSUME NEW k \in logs, NEW m \in logs, place[k] = place[m]
                 PROVE  k = m
      OBVIOUS
    <3>1. k % MaxReplayFiles = m % MaxReplayFiles /\ k \in Nat /\ m \in Nat
      BY <2>1
    <3>2. k - m < MaxReplayFiles /\ m - k < MaxReplayFiles
      BY <2>3
    <3> QED
      BY <2>1, <3>1, <3>2, CloseAndCongruent
  <2>5. IsFiniteSet(R) /\ Cardinality(R) = MaxReplayFiles
    <3>1. 0 \in Int /\ MaxReplayFiles - 1 \in Int /\ 0 <= MaxReplayFiles - 1
      BY <2>1
    <3>2. \A a, b \in Int :
            /\ IsFiniteSet(a .. b)
            /\ Cardinality(a .. b) = IF a > b THEN 0 ELSE b - a + 1
      BY FS_Interval
    <3>3. IsFiniteSet(R) /\ Cardinality(R) = (MaxReplayFiles - 1) - 0 + 1
      BY <3>1, <3>2
    <3> QED
      BY <2>1, <3>3
  <2> HIDE DEF logs, R, place
  <2>6. place \in Injection(logs, R)
    BY <2>2, <2>4 DEF Injection, IsInjective
  <2>7. Cardinality(logs) <= Cardinality(R)
    BY <2>5, <2>6, FS_Injection
  <2> QED
    BY <2>5, <2>7 DEF logs
<1> QED
  BY <1>1, SelfPlayInvAlways, PTL

-------------------------------------------------------------------------------
(* A training run beside the process.                                      *)

(* Every file of the running process but the one behind file_ has all its  *)
(* games on the disk.                                                      *)
ClosedFilesInv ==
  \A n \in 1 .. Len(files) :
    n # log /\ files[n].life = life => files[n].disk = 2 * GamesPerLog

(* The reader has a file that was opened for writing no earlier than it    *)
(* was opened for reading; it is between two records and, unless the file  *)
(* was emptied, not behind its end.                                        *)
WorkInv ==
  work # NoWork =>
    /\ work \in [file : 1 .. Len(files), life : Nat, pos : Nat]
    /\ work.pos % 2 = 0
    /\ work.life <= files[work.file].life
    /\ ~Overwritten => work.pos <= files[work.file].disk

TrainerInv ==
  /\ trainer \in {"off", "reading", "failed"}
  /\ listed \subseteq Nat
  /\ pending \subseteq listed
  /\ WorkInv

TrainingInv == SelfPlayInv /\ ClosedFilesInv /\ TrainerInv

(* What a step may do to a file: it grows, or a later process empties it.  *)
FilesGrow ==
  /\ Len(files) <= Len(files')
  /\ \A n \in 1 .. Len(files) :
       \/ files'[n].life = files[n].life /\ files[n].disk <= files'[n].disk
       \/ files[n].life < files'[n].life
-------------------------------------------------------------------------------
(* The files of a state.                                                   *)
LEMMA AllFiles ==
  ASSUME TypeOK
  PROVE  /\ Len(files) \in Nat
         /\ \A n \in 1 .. Len(files) :
              /\ files[n] \in FileType
              /\ files[n].life \in Nat /\ files[n].disk \in Nat
              /\ files[n].life <= life
         /\ life \in Nat
         /\ GamesPerLog \in Nat
<1>1. Len(files) \in Nat
  BY LenProperties DEF TypeOK
<1>2. \A n \in 1 .. Len(files) : files[n] \in FileType
  BY <1>1, ElementOfSeq DEF TypeOK
<1>3. \A n \in 1 .. Len(files) : files[n].life \in Nat /\ files[n].disk \in Nat
  BY <1>2, FileFacts
<1>4. life \in Nat
  BY SelfPlayAssumption DEF TypeOK
<1>5. GamesPerLog \in Nat
  BY SelfPlayAssumption DEF GamesPerLog
<1> QED
  BY <1>1, <1>2, <1>3, <1>4, <1>5 DEF TypeOK

(* A step that leaves the files alone.                                     *)
LEMMA FilesUntouched ==
  ASSUME TypeOK, ClosedFilesInv, files' = files,
         (life' = life /\ log' = log) \/ life' = life + 1
  PROVE  FilesGrow /\ ClosedFilesInv'
<1>1. FilesGrow
  BY AllFiles DEF FilesGrow
<1>2. ClosedFilesInv'
  BY AllFiles DEF ClosedFilesInv, GamesPerLog
<1> QED
  BY <1>1, <1>2

(* A step that writes to the log, or closes it with all its games in it.   *)
LEMMA LogWritten ==
  ASSUME TypeOK, ClosedFilesInv, log # 0, NEW f \in FileType,
         f.life = files[log].life, files[log].disk <= f.disk,
         files' = [files EXCEPT ![log] = f], life' = life,
         log' = log \/ f.disk = 2 * GamesPerLog
  PROVE  FilesGrow /\ ClosedFilesInv'
<1>1. log \in 1 .. Len(files) /\ files \in Seq(FileType)
  BY LogIsAFile DEF TypeOK
<1>2. /\ Len(files') = Len(files)
      /\ \A n \in 1 .. Len(files) : files'[n] = IF n = log THEN f ELSE files[n]
  BY <1>1, ExceptSeq
<1>3. FilesGrow
  BY <1>1, <1>2, AllFiles DEF FilesGrow
<1>4. ClosedFilesInv'
  BY <1>1, <1>2, AllFiles DEF ClosedFilesInv, GamesPerLog
<1> QED
  BY <1>3, <1>4
-------------------------------------------------------------------------------
(* What each step of the self-play process does to the files.              *)
LEMMA CloseWriterGrows ==
  ASSUME SelfPlayInv, ClosedFilesInv, CloseWriter
  PROVE  FilesGrow /\ ClosedFilesInv'
<1>1. TypeOK /\ life' = life /\ log' = log
  BY DEF SelfPlayInv, CloseWriter
<1>2. CASE log = 0
  BY <1>1, <1>2, FilesUntouched DEF CloseWriter
<1>3. CASE log # 0
  <2> DEFINE g == Finish(files[log])
  <2>1. PICK f \in MayReachDisk(g) : files' = [files EXCEPT ![log] = f]
    BY <1>3 DEF CloseWriter
  <2>2. files[log] \in FileType /\ files[log].disk <= End(files[log])
    BY <1>1, <1>3, LogIsAFile
  <2>3. /\ g \in FileType /\ g.life = files[log].life /\ g.disk = files[log].disk
        /\ g.records = files[log].records
    BY <2>2 DEF FileType, Finish
  <2>4. g.disk <= End(g)
    BY <2>2, <2>3 DEF End
  <2> HIDE DEF g
  <2>5. f \in FileType /\ f.life = files[log].life /\ files[log].disk <= f.disk
    BY <2>1, <2>3, <2>4, BuffersKeepRecords
  <2> QED
    BY <1>1, <1>3, <2>1, <2>5, LogWritten
<1> QED
  BY <1>2, <1>3

(* fclose leaves nothing behind: the writer was finished with all games of *)
(* the log.                                                                *)
LEMMA CloseFileGrows ==
  ASSUME SelfPlayInv, ClosedFilesInv, CloseFile
  PROVE  FilesGrow /\ ClosedFilesInv'
<1>1. TypeOK /\ life' = life /\ log' = 0 /\ pc = "close_file"
  BY DEF SelfPlayInv, CloseFile
<1>2. CASE log = 0
  BY <1>1, <1>2, FilesUntouched DEF CloseFile
<1>3. CASE log # 0
  <2>1. PICK f \in MayReachDisk(files[log]) :
          (f.finished => f.disk = End(f)) /\ files' = [files EXCEPT ![log] = f]
    BY <1>3 DEF CloseFile
  <2>2. files[log] \in FileType /\ files[log].disk <= End(files[log])
    BY <1>1, <1>3, LogIsAFile
  <2>3. /\ f \in FileType /\ f.life = files[log].life /\ files[log].disk <= f.disk
        /\ f.records = files[log].records /\ f.finished = files[log].finished
    BY <2>2, BuffersKeepRecords
  <2>4. Len(files[log].records) = GamesPerLog /\ files[log].finished
    BY <1>1, <1>3 DEF SelfPlayInv, ProgressInv, RecordsInLog
  <2>5. f.disk = 2 * GamesPerLog
    BY <2>1, <2>3, <2>4 DEF End
  <2> QED
    BY <1>1, <1>3, <2>1, <2>3, <2>5, LogWritten
<1> QED
  BY <1>2, <1>3

(* fopen empties a log of an earlier process, or makes a new file.         *)
LEMMA OpenNewGrows ==
  ASSUME SelfPlayInv, ClosedFilesInv, OpenNew
  PROVE  FilesGrow /\ ClosedFilesInv'
<1>1. TypeOK /\ life' = life /\ log = 0
  BY DEF SelfPlayInv, WriterInv, OpenNew
<1>2. EmptyFile \in FileType /\ EmptyFile.life = life /\ EmptyFile.disk = 0
  <2>1. life \in Nat
    BY <1>1, AllFiles
  <2>2. << >> \in Seq(Nat \X Nat)
    OBVIOUS
  <2> QED
    BY <2>1, <2>2 DEF EmptyFile, FileType
<1>3. files \in Seq(FileType)
  BY <1>1 DEF TypeOK
<1>4. CASE next_log \in DOMAIN dir
  <2> DEFINE m == dir[next_log]
  <2>1. m \in 1 .. Len(files)
    BY <1>1, <1>4 DEF TypeOK
  <2>2. log' = m /\ files' = [files EXCEPT ![m] = EmptyFile]
    BY <1>4 DEF OpenNew
  <2>3. files[m].life < life
    <3>1. next_log \in Nat
      BY <1>1, SelfPlayAssumption DEF TypeOK
    <3>2. files[m].life # life
      BY <1>4, <3>1 DEF SelfPlayInv, DirInv, LifeOf
    <3> QED
      BY <1>1, <2>1, <3>2, AllFiles
  <2> HIDE DEF m
  <2>4. /\ Len(files') = Len(files)
        /\ \A n \in 1 .. Len(files) : files'[n] = IF n = m THEN EmptyFile ELSE files[n]
    BY <1>2, <1>3, <2>1, <2>2, ExceptSeq
  <2>5. FilesGrow
    BY <1>1, <1>2, <2>1, <2>3, <2>4, AllFiles DEF FilesGrow
  <2>6. ClosedFilesInv'
    BY <1>1, <2>1, <2>2, <2>4, AllFiles DEF ClosedFilesInv, GamesPerLog
  <2> QED
    BY <2>5, <2>6
<1>5. CASE next_log \notin DOMAIN dir
  <2>1. log' = Len(files) + 1 /\ files' = Append(files, EmptyFile)
    BY <1>5 DEF OpenNew
  <2>2. /\ Len(files') = Len(files) + 1
        /\ \A n \in 1 .. Len(files) : files'[n] = files[n]
    BY <1>2, <1>3, <2>1, AppendProperties
  <2>3. FilesGrow
    BY <1>1, <2>2, AllFiles DEF FilesGrow
  <2>4. ClosedFilesInv'
    BY <1>1, <2>1, <2>2, AllFiles DEF ClosedFilesInv, GamesPerLog
  <2> QED
    BY <2>3, <2>4
<1> QED
  BY <1>4, <1>5

(* A recording is passed to the writer, and the buffers let through what   *)
(* they like.                                                              *)
LEMMA TakeResultGrows ==
  ASSUME SelfPlayInv, ClosedFilesInv, NEW i \in Threads, TakeResult(i)
  PROVE  FilesGrow /\ ClosedFilesInv'
<1>1. TypeOK /\ life' = life /\ log' = log /\ log # 0
  BY DEF SelfPlayInv, WriterInv, TakeResult
<1> DEFINE game == <<life, GameNumber(i)>>
           g == [files[log] EXCEPT !.records = Append(@, game)]
<1>2. PICK f \in MayReachDisk(g) : files' = [files EXCEPT ![log] = f]
  BY DEF TakeResult
<1>3. files[log] \in FileType /\ files[log].disk <= End(files[log])
  BY <1>1, LogIsAFile
<1>4. game \in Nat \X Nat
  <2>1. next_log - 1 \in Nat
    <3>1. next_log - 1 \in DOMAIN dir
      BY <1>1 DEF SelfPlayInv, WriterInv
    <3> QED
      BY <1>1, <3>1 DEF TypeOK
  <2>2. batches \in Nat /\ i \in Nat
    BY <1>1 DEF TypeOK, Threads
  <2>3. (next_log - 1) * BatchesPerLog \in Nat
    BY <2>1, SelfPlayAssumption
  <2>4. ((next_log - 1) * BatchesPerLog + batches) * BatchSize \in Nat
    BY <2>2, <2>3, SelfPlayAssumption
  <2>5. GameNumber(i) \in Nat
    BY <2>2, <2>4 DEF GameNumber
  <2> QED
    BY <1>1, <2>5, AllFiles
<1> HIDE DEF game
<1>5. files[log].records \in Seq(Nat \X Nat)
  BY <1>3, FileFacts
<1>6. /\ Append(files[log].records, game) \in Seq(Nat \X Nat)
      /\ Len(Append(files[log].records, game)) = Len(files[log].records) + 1
  BY <1>4, <1>5, AppendProperties
<1>7. /\ g \in FileType /\ g.life = files[log].life /\ g.disk = files[log].disk
      /\ g.records = Append(files[log].records, game)
  BY <1>3, <1>6 DEF FileType
<1> HIDE DEF g
<1>8. g.disk <= End(g)
  BY <1>3, <1>6, <1>7, FileFacts DEF End
<1>9. f \in FileType /\ f.life = files[log].life /\ files[log].disk <= f.disk
  BY <1>2, <1>7, <1>8, BuffersKeepRecords
<1> QED
  BY <1>1, <1>2, <1>9, LogWritten

LEMMA FlushGrows ==
  ASSUME SelfPlayInv, ClosedFilesInv, Flush
  PROVE  FilesGrow /\ ClosedFilesInv'
<1>1. TypeOK /\ life' = life /\ log' = log /\ log # 0
  BY DEF SelfPlayInv, WriterInv, Flush
<1>2. PICK f \in MayReachDisk(files[log]) : files' = [files EXCEPT ![log] = f]
  BY DEF Flush
<1>3. files[log] \in FileType /\ files[log].disk <= End(files[log])
  BY <1>1, LogIsAFile
<1>4. f \in FileType /\ f.life = files[log].life /\ files[log].disk <= f.disk
  BY <1>2, <1>3, BuffersKeepRecords
<1> QED
  BY <1>1, <1>2, <1>4, LogWritten

(* What a process that dies had in its buffers was never on the disk.      *)
LEMMA DieGrows ==
  ASSUME SelfPlayInv, ClosedFilesInv, Die
  PROVE  FilesGrow /\ ClosedFilesInv'
<1>1. TypeOK /\ life' = life /\ log' = log
  BY DEF SelfPlayInv, Die
<1>2. CASE log = 0
  BY <1>1, <1>2, FilesUntouched DEF Die
<1>3. CASE log # 0
  <2> DEFINE g == files[log]
             f == OnlyDisk(g)
  <2>1. log \in 1 .. Len(files) /\ g \in FileType /\ g.disk <= End(g)
    BY <1>1, <1>3, LogIsAFile
  <2>2. g.disk \in Nat /\ g.records \in Seq(Nat \X Nat) /\ End(g) = 2 * Len(g.records)
        /\ Len(g.records) \in Nat
    BY <2>1, FileFacts
  <2>3. (g.disk + 1) \div 2 \in 0 .. Len(g.records)
    BY <2>1, <2>2
  <2>4. SubSeq(g.records, 1, (g.disk + 1) \div 2) \in Seq(Nat \X Nat)
    BY <2>2, <2>3, SubSeqProperties
  <2>5. f \in FileType /\ f.life = g.life /\ f.disk = g.disk
    BY <2>1, <2>4 DEF OnlyDisk, FileType
  <2>6. files' = [files EXCEPT ![log] = f]
    BY <1>1, <1>3, <2>1 DEF Die, TypeOK
  <2>7. files[log].disk <= f.disk /\ f.life = files[log].life
    BY <2>2, <2>5
  <2> HIDE DEF f
  <2> QED
    BY <1>1, <1>3, <2>5, <2>6, <2>7, LogWritten
<1> QED
  BY <1>2, <1>3

LEMMA ProcessStepGrows ==
  ASSUME SelfPlayInv, ClosedFilesInv, [Next]_vars
  PROVE  FilesGrow /\ ClosedFilesInv'
<1>1. TypeOK
  BY DEF SelfPlayInv
<1>2. CASE DeleteOld \/ StartBatch \/ (\E i \in Threads : GameEnds(i))
  BY <1>1, <1>2, FilesUntouched DEF DeleteOld, StartBatch, GameEnds
<1>3. CASE Restart
  BY <1>1, <1>3, FilesUntouched DEF Restart
<1>4. CASE UNCHANGED vars
  BY <1>1, <1>4, FilesUntouched DEF vars
<1>5. CASE \E i \in Threads : TakeResult(i)
  BY <1>5, TakeResultGrows
<1> QED
  BY <1>2, <1>3, <1>4, <1>5, CloseWriterGrows, CloseFileGrows, OpenNewGrows, FlushGrows, DieGrows
     DEF Next, RotateLog, PlayBatch
-------------------------------------------------------------------------------
LEMMA TrainingInit_Inv == TrainingInit => TrainingInv
<1> SUFFICES ASSUME TrainingInit PROVE TrainingInv
  OBVIOUS
<1>1. SelfPlayInv
  BY InvInit DEF TrainingInit
<1>2. ClosedFilesInv
  BY DEF TrainingInit, Init, ClosedFilesInv
<1>3. TrainerInv
  BY DEF TrainingInit, TrainerInv, WorkInv
<1> QED
  BY <1>1, <1>2, <1>3 DEF TrainingInv

(* A step of the process does not take from the reader what it knows.      *)
LEMMA ProcessKeepsTrainerInv ==
  ASSUME TrainingInv, [Next]_vars, UNCHANGED trainerVars
  PROVE  TrainerInv'
<1>1. UNCHANGED <<trainer, listed, pending, work>>
  BY DEF trainerVars
<1>2. FilesGrow
  BY ProcessStepGrows DEF TrainingInv
<1>3. TypeOK /\ TypeOK'
  BY SelfPlayInvNext DEF TrainingInv, SelfPlayInv
<1>4. /\ Len(files') \in Nat
      /\ \A n \in 1 .. Len(files') : files'[n].life \in Nat /\ files'[n].disk \in Nat
  <2>1. files' \in Seq(FileType) /\ Len(files') \in Nat
    BY <1>3, LenProperties DEF TypeOK
  <2>2. \A n \in 1 .. Len(files') : files'[n] \in FileType
    BY <2>1, ElementOfSeq
  <2> QED
    BY <2>1, <2>2, FileFacts
<1>5. WorkInv'
  <2> SUFFICES ASSUME work # NoWork
               PROVE  /\ work \in [file : 1 .. Len(files'), life : Nat, pos : Nat]
                      /\ work.pos % 2 = 0
                      /\ work.life <= files'[work.file].life
                      /\ files'[work.file].life = work.life => work.pos <= files'[work.file].disk
    BY <1>1 DEF WorkInv, Overwritten
  <2>1. /\ work \in [file : 1 .. Len(files), life : Nat, pos : Nat]
        /\ work.pos % 2 = 0
        /\ work.life <= files[work.file].life
        /\ files[work.file].life = work.life => work.pos <= files[work.file].disk
    BY DEF TrainingInv, TrainerInv, WorkInv, Overwritten
  <2>2. work.file \in 1 .. Len(files) /\ work.life \in Nat /\ work.pos \in Nat
    BY <2>1
  <2>3. Len(files) <= Len(files') /\ Len(files) \in Nat
    BY <1>2, <1>3, AllFiles DEF FilesGrow
  <2>4. work \in [file : 1 .. Len(files'), life : Nat, pos : Nat] /\ work.file \in 1 .. Len(files')
    BY <1>4, <2>1, <2>2, <2>3
  <2>5. /\ files[work.file].life \in Nat /\ files[work.file].disk \in Nat
        /\ files'[work.file].life \in Nat /\ files'[work.file].disk \in Nat
    BY <1>3, <1>4, <2>2, <2>4, AllFiles
  <2>6. \/ files'[work.file].life = files[work.file].life
           /\ files[work.file].disk <= files'[work.file].disk
        \/ files[work.file].life < files'[work.file].life
    BY <1>2, <2>2 DEF FilesGrow
  <2> QED
    BY <2>1, <2>2, <2>4, <2>5, <2>6
<1> QED
  BY <1>1, <1>5 DEF TrainingInv, TrainerInv

(* A step of the reader.                                                   *)
LEMMA TrainerKeepsTrainerInv ==
  ASSUME TrainingInv, TrainerStep
  PROVE  TrainerInv'
<1>1. UNCHANGED <<files, dir, log, life, next_log>>
  BY DEF TrainerStep, vars
<1>2. TypeOK /\ TrainerInv
  BY DEF TrainingInv, SelfPlayInv
<1>3. DOMAIN dir \subseteq Nat /\ \A k \in DOMAIN dir : dir[k] \in 1 .. Len(files)
  BY <1>2, SelfPlayAssumption DEF TypeOK
<1>4. CASE ListFiles
  BY <1>1, <1>2, <1>3, <1>4 DEF ListFiles, TrainerInv, WorkInv, Overwritten
<1>5. CASE NextEpoch
  BY <1>1, <1>2, <1>5 DEF NextEpoch, TrainerInv, WorkInv, Overwritten
<1>6. CASE \E k \in pending : StartWork(k)
  <2>1. PICK k \in pending : StartWork(k)
    BY <1>6
  <2>2. CASE k \in DOMAIN dir
    <3>1. work' = [file |-> dir[k], life |-> files[dir[k]].life, pos |-> 0]
      BY <2>1, <2>2 DEF StartWork
    <3>2. dir[k] \in 1 .. Len(files) /\ files[dir[k]].life \in Nat /\ files[dir[k]].disk \in Nat
      BY <1>2, <1>3, <2>2, AllFiles
    <3>3. WorkInv'
      BY <1>1, <3>1, <3>2 DEF WorkInv, Overwritten
    <3> QED
      BY <1>2, <2>1, <2>2, <3>3 DEF StartWork, TrainerInv
  <2>3. CASE k \notin DOMAIN dir
    BY <1>1, <1>2, <2>1, <2>3 DEF StartWork, TrainerInv, WorkInv, Overwritten
  <2> QED
    BY <2>2, <2>3
<1>7. CASE ReadRecord
  <2>1. /\ work \in [file : 1 .. Len(files), life : Nat, pos : Nat]
        /\ work.pos % 2 = 0
        /\ work.life <= files[work.file].life
    BY <1>2, <1>7 DEF ReadRecord, TrainerInv, WorkInv
  <2>2. work' = [work EXCEPT !.pos = @ + 2]
    BY <1>7 DEF ReadRecord
  <2>3. /\ work' \in [file : 1 .. Len(files), life : Nat, pos : Nat]
        /\ work'.file = work.file /\ work'.life = work.life /\ work'.pos = work.pos + 2
    BY <2>1, <2>2
  <2>4. work'.pos % 2 = 0
    BY <2>1, <2>3
  <2>5. ~Overwritten => work.pos + 2 <= files[work.file].disk
    BY <1>7 DEF ReadRecord, WholeRecord
  <2>6. WorkInv'
    BY <1>1, <2>1, <2>3, <2>4, <2>5 DEF WorkInv, Overwritten
  <2> QED
    BY <1>2, <1>7, <2>6 DEF ReadRecord, TrainerInv
<1>8. CASE EndOfFile
  BY <1>2, <1>8 DEF EndOfFile, FinishWork, TrainerInv, WorkInv
<1>9. CASE DataLoss
  BY <1>1, <1>2, <1>9 DEF DataLoss, TrainerInv, WorkInv, Overwritten
<1> QED
  BY <1>4, <1>5, <1>6, <1>7, <1>8, <1>9 DEF TrainerStep

LEMMA TrainingInvNext == TrainingInv /\ [TrainingNext]_allVars => TrainingInv'
<1> SUFFICES ASSUME TrainingInv, [TrainingNext]_allVars PROVE TrainingInv'
  OBVIOUS
<1>1. [Next]_vars
  BY DEF TrainingNext, TrainerStep, allVars
<1>2. SelfPlayInv' /\ ClosedFilesInv'
  BY <1>1, SelfPlayInvNext, ProcessStepGrows DEF TrainingInv
<1>3. TrainerInv'
  BY <1>1, ProcessKeepsTrainerInv, TrainerKeepsTrainerInv DEF TrainingNext, allVars
<1> QED
  BY <1>2, <1>3 DEF TrainingInv

LEMMA TrainingInvAlways == TrainingSpec => []TrainingInv
  BY TrainingInit_Inv, TrainingInvNext, PTL DEF TrainingSpec

(* A training run fails for the reasons the property names and no other:   *)
(* of the logs a process keeps none is missing, and in a file that has all *)
(* its games on the disk, as each has that fclose has closed, the reader   *)
(* never finds half a record.                                              *)
THEOREM TrainerFailuresExplainedAlways == TrainingSpec => TrainerFailuresExplained
<1> DEFINE Explained ==
      trainer # "failed" /\ trainer' = "failed" =>
        \/ trainer = "off" /\ DOMAIN dir = {}
        \/ /\ work = NoWork
           /\ \E k \in pending : /\ pending' = pending \ {k}
                                /\ k \notin (next_log - LogsKept) .. (next_log - 1)
        \/ /\ work # NoWork
           /\ ~ReadsClosedLog
           /\ Overwritten \/ files[work.file].disk # 2 * BatchesPerLog * BatchSize
<1>1. TrainingInv /\ [TrainingNext]_allVars => [Explained]_allVars
  <2> SUFFICES ASSUME TrainingInv, TrainingNext, trainer # "failed", trainer' = "failed"
               PROVE  Explained
    OBVIOUS
  <2>1. TypeOK /\ DirInv /\ ClosedFilesInv /\ TrainerInv
    BY DEF TrainingInv, SelfPlayInv
  <2>2. TrainerStep
    BY DEF TrainingNext, trainerVars
  <2>3. CASE ListFiles
    BY <2>3 DEF ListFiles
  <2>4. CASE \E k \in pending : StartWork(k)
    <3>1. PICK k \in pending : StartWork(k)
      BY <2>4
    <3>2. k \notin DOMAIN dir /\ work = NoWork /\ pending' = pending \ {k}
      BY <3>1 DEF StartWork
    <3>3. k \in Nat
      BY <2>1 DEF TrainerInv
    <3>4. k \notin (next_log - LogsKept) .. (next_log - 1)
      <4>1. next_log \in Int /\ LogsKept \in Int
        BY <2>1, SelfPlayAssumption DEF TypeOK, LogsKept
      <4> QED
        BY <2>1, <3>2, <3>3, <4>1 DEF DirInv
    <3> QED
      BY <3>2, <3>4
  <2>5. CASE DataLoss
    <3> SUFFICES ASSUME ~Overwritten
                 PROVE  /\ files[work.file].disk # 2 * BatchesPerLog * BatchSize
                        /\ ~ReadsClosedLog
      BY <2>5 DEF DataLoss, ReadsClosedLog
    <3>1. /\ work \in [file : 1 .. Len(files), life : Nat, pos : Nat] /\ work.pos % 2 = 0
          /\ work.pos + 1 = files[work.file].disk
      BY <2>1, <2>5 DEF DataLoss, CutRecord, TrainerInv, WorkInv
    <3>2. GamesPerLog \in Nat /\ 2 * BatchesPerLog * BatchSize = 2 * GamesPerLog
      BY <2>1, AllFiles, SelfPlayAssumption DEF GamesPerLog
    <3>3. files[work.file].disk # 2 * GamesPerLog
      <4>1. work.pos \in Nat
        BY <3>1
      <4> QED
        BY <3>1, <3>2, <4>1
    <3>4. ~ReadsClosedLog
      BY <2>1, <3>1, <3>3 DEF ReadsClosedLog, ClosedFilesInv, Overwritten
    <3> QED
      BY <3>2, <3>3, <3>4
  <2>6. CASE NextEpoch \/ ReadRecord \/ EndOfFile
    BY <2>6 DEF NextEpoch, ReadRecord, EndOfFile
  <2> QED
    BY <2>2, <2>3, <2>4, <2>5, <2>6 DEF TrainerStep
<1> QED
  BY <1>1, TrainingInvAlways, PTL DEF TrainingSpec, TrainerFailuresExplained

(* A log that RotateLog has closed is read to the last of its games before *)
(* the reader turns to the next, even if it is unlinked in the meantime.   *)
THEOREM TrainerReadsWholeLogsAlways == TrainingSpec => TrainerReadsWholeLogs
<1>1. TrainingInv /\ [TrainingNext]_allVars =>
        [work' = NoWork /\ ReadsClosedLog
           => work.pos = 2 * BatchesPerLog * BatchSize]_allVars
  <2> SUFFICES ASSUME TrainingInv, TrainingNext, work' = NoWork, ReadsClosedLog
               PROVE  work.pos = 2 * BatchesPerLog * BatchSize
    OBVIOUS
  <2>1. TypeOK /\ ClosedFilesInv /\ TrainerInv
    BY DEF TrainingInv, SelfPlayInv
  <2>2. /\ work # NoWork /\ ~Overwritten
        /\ work \in [file : 1 .. Len(files), life : Nat, pos : Nat] /\ work.pos % 2 = 0
        /\ work.file # log /\ files[work.file].life = life
        /\ work.pos <= files[work.file].disk
    BY <2>1 DEF ReadsClosedLog, TrainerInv, WorkInv, Overwritten
  <2>3. files[work.file].disk = 2 * GamesPerLog /\ GamesPerLog \in Nat
    BY <2>1, <2>2, AllFiles DEF ClosedFilesInv
  <2>4. ~ReadRecord
    <3> SUFFICES ASSUME work' = [work EXCEPT !.pos = @ + 2] PROVE FALSE
      BY DEF ReadRecord
    <3>1. work'.file \in 1 .. Len(files)
      BY <2>2
    <3>2. work'.file = 0
      BY DEF NoWork
    <3> QED
      BY <2>1, <3>1, <3>2, AllFiles
  <2>5. EndOfFile
    BY <2>2, <2>4 DEF TrainingNext, trainerVars, TrainerStep, ListFiles, NextEpoch, StartWork,
                      DataLoss
  <2>6. ~(work.pos + 2 <= files[work.file].disk) /\ work.pos + 1 # files[work.file].disk
    BY <2>2, <2>5 DEF EndOfFile, WholeRecord, CutRecord
  <2>7. work.pos = 2 * GamesPerLog
    BY <2>2, <2>3, <2>6
  <2> QED
    BY <2>7, SelfPlayAssumption DEF GamesPerLog
<1> QED
  BY <1>1, TrainingInvAlways, PTL DEF TrainingSpec, TrainerReadsWholeLogs
===============================================================================
