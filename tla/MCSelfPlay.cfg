\* Two batches of two games per log, one rotation that deletes a log in each of
\* two runs of the process, and counters that stop counting at the fifth win,
\* after the first rotation.
SPECIFICATION Spec
CONSTANTS
  BatchSize = 2
  BatchesPerLog = 2
  MaxReplayFiles = 2
  FloatLimit = 5
  MaxLogs = 3
  MaxRestarts = 1
INVARIANTS
  TypeOK
  RunKeepsMaxReplayFiles
  ClosedLogsAreWhole
  CrashTearsOneLog
  CountersCountGames
PROPERTY
  RecordingsReachDisk
CHECK_DEADLOCK FALSE
