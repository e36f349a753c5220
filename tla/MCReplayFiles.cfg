\* Two runs of the process on one directory; the first may open a third log and
\* so delete its first.
SPECIFICATION Spec
CONSTANTS
  BatchSize = 1
  BatchesPerLog = 1
  MaxReplayFiles = 2
  FloatLimit = 1
  MaxLogs = 3
  MaxRestarts = 1
INVARIANT
  MaximumNumberOfLogFiles
CHECK_DEADLOCK FALSE
