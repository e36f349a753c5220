\* A training run that starts at any time beside two runs of the self-play
\* process, the second of which writes over the logs of the first.
SPECIFICATION TrainingSpec
CONSTANTS
  BatchSize = 2
  BatchesPerLog = 1
  MaxReplayFiles = 2
  FloatLimit = 1
  MaxLogs = 3
  MaxRestarts = 1
PROPERTIES
  TrainerFailuresExplained
  TrainerReadsWholeLogs
  EpochEnds
CHECK_DEADLOCK FALSE
