\* One failure: Play never returns.
SPECIFICATION Spec
CONSTANTS
  NumWorkers = 2
  ConcurrentGames = 1
  NumGames = 3
  NumActors = 2
  NumPlays = 1
  MaxFailures = 1
PROPERTY
  PlayEnds
CHECK_DEADLOCK FALSE
