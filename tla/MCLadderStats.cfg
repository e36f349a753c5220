\* Three actors, so that one may sit out; two calls of Play, one failure.
SPECIFICATION Spec
CONSTANTS
  NumWorkers = 2
  ConcurrentGames = 1
  NumGames = 3
  NumActors = 3
  NumPlays = 2
  MaxFailures = 1
INVARIANTS
  StatsBalance
  MatchupsAreUniform
CHECK_DEADLOCK FALSE
