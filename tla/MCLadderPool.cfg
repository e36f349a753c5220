\* Two slots on each of two workers, more games than slots, two failures.
SPECIFICATION Spec
CONSTANTS
  NumWorkers = 2
  ConcurrentGames = 2
  NumGames = 5
  NumActors = 2
  NumPlays = 1
  MaxFailures = 2
INVARIANTS
  TypeOK
  GamesAccounted
  SlotsConserved
  WorkerLoadBounded
  ReturnsOnlyComplete
PROPERTY
  PlayEndsUnlessGamesLost
CHECK_DEADLOCK FALSE
