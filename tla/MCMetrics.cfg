\* Three games of a Monte Carlo actor against another actor, on either side.
SPECIFICATION Spec
CONSTANTS
  ActorNames = {"mc_linear_actor", "random_actor"}
  MonteCarloNames = {"mc_linear_actor"}
  NumGames = 3
  MaxMoves = 3
  MaxDepth = 2
  Values = {0, 1}
INVARIANTS
  TypeOK
  MeansAreMeansOfSamples
  OneSamplePerCall
CHECK_DEADLOCK FALSE
