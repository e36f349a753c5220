\* Each kind of actor, ones that cannot be created included, on a strip where
\* playouts can be won, lost and drawn, and every free field can be losing.
\* Every game is decoded at every point.
SPECIFICATION Spec
CONSTANTS
  Width = 6
  Height = 1
  WinLength = 2
  Requests <- MixedRequests
INVARIANTS
  TypeOK
  ReplicasAgree
  MovesAreLegal
  PlayoutContinuesGame
  AbortsAreExplained
  DecodingRestoresBoard
  WonScoresMarkWinner
PROPERTIES
  CallEnds
  RandomGameFinishes
