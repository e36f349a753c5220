\* Every game on a 3x3 board: two RandomActors can play any.
SPECIFICATION Spec
CONSTANTS
  Width = 3
  Height = 3
  WinLength = 3
  Requests <- RandomRequests
VIEW WithoutMoveHistory
INVARIANT
  ScoreMatchesBoard
PROPERTY
  ImplementsRules
