\* A board with lines in all four directions, at and away from the edges, and
\* every sequence of calls on it.
SPECIFICATION Spec
CONSTANTS
  Width = 4
  Height = 3
  WinLength = 3
INVARIANTS
  TypeOK
  StonesMatchTurn
  FullBoardHasNoMove
  SamplerCoversLegalMoves
  DidWinIsLine
PROPERTIES
  StonesKeepOwner
  RevertUndoesApply
CHECK_DEADLOCK FALSE
