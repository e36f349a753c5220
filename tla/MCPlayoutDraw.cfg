\* A playout fills the board and nobody wins it.
SPECIFICATION Spec
CONSTANTS
  Width = 3
  Height = 2
  WinLength = 3
  Requests <- LinearRequests
VIEW WithoutMoveHistory
INVARIANT
  NeverOutOfMoves
