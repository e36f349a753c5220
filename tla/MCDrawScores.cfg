\* A drawn game is recorded as won by the second player.
SPECIFICATION Spec
CONSTANTS
  Width = 2
  Height = 4
  WinLength = 3
  Requests <- RandomRequests
INVARIANT
  ScoresMarkWinner
