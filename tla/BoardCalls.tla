------------------------------ MODULE BoardCalls ------------------------------
(***************************************************************************)
(* One Board object and the calls its owners may make on it, in any order: *)
(* ApplyMove and RevertMove of any position on the board, and Reset.  The  *)
(* queries are checked in every state these calls reach.                   *)
(***************************************************************************)
EXTENDS Board

VARIABLES
  board,     \* the object
  aborted    \* a CHECK of board.cc failed and ended the process

vars == <<board, aborted>>

TypeOK ==
  /\ board \in BoardType
  /\ aborted \in BOOLEAN

Init ==
  /\ board = StartBoard
  /\ aborted = FALSE

Apply(move) ==
  /\ ~aborted
  /\ \/ /\ ApplyMoveChecks(board, move)
        /\ board' = ApplyMove(board, move)
        /\ UNCHANGED aborted
     \/ /\ ~ApplyMoveChecks(board, move)
        /\ aborted' = TRUE
        /\ UNCHANGED board

Revert(move) ==
  /\ ~aborted
  /\ \/ /\ RevertMoveChecks(board, move)
        /\ board' = RevertMove(board, move)
        /\ UNCHANGED aborted
     \/ /\ ~RevertMoveChecks(board, move)
        /\ aborted' = TRUE
        /\ UNCHANGED board

Reset ==
  /\ ~aborted
  /\ board' = StartBoard
  /\ UNCHANGED aborted

Next ==
  \/ \E move \in Positions : Apply(move) \/ Revert(move)
  \/ Reset

Spec == Init /\ [][Next]_vars

-------------------------------------------------------------------------------
(* Whatever is applied and reverted, and in whatever order the stones come *)
(* off, the turn and the move counter agree with the stones on the board:  *)
(* FIRST has as many stones as SECOND when FIRST is to move and one more   *)
(* when SECOND is, and moves_made_ counts them all.                        *)
StonesMatchTurn ==
  LET first == Cardinality(StonesOf(board, "FIRST"))
      second == Cardinality(StonesOf(board, "SECOND"))
  IN /\ OneStonePerField(board)
     /\ first = second + (IF board.current_player = "SECOND" THEN 1 ELSE 0)
     /\ board.moves_made = first + second

(* NoMovePossible, which only looks at the counter, is true exactly when   *)
(* there is no free field: the loops that stop on it neither run into the  *)
(* LOG(FATAL) of the sampler nor end a game that could go on.              *)
FullBoardHasNoMove == NoMovePossible(board) <=> ~HasLegalMove(board)

(* UniformlySampleLegalMove returns a free field for every pair of random  *)
(* offsets, and can return every free field.                               *)
SamplerCoversLegalMoves ==
  HasLegalMove(board) =>
    LegalMoves(board) = {SampleLegalMove(board, offset) : offset \in Offsets}

(* DidWin, which adds the lengths of two rays, answers whether the stone   *)
(* just put down lies in a line of WinLength stones, wherever in the line. *)
DidWinIsLine ==
  LET player == kOpponent[board.current_player]
  IN \A position \in StonesOf(board, player) :
       DidWin(board, position) <=> LineThrough(board, position, player)

(* A call never turns a stone of one player into one of the other.         *)
StonesKeepOwner ==
  [][\A position \in Positions :
       StoneAt(board, position) # NONE
         => StoneAt(board', position) \in {StoneAt(board, position), NONE}]_vars

(* RevertMove right after ApplyMove of the same move passes its CHECK and  *)
(* restores the board, operator== included.                                *)
RevertUndoesApply ==
  [][\A move \in Positions :
       ApplyMoveChecks(board, move) /\ Apply(move)
         => /\ RevertMoveChecks(board', move)
            /\ RevertMove(board', move) = board]_vars
===============================================================================
