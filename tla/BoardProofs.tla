------------------------------ MODULE BoardProofs ------------------------------
(***************************************************************************)
(* Theorems about the Board object and any sequence of calls on it, for    *)
(* every size of board.  TypeOK /\ StonesMatchTurn is inductive.           *)
(***************************************************************************)
EXTENDS BoardCalls, BoardLemmas

-------------------------------------------------------------------------------
(* The inductive invariant: neither conjunct is inductive alone, since     *)
(* only the count of stones keeps the move counter from going below 0.     *)
BoardInv == TypeOK /\ StonesMatchTurn

LEMMA BoardInvIsBalance == StonesMatchTurn <=> Balanced(board)
  BY DEF StonesMatchTurn, Balanced

LEMMA BoardInvInit == Init => BoardInv
  BY StartBoardBalanced, BoardInvIsBalance DEF Init, BoardInv, TypeOK

LEMMA BoardInvNext == BoardInv /\ [Next]_vars => BoardInv'
<1> SUFFICES ASSUME TypeOK, Balanced(board), [Next]_vars
             PROVE  TypeOK' /\ Balanced(board)'
  BY BoardInvIsBalance DEF BoardInv, StonesMatchTurn, Balanced
<1>1. board \in BoardType /\ aborted \in BOOLEAN
  BY DEF TypeOK
<1>2. ASSUME NEW m \in Positions, Apply(m)
      PROVE  TypeOK' /\ Balanced(board)'
  <2>1. CASE ApplyMoveChecks(board, m)
    <3>1. board' = ApplyMove(board, m) /\ aborted' = aborted
      BY <1>2, <2>1 DEF Apply
    <3>2. ApplyMove(board, m) \in BoardType
      BY <1>1, MovesKeepBoardType
    <3>3. Balanced(ApplyMove(board, m))
      BY <1>1, <2>1, ApplyKeepsBalance
    <3> QED
      BY <1>1, <3>1, <3>2, <3>3 DEF TypeOK
  <2>2. CASE ~ApplyMoveChecks(board, m)
    <3>1. board' = board /\ aborted' = TRUE
      BY <1>2, <2>2 DEF Apply
    <3> QED
      BY <1>1, <3>1 DEF TypeOK
  <2> QED
    BY <2>1, <2>2
<1>3. ASSUME NEW m \in Positions, Revert(m)
      PROVE  TypeOK' /\ Balanced(board)'
  <2>1. CASE RevertMoveChecks(board, m)
    <3>1. board' = RevertMove(board, m) /\ aborted' = aborted
      BY <1>3, <2>1 DEF Revert
    <3>2. board.moves_made > 0 /\ Balanced(RevertMove(board, m))
      BY <1>1, <2>1, RevertKeepsBalance
    <3>3. RevertMove(board, m) \in BoardType
      BY <1>1, <3>2, MovesKeepBoardType
    <3> QED
      BY <1>1, <3>1, <3>2, <3>3 DEF TypeOK
  <2>2. CASE ~RevertMoveChecks(board, m)
    <3>1. board' = board /\ aborted' = TRUE
      BY <1>3, <2>2 DEF Revert
    <3> QED
      BY <1>1, <3>1 DEF TypeOK
  <2> QED
    BY <2>1, <2>2
<1>4. CASE Reset
  <2>1. board' = StartBoard /\ aborted' = aborted
    BY <1>4 DEF Reset
  <2> QED
    BY <1>1, <2>1, StartBoardBalanced DEF TypeOK
<1>5. CASE UNCHANGED vars
  <2>1. board' = board /\ aborted' = aborted
    BY <1>5 DEF vars
  <2> QED
    BY <1>1, <2>1 DEF TypeOK
<1> QED
  BY <1>2, <1>3, <1>4, <1>5 DEF Next

LEMMA BoardInvAlways == Spec => []BoardInv
  BY BoardInvInit, BoardInvNext, PTL DEF Spec

(* Every call keeps the bitset, the player to move and the move counter    *)
(* well-formed; in particular moves_made_ never becomes negative.          *)
THEOREM TypeCorrect == Spec => []TypeOK
<1>1. BoardInv => TypeOK
  BY DEF BoardInv
<1> QED
  BY <1>1, BoardInvAlways, PTL

(* On a board of any size, and whatever is applied, reverted and reset,    *)
(* the turn and the move counter agree with the stones.                    *)
THEOREM StonesMatchTurnAlways == Spec => []StonesMatchTurn
<1>1. BoardInv => StonesMatchTurn
  BY DEF BoardInv
<1> QED
  BY <1>1, BoardInvAlways, PTL

(* On a board of any size NoMovePossible, which compares a counter, says   *)
(* whether a free field is left.                                           *)
THEOREM FullBoardHasNoMoveAlways == Spec => []FullBoardHasNoMove
<1>1. BoardInv => FullBoardHasNoMove
  BY BoardInvIsBalance, BalancedCountsFields DEF BoardInv, TypeOK, FullBoardHasNoMove
<1> QED
  BY <1>1, BoardInvAlways, PTL

(* On a board of any size the scan of UniformlySampleLegalMove returns a   *)
(* free field for every pair of offsets, and can return each of them.      *)
THEOREM SamplerCoversLegalMovesAlways == Spec => []SamplerCoversLegalMoves
<1>1. SamplerCoversLegalMoves
  BY SampleIsLegal, EveryLegalMoveIsSampled DEF SamplerCoversLegalMoves
<1> QED
  BY <1>1, PTL

(* On a board of any size, and for any length of a line, DidWin says       *)
(* whether the stone lies in a line: a ray stops at the edge of the board  *)
(* at the latest, and not before the first field that is not the player's. *)
THEOREM DidWinIsLineAlways == Spec => []DidWinIsLine
<1>1. BoardInv => DidWinIsLine
  BY DidWinFindsLines DEF BoardInv, TypeOK, DidWinIsLine
<1> QED
  BY <1>1, BoardInvAlways, PTL

-------------------------------------------------------------------------------
(* RevertMove undoes ApplyMove in every reachable state.                   *)
THEOREM RevertUndoesApplyAlways == Spec => RevertUndoesApply
<1> DEFINE Undone ==
      \A move \in Positions :
        ApplyMoveChecks(board, move) /\ Apply(move)
          => /\ RevertMoveChecks(board', move)
             /\ RevertMove(board', move) = board
<1>1. BoardInv /\ [Next]_vars => [Undone]_vars
  <2> SUFFICES ASSUME BoardInv, NEW m \in Positions, ApplyMoveChecks(board, m), Apply(m)
               PROVE  RevertMoveChecks(board', m) /\ RevertMove(board', m) = board
    OBVIOUS
  <2>1. board \in BoardType
    BY DEF BoardInv, TypeOK
  <2>2. board' = ApplyMove(board, m)
    BY DEF Apply
  <2> QED
    BY <2>1, <2>2, RevertAfterApply
<1>2. Spec => [][Undone]_vars
  BY <1>1, BoardInvAlways, PTL DEF Spec
<1> QED
  BY <1>2 DEF RevertUndoesApply

(* No call turns a stone of one player into one of the other.              *)
THEOREM StonesKeepOwnerAlways == Spec => StonesKeepOwner
<1> DEFINE Kept ==
      \A position \in Positions :
        StoneAt(board, position) # NONE
          => StoneAt(board', position) \in {StoneAt(board, position), NONE}
<1>1. BoardInv /\ [Next]_vars => [Kept]_vars
  <2> SUFFICES ASSUME BoardInv, Next, NEW p \in Positions, StoneAt(board, p) # NONE
               PROVE  StoneAt(board', p) \in {StoneAt(board, p), NONE}
    OBVIOUS
  <2>1. board \in BoardType /\ OneStonePerField(board)
    BY BoardInvIsBalance DEF BoardInv, TypeOK, Balanced
  <2>2. ASSUME NEW m \in Positions, Apply(m)
        PROVE  StoneAt(board', p) \in {StoneAt(board, p), NONE}
    <3>1. CASE ApplyMoveChecks(board, m)
      <4>1. board' = ApplyMove(board, m)
        BY <2>2, <3>1 DEF Apply
      <4>2. p # m
        BY <3>1 DEF ApplyMoveChecks, StoneAt
      <4> QED
        BY <2>1, <3>1, <4>1, <4>2, StoneAfterApply
    <3>2. CASE ~ApplyMoveChecks(board, m)
      BY <2>2, <3>2 DEF Apply
    <3> QED
      BY <3>1, <3>2
  <2>3. ASSUME NEW m \in Positions, Revert(m)
        PROVE  StoneAt(board', p) \in {StoneAt(board, p), NONE}
    <3>1. CASE RevertMoveChecks(board, m)
      <4>1. board' = RevertMove(board, m)
        BY <2>3, <3>1 DEF Revert
      <4> QED
        BY <2>1, <3>1, <4>1, StoneAfterRevert
    <3>2. CASE ~RevertMoveChecks(board, m)
      BY <2>3, <3>2 DEF Revert
    <3> QED
      BY <3>1, <3>2
  <2>4. CASE Reset
    BY <2>4 DEF Reset, StartBoard, StoneAt, NONE
  <2> QED
    BY <2>2, <2>3, <2>4 DEF Next
<1>2. Spec => [][Kept]_vars
  BY <1>1, BoardInvAlways, PTL DEF Spec
<1> QED
  BY <1>2 DEF StonesKeepOwner
================================================================================
