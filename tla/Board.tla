-------------------------------- MODULE Board --------------------------------
(***************************************************************************)
(* The value type gomoku::Board of core/board.h and core/board.cc: the     *)
(* bitset of stones, the player to move and the move counter, with every   *)
(* operation of the class as an operator on such a value.  The program     *)
(* copies boards freely (referee, one per actor, one per playout), so the  *)
(* modules that own a board hold one of these records in a variable.       *)
(*                                                                         *)
(* An operation that can abort the process (CHECK, LOG(FATAL)) comes with  *)
(* the predicate that says when it does not: ApplyMoveChecks,              *)
(* RevertMoveChecks, HasLegalMove.                                         *)
(***************************************************************************)
EXTENDS Integers, FiniteSetsExt

CONSTANTS
  Width,       \* Board::kWidth,  19 in the program
  Height,      \* Board::kHeight, 19 in the program
  WinLength    \* stones in a winning line, 5 in the program

ASSUME BoardAssumption ==
  /\ Width \in Nat \ {0}
  /\ Height \in Nat \ {0}
  /\ WinLength \in Nat \ {0}

(***************************************************************************)
(* Players.  NONE is what StoneAt returns for a free field; it is never    *)
(* the player to move.                                                     *)
(***************************************************************************)
kPlayers == {"FIRST", "SECOND"}

NONE == "NONE"

kOpponent == [p \in kPlayers |-> IF p = "FIRST" THEN "SECOND" ELSE "FIRST"]

(***************************************************************************)
(* Positions and the bits of fields_ that belong to them.                  *)
(***************************************************************************)
Positions == (0 .. Width - 1) \X (0 .. Height - 1)

Inside(position) ==
  /\ position[1] >= 0 /\ position[1] < Width
  /\ position[2] >= 0 /\ position[2] < Height

FieldsAllocated == 0 .. (Width * Height * 2 - 1)

(* A bug: the stride of a column is taken from the wrong dimension.        *)
BugIndexStride(position) == (position[1] * Width + position[2]) * 2

Index(position) == (position[1] * Height + position[2]) * 2

kPlayerOffset == [p \in kPlayers |-> IF p = "FIRST" THEN 0 ELSE 1]

BoardType ==
  [fields : SUBSET FieldsAllocated, current_player : kPlayers, moves_made : Nat]

(***************************************************************************)
(* The stone at a position, and at a position that may be off the board.   *)
(***************************************************************************)
StoneAt(b, position) ==
  IF Index(position) \in b.fields THEN "FIRST"
  ELSE IF Index(position) + 1 \in b.fields THEN "SECOND"
  ELSE NONE

StoneAtPadded(b, position) ==
  IF Inside(position) THEN StoneAt(b, position) ELSE NONE

LegalMoves(b) == {position \in Positions : StoneAt(b, position) = NONE}

(* The stones of a player, and that the two bits of a field are never both *)
(* set, for stating properties.                                            *)
StonesOf(b, player) == {position \in Positions : StoneAt(b, position) = player}

OneStonePerField(b) ==
  \A position \in Positions :
    ~(Index(position) \in b.fields /\ Index(position) + 1 \in b.fields)

(***************************************************************************)
(* Reset, ApplyMove and RevertMove.                                        *)
(***************************************************************************)
StartBoard == [fields |-> {}, current_player |-> "FIRST", moves_made |-> 0]

(* A bug: only the bit of the player to move is tested.                    *)
BugApplyMoveChecks(b, move) ==
  Index(move) + kPlayerOffset[b.current_player] \notin b.fields

ApplyMoveChecks(b, move) ==
  /\ Index(move) \notin b.fields
  /\ Index(move) + 1 \notin b.fields

ApplyMove(b, move) ==
  [fields         |-> b.fields \cup {Index(move) + kPlayerOffset[b.current_player]},
   current_player |-> kOpponent[b.current_player],
   moves_made     |-> b.moves_made + 1]

RevertMoveChecks(b, move) ==
  Index(move) + kPlayerOffset[kOpponent[b.current_player]] \in b.fields

(* A bug: the move counter is not taken back.                              *)
BugRevertMove(b, move) ==
  [fields         |-> b.fields \ {Index(move) + kPlayerOffset[kOpponent[b.current_player]]},
   current_player |-> kOpponent[b.current_player],
   moves_made     |-> b.moves_made]

RevertMove(b, move) ==
  [fields         |-> b.fields \ {Index(move) + kPlayerOffset[kOpponent[b.current_player]]},
   current_player |-> kOpponent[b.current_player],
   moves_made     |-> b.moves_made - 1]

(* A bug: the last field is not counted.                                   *)
BugNoMovePossible(b) == b.moves_made = Width * Height - 1

NoMovePossible(b) == b.moves_made = Width * Height

(***************************************************************************)
(* DidWin: a ray is the number of consecutive stones of the player that    *)
(* made the last move, going from it (and not counting it) in a direction. *)
(* The loop stops at the first field that is not the player's, and the     *)
(* padding makes that happen at the edge of the board at the latest.       *)
(***************************************************************************)
Directions == {<<0, 1>>, <<1, 0>>, <<1, 1>>, <<1, -1>>}

Step(position, count, direction) ==
  <<position[1] + count * direction[1], position[2] + count * direction[2]>>

Negative(direction) == <<-direction[1], -direction[2]>>

CastRay(b, last_move, direction, player) ==
  CHOOSE count \in 0 .. (Width + Height) :
    /\ \A i \in 1 .. count : StoneAtPadded(b, Step(last_move, i, direction)) = player
    /\ StoneAtPadded(b, Step(last_move, count + 1, direction)) # player

(* A bug: only the ray in the positive direction is cast.                  *)
BugDidWin(b, last_move) ==
  \E direction \in Directions :
    CastRay(b, last_move, direction, kOpponent[b.current_player]) >= WinLength - 1

DidWin(b, last_move) ==
  \E direction \in Directions :
    LET player == kOpponent[b.current_player]
        negative_count == CastRay(b, last_move, Negative(direction), player)
        positive_count == CastRay(b, last_move, direction, player)
    IN positive_count + negative_count >= WinLength - 1

(* A line of WinLength stones of one player that goes through a position,  *)
(* for stating properties.                                                 *)
LineThrough(b, position, player) ==
  \E direction \in Directions, before \in 0 .. (WinLength - 1) :
    \A i \in 0 .. (WinLength - 1) :
      StoneAtPadded(b, Step(position, i - before, direction)) = player

(***************************************************************************)
(* UniformlySampleLegalMove: two random offsets, then the first free field *)
(* of a scan of the board that starts there, column by column, each        *)
(* coordinate wrapping around.  The scan step k visits x = k \div Height   *)
(* and y = k % Height.  On a full board the scan ends in LOG(FATAL).       *)
(***************************************************************************)
Offsets == (0 .. Width - 1) \X (0 .. Height - 1)

ScanField(offset, k) ==
  <<((k \div Height) + offset[1]) % Width, ((k % Height) + offset[2]) % Height>>

HasLegalMove(b) == \E position \in Positions : StoneAt(b, position) = NONE

(* A bug: the scan covers the first column of the shifted board only.      *)
BugSampleLegalMove(b, offset) ==
  LET free == {k \in 0 .. (Height - 1) : StoneAt(b, ScanField(offset, k)) = NONE}
  IN ScanField(offset, IF free = {} THEN 0 ELSE Min(free))

SampleLegalMove(b, offset) ==
  LET free == {k \in 0 .. (Width * Height - 1) : StoneAt(b, ScanField(offset, k)) = NONE}
  IN ScanField(offset, Min(free))

==============================================================================
