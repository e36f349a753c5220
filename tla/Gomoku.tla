-------------------------------- MODULE Gomoku --------------------------------
(***************************************************************************)
(* The game as its rules describe it, with no bitset, no copies and no     *)
(* notion of a last move: "The players put down stones in turns on a 19x19 *)
(* board.  The first player to get 5 stones in a row (vertically,          *)
(* horizontally or diagonally) wins."  A full board without such a row is  *)
(* a draw.  This is what a call of PlayGame must implement.                *)
(***************************************************************************)
EXTENDS Integers

CONSTANTS Width, Height, WinLength

VARIABLES
  stones,     \* the owner of each field, "NONE" if it is free
  turn,       \* the player who puts down the next stone
  outcome     \* "open", "draw" or the winner

gameVars == <<stones, turn, outcome>>

Fields == (0 .. Width - 1) \X (0 .. Height - 1)

(* A row starts at a field and goes up, right or along a diagonal.         *)
RowFields(start, dx, dy) ==
  {<<start[1] + i * dx, start[2] + i * dy>> : i \in 0 .. (WinLength - 1)}

Rows ==
  {RowFields(start, d[1], d[2]) :
     start \in Fields, d \in {<<0, 1>>, <<1, 0>>, <<1, 1>>, <<1, -1>>}}

HasRow(s, player) ==
  \E row \in Rows : row \subseteq Fields /\ \A f \in row : s[f] = player

GameInit ==
  /\ stones = [f \in Fields |-> "NONE"]
  /\ turn = "FIRST"
  /\ outcome = "open"

PutStone(f) ==
  /\ outcome = "open"
  /\ stones[f] = "NONE"
  /\ stones' = [stones EXCEPT ![f] = turn]
  /\ turn' = IF turn = "FIRST" THEN "SECOND" ELSE "FIRST"
  /\ outcome' = IF HasRow(stones', turn) THEN turn
                ELSE IF \A g \in Fields : stones'[g] # "NONE" THEN "draw"
                ELSE "open"

GameNext == \E f \in Fields : PutStone(f)

GameSpec == GameInit /\ [][GameNext]_gameVars
===============================================================================
