---------------------------- MODULE PlayGameProofs ----------------------------
(***************************************************************************)
(* Theorems about one call of PlayGame, for every size of the board, every *)
(* length of a row and every pair of actors.                               *)
(*                                                                         *)
(* The rules (module Gomoku) look for a row anywhere on the board, DidWin  *)
(* only along the rays of the last move.  That these are the same needs    *)
(* the invariant that nobody had a row before (NoRowYet): a row that is    *)
(* new goes through the new stone.  GameInv joins to it that the stones    *)
(* are balanced and one per field, that the actors' boards are the         *)
(* referee's, and that the actor to move exists and is on its own step.    *)
(***************************************************************************)
EXTENDS PlayGame, BoardLemmas

(* A board as the rules see it.                                            *)
Stones(b) == [f \in Positions |-> StoneAt(b, f)]

RowOn(b, p) == Rules!HasRow(Stones(b), p)

(* A row of the rules, as fields in a direction from its first one.        *)
LineFrom(b, start, d, p) ==
  \A i \in 0 .. (WinLength - 1) : StoneAtPadded(b, Step(start, i, d)) = p

LEMMA PositionsAreInside ==
  ASSUME NEW x \in Int, NEW y \in Int
  PROVE  <<x, y>> \in Positions <=> Inside(<<x, y>>)
  BY BoardAssumption DEF Positions, Inside

LEMMA StepType ==
  ASSUME NEW position \in Int \X Int, NEW d \in Directions, NEW i \in Int
  PROVE  Step(position, i, d) \in Int \X Int
<1>1. d[1] \in Int /\ d[2] \in Int
  BY DEF Directions
<1> QED
  BY <1>1 DEF Step

LEMMA StepsAdd ==
  ASSUME NEW position \in Int \X Int, NEW d \in Directions, NEW i \in Int, NEW j \in Int
  PROVE  Step(Step(position, i, d), j, d) = Step(position, i + j, d)
<1>1. CASE d = <<0, 1>>
  BY <1>1 DEF Step
<1>2. CASE d = <<1, 0>>
  BY <1>2 DEF Step
<1>3. CASE d = <<1, 1>>
  BY <1>3 DEF Step
<1>4. CASE d = <<1, -1>>
  BY <1>4 DEF Step
<1> QED
  BY <1>1, <1>2, <1>3, <1>4 DEF Directions

LEMMA OwnedFieldIsInside ==
  ASSUME NEW b, NEW f \in Int \X Int, NEW p \in kPlayers
  PROVE  StoneAtPadded(b, f) = p <=> f \in Positions /\ StoneAt(b, f) = p
<1>1. f = <<f[1], f[2]>> /\ f[1] \in Int /\ f[2] \in Int
  OBVIOUS
<1>2. f \in Positions <=> Inside(f)
  BY <1>1, PositionsAreInside
<1> QED
  BY <1>2 DEF StoneAtPadded, kPlayers, NONE

LEMMA RowIsLine ==
  ASSUME NEW b, NEW p \in kPlayers
  PROVE  RowOn(b, p) <=> \E start \in Positions, d \in Directions : LineFrom(b, start, d, p)
<1>1. Rules!Fields = Positions
  BY DEF Rules!Fields, Positions
<1>2. Positions \subseteq Int \X Int
  BY BoardAssumption DEF Positions
<1>3. ASSUME NEW start \in Positions, NEW d \in Directions
      PROVE  LineFrom(b, start, d, p) <=>
               /\ Rules!RowFields(start, d[1], d[2]) \subseteq Positions
               /\ \A f \in Rules!RowFields(start, d[1], d[2]) : Stones(b)[f] = p
  <2>1. Rules!RowFields(start, d[1], d[2]) = {Step(start, i, d) : i \in 0 .. (WinLength - 1)}
    BY DEF Rules!RowFields, Step
  <2>2. \A i \in 0 .. (WinLength - 1) : Step(start, i, d) \in Int \X Int
    BY <1>2, StepType
  <2>3. ASSUME NEW i \in 0 .. (WinLength - 1)
        PROVE  StoneAtPadded(b, Step(start, i, d)) = p
                 <=> Step(start, i, d) \in Positions /\ Stones(b)[Step(start, i, d)] = p
    BY <2>2, OwnedFieldIsInside DEF Stones
  <2> QED
    BY <2>1, <2>3 DEF LineFrom
<1>4. RowOn(b, p) <=> \E start \in Positions, d \in Directions :
                         /\ Rules!RowFields(start, d[1], d[2]) \subseteq Positions
                         /\ \A f \in Rules!RowFields(start, d[1], d[2]) : Stones(b)[f] = p
  BY <1>1 DEF RowOn, Rules!HasRow, Rules!Rows, Directions
<1> QED
  BY <1>3, <1>4

(* A line through a field is a row, and a row that a field belongs to is a *)
(* line through it.                                                        *)
LEMMA LineThroughIsRow ==
  ASSUME NEW b, NEW p \in kPlayers, NEW m \in Positions, LineThrough(b, m, p)
  PROVE  RowOn(b, p)
<1>1. Positions \subseteq Int \X Int
  BY BoardAssumption DEF Positions
<1>2. PICK d \in Directions, before \in 0 .. (WinLength - 1) :
        \A i \in 0 .. (WinLength - 1) : StoneAtPadded(b, Step(m, i - before, d)) = p
  BY DEF LineThrough
<1> DEFINE start == Step(m, -before, d)
<1>3. start \in Int \X Int
  <2>1. m \in Int \X Int /\ -before \in Int
    BY <1>1, BoardAssumption
  <2> QED
    BY <2>1, StepType, Zenon
<1>4. ASSUME NEW i \in 0 .. (WinLength - 1)
      PROVE  StoneAtPadded(b, Step(start, i, d)) = p
  <2>1. -before \in Int /\ i \in Int /\ -before + i = i - before
    BY BoardAssumption
  <2>2. Step(start, i, d) = Step(m, -before + i, d)
    BY <1>1, <2>1, StepsAdd
  <2> QED
    BY <1>2, <2>1, <2>2
<1>5. Step(start, 0, d) = start
  <2>1. d[1] \in Int /\ d[2] \in Int
    BY DEF Directions
  <2> HIDE DEF start
  <2> QED
    BY <1>3, <2>1 DEF Step
<1>6. start \in Positions
  <2>1. 0 \in 0 .. (WinLength - 1)
    BY BoardAssumption
  <2>2. StoneAtPadded(b, start) = p
    BY <1>4, <1>5, <2>1
  <2> HIDE DEF start
  <2> QED
    BY <1>3, <2>2, OwnedFieldIsInside
<1> HIDE DEF start
<1>7. LineFrom(b, start, d, p)
  BY <1>4 DEF LineFrom
<1> QED
  BY <1>6, <1>7, RowIsLine

LEMMA RowThroughIsLine ==
  ASSUME NEW b, NEW p \in kPlayers, NEW m \in Positions,
         NEW start \in Positions, NEW d \in Directions, LineFrom(b, start, d, p),
         NEW j \in 0 .. (WinLength - 1), Step(start, j, d) = m
  PROVE  LineThrough(b, m, p)
<1>1. start \in Int \X Int
  BY BoardAssumption DEF Positions
<1>2. ASSUME NEW i \in 0 .. (WinLength - 1)
      PROVE  StoneAtPadded(b, Step(m, i - j, d)) = p
  <2>1. j \in Int /\ i - j \in Int /\ j + (i - j) = i
    BY BoardAssumption
  <2>2. Step(m, i - j, d) = Step(start, j + (i - j), d)
    BY <1>1, <2>1, StepsAdd
  <2> QED
    BY <2>1, <2>2 DEF LineFrom
<1> QED
  BY <1>2 DEF LineThrough

(* A move changes the owner of one field, and so it makes rows only for    *)
(* the player who made it, and only through that field.                    *)
LEMMA NewRowsGoThroughMove ==
  ASSUME NEW b \in BoardType, NEW m \in Positions, ApplyMoveChecks(b, m),
         \A p \in kPlayers : ~RowOn(b, p)
  PROVE  /\ RowOn(ApplyMove(b, m), b.current_player) <=> DidWin(ApplyMove(b, m), m)
         /\ ~RowOn(ApplyMove(b, m), kOpponent[b.current_player])
<1> DEFINE c == ApplyMove(b, m)
           me == b.current_player
           opp == kOpponent[b.current_player]
<1>1. me \in kPlayers /\ opp \in kPlayers /\ opp # me /\ NONE # me /\ NONE # opp
  BY DEF BoardType, kPlayers, kOpponent, NONE
<1>2. c \in BoardType
  BY MovesKeepBoardType
<1>3. kOpponent[c.current_player] = me
  BY DEF ApplyMove, kOpponent, kPlayers, BoardType
<1>4. \A f \in Positions : StoneAt(c, f) = IF f = m THEN me ELSE StoneAt(b, f)
  BY StoneAfterApply
<1> HIDE DEF c, me, opp
<1>5. Positions \subseteq Int \X Int
  BY BoardAssumption DEF Positions
<1>6. ASSUME NEW start \in Positions, NEW d \in Directions, NEW p \in kPlayers,
             LineFrom(c, start, d, p)
      PROVE  p = me /\ LineThrough(c, m, me)
  <2>1. ~LineFrom(b, start, d, p)
    BY RowIsLine
  <2>2. PICK j \in 0 .. (WinLength - 1) : StoneAtPadded(b, Step(start, j, d)) # p
    BY <2>1 DEF LineFrom
  <2>3. Step(start, j, d) \in Int \X Int
    <3>1. start \in Int \X Int /\ j \in Int
      BY <1>5, BoardAssumption
    <3> QED
      BY <3>1, StepType
  <2>4. StoneAtPadded(c, Step(start, j, d)) = p
    BY <1>6 DEF LineFrom
  <2>5. Step(start, j, d) \in Positions /\ StoneAt(c, Step(start, j, d)) = p
    BY <2>3, <2>4, OwnedFieldIsInside
  <2>6. StoneAt(b, Step(start, j, d)) # p
    BY <2>2, <2>3, <2>5, OwnedFieldIsInside
  <2>7. Step(start, j, d) = m /\ p = me
    BY <1>4, <2>5, <2>6
  <2> QED
    BY <1>6, <2>7, RowThroughIsLine
<1>7. ~RowOn(c, opp)
  BY <1>1, <1>6, RowIsLine
<1>8. RowOn(c, me) <=> LineThrough(c, m, me)
  BY <1>1, <1>6, RowIsLine, LineThroughIsRow
<1>9. DidWin(c, m) <=> LineThrough(c, m, me)
  <2>1. m \in StonesOf(c, kOpponent[c.current_player])
    BY <1>3, <1>4 DEF StonesOf
  <2> QED
    BY <1>2, <1>3, <2>1, DidWinFindsLines
<1> QED
  BY <1>7, <1>8, <1>9 DEF c, me, opp

-------------------------------------------------------------------------------
NoRowYet == pc # "finished" => \A p \in kPlayers : ~RowOn(board, p)

(* What the last move left behind.                                         *)
GameIsOver ==
  pc = "finished" =>
    /\ recording.move # << >>
    /\ recording.score = Score(board, move)
    /\ GameOver(board, move)
    /\ DidWin(board, move) <=> RowOn(board, kOpponent[board.current_player])
    /\ ~RowOn(board, board.current_player)

ActorIsReady ==
  /\ pc = "prepare" => board = StartBoard /\ recording.move = << >>
  /\ pc \in {"choose", "simulate", "playout"} => ~NoMovePossible(board)
  /\ pc \in {"simulate", "playout"} =>
       /\ request[Mover].type = "MonteCarloActor"
       /\ HasCell(request[Mover], "logistic") \/ negative = {}
  /\ pc = "playout" => Balanced(sim_board) /\ exploring_move \in Positions
  /\ pc = "apply" => move \in Positions
  /\ pc \in {"prepare", "choose", "simulate", "apply"} => sim_move = NoMove

GameInv ==
  /\ TypeOK
  /\ Balanced(board)
  /\ ReplicasAgree
  /\ ActorIsReady
  /\ MovesAreLegal
  /\ AbortsAreExplained
  /\ NoRowYet
  /\ GameIsOver

LEMMA GameInvInit == Init => GameInv
<1> SUFFICES ASSUME Init
             PROVE  GameInv
  OBVIOUS
<1>1. StartBoard \in BoardType /\ Balanced(StartBoard)
  BY StartBoardBalanced
<1>2. TypeOK
  <2>1. << >> \in Seq(Positions)
    OBVIOUS
  <2>2. recording \in [move : Seq(Positions), score : {0, 1}]
    BY <2>1 DEF Init
  <2>3. actor_board \in [kPlayers -> BoardType]
    BY <1>1 DEF Init
  <2>4. stop \in BOOLEAN /\ negative \subseteq Positions
    BY Zenon DEF Init
  <2> QED
    BY <1>1, <2>2, <2>3, <2>4 DEF Init, TypeOK, MoveType
<1>3. ASSUME NEW p \in kPlayers, RowOn(StartBoard, p)
      PROVE  FALSE
  <2>1. PICK start \in Positions, d \in Directions : LineFrom(StartBoard, start, d, p)
    BY <1>3, RowIsLine
  <2>2. StoneAtPadded(StartBoard, Step(start, 0, d)) = p
    BY <2>1, BoardAssumption DEF LineFrom
  <2> QED
    BY <2>2 DEF StoneAtPadded, StoneAt, StartBoard, kPlayers, NONE
<1> QED
  BY <1>1, <1>2, <1>3
  DEF Init, GameInv, ReplicasAgree, ActorIsReady, MovesAreLegal, AbortsAreExplained,
      NoRowYet, GameIsOver

(* Steps that leave the boards of referee and actors alone.                *)
LEMMA GameInvBoardsKept ==
  ASSUME GameInv, UNCHANGED <<board, actor_board, recording>>,
         pc \notin {"prepare", "finished", "fatal"}, pc' \notin {"prepare", "finished"}
  PROVE  Balanced(board)' /\ ReplicasAgree' /\ NoRowYet' /\ GameIsOver'
  BY DEF GameInv, TypeOK, ReplicasAgree, NoRowYet, GameIsOver

LEMMA GameInvPrepare == GameInv /\ PrepareActors => GameInv'
<1> SUFFICES ASSUME GameInv, PrepareActors
             PROVE  GameInv'
  OBVIOUS
<1>1. StartBoard \in BoardType /\ Balanced(StartBoard)
  BY StartBoardBalanced
<1>2. board = StartBoard /\ ~NoMovePossible(StartBoard)
  <2>1. 0 # Width * Height
    BY BoardAssumption
  <2> QED
    BY <2>1 DEF GameInv, ActorIsReady, PrepareActors, NoMovePossible, StartBoard
<1>3. TypeOK'
  BY <1>1 DEF GameInv, TypeOK, PrepareActors, simVars
<1>4. Balanced(board)' /\ NoRowYet' /\ GameIsOver' /\ ReplicasAgree'
  BY <1>2 DEF GameInv, PrepareActors, ReplicasAgree, NoRowYet, GameIsOver
<1>5. ActorIsReady'
  BY <1>2 DEF GameInv, PrepareActors, ActorIsReady, simVars
<1>6. MovesAreLegal'
  BY DEF PrepareActors, MovesAreLegal
<1>7. AbortsAreExplained'
  BY DEF GameInv, ActorIsReady, PrepareActors, AbortsAreExplained
<1> QED
  BY <1>3, <1>4, <1>5, <1>6, <1>7 DEF GameInv

LEMMA GameInvRandom == GameInv /\ RandomActorChooseMove => GameInv'
<1> SUFFICES ASSUME GameInv, RandomActorChooseMove
             PROVE  GameInv'
  OBVIOUS
<1>1. board \in BoardType /\ Balanced(board) /\ actor_board[Mover] = board
  BY DEF GameInv, TypeOK, RandomActorChooseMove, ReplicasAgree, Mover, BoardType
<1>2. HasLegalMove(board)
  BY <1>1, BalancedCountsFields DEF GameInv, ActorIsReady, RandomActorChooseMove
<1>3. pc = "choose" /\ pc' = "apply" /\ UNCHANGED <<request, board, actor_board, recording, stop, simVars, negative>>
  BY <1>1, <1>2 DEF RandomActorChooseMove
<1>4. move' \in LegalMoves(board) /\ move' \in Positions
  <2>1. PICK offset \in Offsets : move' = SampleLegalMove(board, offset)
    BY <1>1, <1>2 DEF RandomActorChooseMove
  <2>2. move' \in LegalMoves(board)
    BY <1>2, <2>1, SampleIsLegal
  <2> QED
    BY <2>2 DEF LegalMoves
<1>5. TypeOK'
  BY <1>3, <1>4 DEF GameInv, TypeOK, MoveType, simVars
<1>6. Balanced(board)' /\ ReplicasAgree' /\ NoRowYet' /\ GameIsOver'
  BY <1>3, GameInvBoardsKept
<1>7. ActorIsReady' /\ MovesAreLegal' /\ AbortsAreExplained'
  BY <1>3, <1>4 DEF GameInv, ActorIsReady, MovesAreLegal, AbortsAreExplained, simVars
<1> QED
  BY <1>5, <1>6, <1>7 DEF GameInv

LEMMA GameInvMonteCarlo == GameInv /\ MonteCarloActorChooseMove => GameInv'
<1> SUFFICES ASSUME GameInv, MonteCarloActorChooseMove
             PROVE  GameInv'
  OBVIOUS
<1>1. /\ pc = "choose" /\ pc' = "simulate" /\ negative' = {} /\ stop' = FALSE
      /\ request[Mover].type = "MonteCarloActor"
      /\ UNCHANGED <<request, board, actor_board, move, recording, simVars>>
  BY DEF MonteCarloActorChooseMove
<1>2. TypeOK'
  BY <1>1, Zenon DEF GameInv, TypeOK, simVars
<1>3. Balanced(board)' /\ ReplicasAgree' /\ NoRowYet' /\ GameIsOver'
  BY <1>1, GameInvBoardsKept
<1>4. ActorIsReady' /\ MovesAreLegal' /\ AbortsAreExplained'
  BY <1>1 DEF GameInv, ActorIsReady, MovesAreLegal, AbortsAreExplained, Mover, simVars
<1> QED
  BY <1>2, <1>3, <1>4 DEF GameInv

LEMMA GameInvTimeOut == GameInv /\ TimeOut => GameInv'
<1> SUFFICES ASSUME GameInv, TimeOut
             PROVE  GameInv'
  OBVIOUS
<1>1. /\ pc \in {"simulate", "playout"} /\ pc' = pc /\ stop' = TRUE
      /\ UNCHANGED <<request, board, actor_board, move, recording, simVars, negative>>
  BY DEF TimeOut
<1>2. TypeOK'
  BY <1>1 DEF GameInv, TypeOK, simVars
<1>3. Balanced(board)' /\ ReplicasAgree' /\ NoRowYet' /\ GameIsOver'
  BY <1>1, GameInvBoardsKept
<1>4. ActorIsReady' /\ MovesAreLegal' /\ AbortsAreExplained'
  BY <1>1 DEF GameInv, ActorIsReady, MovesAreLegal, AbortsAreExplained, Mover, simVars
<1> QED
  BY <1>2, <1>3, <1>4 DEF GameInv

(* A free field passes the CHECKs of ApplyMove, and only a free field.     *)
LEMMA LegalMovesPassChecks ==
  ASSUME NEW b, NEW m \in Positions
  PROVE  ApplyMoveChecks(b, m) <=> m \in LegalMoves(b)
  BY DEF ApplyMoveChecks, LegalMoves, StoneAt, NONE

LEMMA GameInvStartPlayout == GameInv /\ StartPlayout => GameInv'
<1> SUFFICES ASSUME GameInv, StartPlayout
             PROVE  GameInv'
  OBVIOUS
<1>1. /\ pc = "simulate" /\ pc' = "playout"
      /\ UNCHANGED <<request, board, actor_board, move, recording, stop, negative>>
  BY DEF StartPlayout, Simulating
<1>2. board \in BoardType /\ Balanced(board) /\ actor_board[Mover] = board
  BY <1>1 DEF GameInv, TypeOK, ReplicasAgree, Mover, BoardType
<1>3. PICK m \in LegalMoves(board) :
        sim_board' = ApplyMove(board, m) /\ sim_move' = m /\ exploring_move' = m
  BY <1>2 DEF StartPlayout, SampleSoftmax
<1>4. m \in Positions
  BY DEF LegalMoves
<1>5. sim_board' \in BoardType /\ Balanced(sim_board')
  BY <1>2, <1>3, <1>4, LegalMovesPassChecks, MovesKeepBoardType, ApplyKeepsBalance
<1>6. TypeOK'
  BY <1>1, <1>3, <1>4, <1>5 DEF GameInv, TypeOK, MoveType
<1>7. Balanced(board)' /\ ReplicasAgree' /\ NoRowYet' /\ GameIsOver'
  BY <1>1, GameInvBoardsKept
<1>8. ActorIsReady' /\ MovesAreLegal' /\ AbortsAreExplained'
  BY <1>1, <1>3, <1>4, <1>5 DEF GameInv, ActorIsReady, MovesAreLegal, AbortsAreExplained, Mover
<1> QED
  BY <1>6, <1>7, <1>8 DEF GameInv

LEMMA GameInvPlayoutMove == GameInv /\ PlayoutMove => GameInv'
<1> SUFFICES ASSUME GameInv, PlayoutMove
             PROVE  GameInv'
  OBVIOUS
<1>1. /\ pc = "playout" /\ ~DidWin(sim_board, sim_move)
      /\ UNCHANGED <<request, board, actor_board, move, recording, stop, negative>>
  BY DEF PlayoutMove
<1>2. sim_board \in BoardType /\ Balanced(sim_board)
  BY <1>1 DEF GameInv, TypeOK, ActorIsReady
<1>3. CASE HasLegalMove(sim_board)
  <2>1. PICK offset \in Offsets :
          /\ sim_move' = SampleLegalMove(sim_board, offset)
          /\ sim_board' = ApplyMove(sim_board, sim_move')
    BY <1>3 DEF PlayoutMove
  <2>2. pc' = "playout" /\ exploring_move' = exploring_move
    BY <1>1, <1>3 DEF PlayoutMove
  <2>3. sim_move' \in LegalMoves(sim_board) /\ sim_move' \in Positions
    <3>1. SampleLegalMove(sim_board, offset) \in LegalMoves(sim_board)
      BY <1>3, SampleIsLegal
    <3> QED
      BY <2>1, <3>1 DEF LegalMoves
  <2>4. sim_board' \in BoardType /\ Balanced(sim_board')
    BY <1>2, <2>1, <2>3, LegalMovesPassChecks, MovesKeepBoardType, ApplyKeepsBalance
  <2>5. TypeOK'
    BY <1>1, <2>2, <2>3, <2>4 DEF GameInv, TypeOK, MoveType
  <2>6. Balanced(board)' /\ ReplicasAgree' /\ NoRowYet' /\ GameIsOver'
    BY <1>1, <2>2, GameInvBoardsKept
  <2>7. ActorIsReady' /\ MovesAreLegal' /\ AbortsAreExplained'
    BY <1>1, <2>2, <2>4 DEF GameInv, ActorIsReady, MovesAreLegal, AbortsAreExplained, Mover
  <2> QED
    BY <2>5, <2>6, <2>7 DEF GameInv
<1>4. CASE ~HasLegalMove(sim_board)
  <2>1. pc' = "fatal" /\ UNCHANGED <<sim_board, sim_move, exploring_move>>
    BY <1>4 DEF PlayoutMove, simVars
  <2>2. NoMovePossible(sim_board)
    BY <1>2, <1>4, BalancedCountsFields
  <2>3. TypeOK'
    BY <1>1, <2>1 DEF GameInv, TypeOK
  <2>4. Balanced(board)' /\ ReplicasAgree' /\ NoRowYet' /\ GameIsOver'
    BY <1>1, <2>1, GameInvBoardsKept
  <2>5. ActorIsReady' /\ MovesAreLegal'
    BY <2>1 DEF ActorIsReady, MovesAreLegal
  <2>6. AbortsAreExplained'
    <3>1. request[Mover].type = "MonteCarloActor"
      BY <1>1 DEF GameInv, ActorIsReady
    <3> QED
      BY <1>1, <2>1, <2>2, <3>1 DEF AbortsAreExplained, Mover
  <2> QED
    BY <2>3, <2>4, <2>5, <2>6 DEF GameInv
<1> QED
  BY <1>3, <1>4

LEMMA GameInvFinishPlayout == GameInv /\ FinishPlayout => GameInv'
<1> SUFFICES ASSUME GameInv, FinishPlayout
             PROVE  GameInv'
  OBVIOUS
<1>1. /\ pc = "playout" /\ pc' = "simulate"
      /\ sim_board' = StartBoard /\ sim_move' = NoMove /\ exploring_move' = NoMove
      /\ UNCHANGED <<request, board, actor_board, move, recording, stop>>
  BY DEF FinishPlayout
<1>2. \/ negative' = negative
      \/ /\ HasCell(request[Mover], "logistic")
         /\ negative' = negative \cup {exploring_move}
  <2>1. PICK score \in {0, 1} :
          negative' \in Update(request[Mover], negative, exploring_move, score)
    BY DEF FinishPlayout
  <2> QED
    BY <2>1 DEF Update
<1>3. TypeOK'
  <2>1. negative' \subseteq Positions
    BY <1>1, <1>2 DEF GameInv, TypeOK, ActorIsReady
  <2> QED
    BY <1>1, <2>1, StartBoardBalanced DEF GameInv, TypeOK, MoveType
<1>4. Balanced(board)' /\ ReplicasAgree' /\ NoRowYet' /\ GameIsOver'
  BY <1>1, GameInvBoardsKept
<1>5. ActorIsReady' /\ MovesAreLegal' /\ AbortsAreExplained'
  BY <1>1, <1>2 DEF GameInv, ActorIsReady, MovesAreLegal, AbortsAreExplained, Mover
<1> QED
  BY <1>3, <1>4, <1>5 DEF GameInv

LEMMA GameInvPickMove == GameInv /\ PickMove => GameInv'
<1> SUFFICES ASSUME GameInv, PickMove
             PROVE  GameInv'
  OBVIOUS
<1>1. /\ pc = "simulate" /\ pc' = "apply"
      /\ UNCHANGED <<request, board, actor_board, recording, stop, simVars, negative>>
  BY DEF PickMove
<1>2. board \in BoardType /\ Balanced(board) /\ actor_board[Mover] = board
  BY <1>1 DEF GameInv, TypeOK, ReplicasAgree, Mover, BoardType
<1>3. move' \in SampleGreedy(board, negative)
  BY <1>2 DEF PickMove
<1>4. move' \in Positions
  BY <1>3 DEF SampleGreedy, LegalMoves
<1>5. LegalMoves(board) # {}
  <2>1. HasLegalMove(board)
    BY <1>1, <1>2, BalancedCountsFields DEF GameInv, ActorIsReady
  <2> QED
    BY <2>1 DEF HasLegalMove, LegalMoves
<1>6. \/ move' \in LegalMoves(board)
      \/ HasCell(request[Mover], "logistic") /\ LegalMoves(board) \subseteq negative
  <2>1. CASE LegalMoves(board) \ negative # {}
    BY <1>3, <2>1 DEF SampleGreedy
  <2>2. CASE LegalMoves(board) \ negative = {}
    <3>1. negative # {} /\ LegalMoves(board) \subseteq negative
      BY <1>5, <2>2
    <3> QED
      BY <1>1, <3>1 DEF GameInv, ActorIsReady
  <2> QED
    BY <2>1, <2>2
<1>7. TypeOK'
  BY <1>1, <1>4 DEF GameInv, TypeOK, MoveType, simVars
<1>8. Balanced(board)' /\ ReplicasAgree' /\ NoRowYet' /\ GameIsOver'
  BY <1>1, GameInvBoardsKept
<1>9. ActorIsReady' /\ MovesAreLegal' /\ AbortsAreExplained'
  BY <1>1, <1>4, <1>6
  DEF GameInv, ActorIsReady, MovesAreLegal, AbortsAreExplained, Mover, simVars
<1> QED
  BY <1>7, <1>8, <1>9 DEF GameInv

(* The three boards are the same, so their CHECKs pass or fail together.   *)
LEMMA PlayMoveBoards ==
  ASSUME GameInv, pc = "apply"
  PROVE  /\ {board, actor_board["FIRST"], actor_board["SECOND"]} = {board}
         /\ board \in BoardType /\ Balanced(board)
         /\ move \in Positions
         /\ \A p \in kPlayers : actor_board[p] = board
         /\ \A p \in kPlayers : ~RowOn(board, p)
  BY DEF GameInv, TypeOK, ReplicasAgree, ActorIsReady, NoRowYet, kPlayers

LEMMA GameInvPlayMoveOk ==
  ASSUME GameInv, PlayMove, ApplyMoveChecks(board, move)
  PROVE  GameInv'
<1>1. /\ pc = "apply"
      /\ board' = ApplyMove(board, move)
      /\ actor_board' = ObserveMove(actor_board, move)
      /\ UNCHANGED <<request, move, stop, simVars, negative>>
      /\ \/ /\ GameOver(board', move)
            /\ pc' = "finished"
            /\ recording' = [move |-> Append(recording.move, move),
                             score |-> Score(board', move)]
         \/ /\ ~GameOver(board', move)
            /\ pc' = "choose"
            /\ recording' = [recording EXCEPT !.move = Append(@, move)]
  BY PlayMoveBoards DEF PlayMove
<1>2. /\ board \in BoardType /\ Balanced(board) /\ move \in Positions
      /\ \A p \in kPlayers : actor_board[p] = board
      /\ \A p \in kPlayers : ~RowOn(board, p)
  BY <1>1, PlayMoveBoards
<1>3. board' \in BoardType /\ Balanced(board')
  BY <1>1, <1>2, MovesKeepBoardType, ApplyKeepsBalance
<1>4. actor_board' = [p \in kPlayers |-> board']
  BY <1>1, <1>2 DEF ObserveMove
<1>5. recording \in [move : Seq(Positions), score : {0, 1}]
  BY DEF GameInv, TypeOK
<1>6. /\ recording' \in [move : Seq(Positions), score : {0, 1}]
      /\ recording'.move # << >>
  <2>1. Append(recording.move, move) \in Seq(Positions) /\ Append(recording.move, move) # << >>
    BY <1>2, <1>5
  <2>2. Score(board', move) \in {0, 1}
    BY DEF Score
  <2> QED
    BY <1>1, <1>5, <2>1, <2>2, SMTT(30)
<1>7. TypeOK'
  BY <1>1, <1>3, <1>4, <1>6 DEF GameInv, TypeOK, simVars
<1>8. /\ board.current_player = kOpponent[board'.current_player]
      /\ kOpponent[board.current_player] = board'.current_player
      /\ board.current_player \in kPlayers
      /\ \A p \in kPlayers : p = board.current_player \/ p = kOpponent[board.current_player]
  BY <1>1, <1>2 DEF ApplyMove, kOpponent, kPlayers, BoardType
<1>9. /\ RowOn(board', kOpponent[board'.current_player]) <=> DidWin(board', move)
      /\ ~RowOn(board', board'.current_player)
  <2>1. /\ RowOn(ApplyMove(board, move), board.current_player)
             <=> DidWin(ApplyMove(board, move), move)
        /\ ~RowOn(ApplyMove(board, move), kOpponent[board.current_player])
    BY <1>2, NewRowsGoThroughMove
  <2> QED
    BY <1>1, <1>8, <2>1
<1>10. ReplicasAgree' /\ MovesAreLegal' /\ AbortsAreExplained'
  BY <1>1, <1>4 DEF ReplicasAgree, MovesAreLegal, AbortsAreExplained
<1>11. ActorIsReady'
  BY <1>1 DEF GameInv, ActorIsReady, GameOver, simVars
<1>12. NoRowYet'
  <2>1. CASE pc' = "finished"
    BY <2>1 DEF NoRowYet
  <2>2. CASE pc' = "choose"
    <3>1. ~DidWin(board', move)
      BY <1>1, <2>2 DEF GameOver
    <3>2. \A p \in kPlayers : ~RowOn(board', p)
      BY <1>8, <1>9, <3>1, SMTT(30)
    <3> QED
      BY <3>2 DEF NoRowYet
  <2> QED
    BY <1>1, <2>1, <2>2
<1>13. GameIsOver'
  <2>1. CASE pc' = "finished"
    <3>1. GameOver(board', move) /\ recording'.score = Score(board', move) /\ move' = move
      BY <1>1, <2>1
    <3> QED
      BY <1>6, <1>9, <3>1 DEF GameIsOver
  <2>2. CASE pc' = "choose"
    BY <2>2 DEF GameIsOver
  <2> QED
    BY <1>1, <2>1, <2>2
<1> QED
  BY <1>3, <1>7, <1>10, <1>11, <1>12, <1>13 DEF GameInv

LEMMA GameInvPlayMove == GameInv /\ PlayMove => GameInv'
<1> SUFFICES ASSUME GameInv, PlayMove
             PROVE  GameInv'
  OBVIOUS
<1>1. CASE ~ApplyMoveChecks(board, move)
  <2>1. /\ pc = "apply" /\ pc' = "fatal"
        /\ UNCHANGED <<board, actor_board, recording>>
        /\ UNCHANGED <<request, move, stop, simVars, negative>>
    BY <1>1 DEF PlayMove
  <2>2. TypeOK'
    BY <2>1 DEF GameInv, TypeOK, simVars
  <2>3. Balanced(board)' /\ ReplicasAgree' /\ NoRowYet' /\ GameIsOver'
    BY <2>1, GameInvBoardsKept
  <2>4. ActorIsReady' /\ MovesAreLegal'
    BY <2>1 DEF ActorIsReady, MovesAreLegal
  <2>5. AbortsAreExplained'
    <3>1. move \notin LegalMoves(board)
      BY <1>1, <2>1, PlayMoveBoards, LegalMovesPassChecks
    <3>2. HasCell(request[Mover], "logistic") /\ LegalMoves(board) \subseteq negative
      BY <2>1, <3>1 DEF GameInv, MovesAreLegal
    <3>3. sim_move = NoMove
      BY <2>1 DEF GameInv, ActorIsReady
    <3> QED
      BY <2>1, <3>1, <3>2, <3>3 DEF AbortsAreExplained, Mover, simVars
  <2> QED
    BY <2>2, <2>3, <2>4, <2>5 DEF GameInv
<1> QED
  BY <1>1, GameInvPlayMoveOk

LEMMA GameInvNext == GameInv /\ [Next]_vars => GameInv'
<1> SUFFICES ASSUME GameInv, [Next]_vars
             PROVE  GameInv'
  BY SMTT(30)
<1>1. CASE UNCHANGED vars
  BY <1>1
  DEF vars, simVars, GameInv, TypeOK, ReplicasAgree, ActorIsReady, MovesAreLegal,
      AbortsAreExplained, NoRowYet, GameIsOver, Mover
<1>2. CASE Next
  BY <1>1, <1>2, GameInvPrepare, GameInvRandom, GameInvMonteCarlo, GameInvTimeOut,
     GameInvStartPlayout, GameInvPlayoutMove, GameInvFinishPlayout, GameInvPickMove,
     GameInvPlayMove
  DEF Next, ActorStep, Stopped
<1> QED
  BY <1>1, <1>2

LEMMA GameInvAlways == Spec => []GameInv
  BY GameInvInit, GameInvNext, PTL DEF Spec

-------------------------------------------------------------------------------
(* Every step of a call of PlayGame keeps its boards, moves and recording  *)
(* well-formed.                                                            *)
THEOREM GameTypeCorrect == Spec => []TypeOK
<1>1. GameInv => TypeOK
  BY DEF GameInv
<1> QED
  BY <1>1, GameInvAlways, PTL

(* Whatever the actors are, the board of each is the referee's whenever it *)
(* is asked for a move.                                                    *)
THEOREM ReplicasAgreeAlways == Spec => []ReplicasAgree
<1>1. GameInv => ReplicasAgree
  BY DEF GameInv
<1> QED
  BY <1>1, GameInvAlways, PTL

(* On every board an actor returns a free field, unless it is logistic and *)
(* gave every free field a negative value.                                 *)
THEOREM MovesAreLegalAlways == Spec => []MovesAreLegal
<1>1. GameInv => MovesAreLegal
  BY DEF GameInv
<1> QED
  BY <1>1, GameInvAlways, PTL

(* There are three ways for a call to end the process, and no other.       *)
THEOREM AbortsAreExplainedAlways == Spec => []AbortsAreExplained
<1>1. GameInv => AbortsAreExplained
  BY DEF GameInv
<1> QED
  BY <1>1, GameInvAlways, PTL

(* The score of a game is 1 exactly if FIRST has a row on the board; as    *)
(* long as the game goes on nobody has one.                                *)
THEOREM ScoreMatchesBoardAlways == Spec => []ScoreMatchesBoard
<1>1. ASSUME GameInv
      PROVE  ScoreMatchesBoard
  <2> DEFINE row(p) == RowOn(board, p)
  <2>1. CASE pc # "finished"
    <3>1. ~row("FIRST") /\ ~row("SECOND")
      BY <1>1, <2>1 DEF GameInv, NoRowYet, kPlayers
    <3> QED
      BY <2>1, <3>1 DEF ScoreMatchesBoard, RowOn, Stones
  <2>2. CASE pc = "finished"
    <3>1. /\ recording.score = Score(board, move)
          /\ DidWin(board, move) \/ NoMovePossible(board)
          /\ DidWin(board, move) <=> row(kOpponent[board.current_player])
          /\ ~row(board.current_player)
          /\ board.current_player \in {"FIRST", "SECOND"}
      BY <1>1, <2>2 DEF GameInv, GameIsOver, GameOver, TypeOK, BoardType, kPlayers
    <3>2. /\ recording.score = 1 <=> row("FIRST")
          /\ ~(row("FIRST") /\ row("SECOND"))
          /\ row("FIRST") \/ row("SECOND") \/ NoMovePossible(board)
      <4> HIDE DEF row
      <4>1. CASE board.current_player = "FIRST"
        <5>1. kOpponent["FIRST"] = "SECOND"
          BY DEF kOpponent, kPlayers
        <5> QED
          BY <3>1, <4>1, <5>1 DEF Score
      <4>2. CASE board.current_player = "SECOND"
        <5>1. kOpponent["SECOND"] = "FIRST"
          BY DEF kOpponent, kPlayers
        <5> QED
          BY <3>1, <4>2, <5>1 DEF Score
      <4> QED
        BY <3>1, <4>1, <4>2
    <3> QED
      BY <2>2, <3>2 DEF ScoreMatchesBoard, RowOn, Stones
  <2> QED
    BY <2>1, <2>2
<1> QED
  BY <1>1, GameInvAlways, PTL

-------------------------------------------------------------------------------
(* A position that a playout from root may have before its last move.      *)
Extends(root, b) ==
  /\ b \in BoardType
  /\ root.fields \subseteq b.fields
  /\ b.moves_made - root.moves_made = Cardinality(b.fields \ root.fields)
  /\ \A p \in kPlayers : ~RowOn(b, p)

PlayoutInv ==
  pc = "playout" =>
    /\ sim_move \in Positions
    /\ Extends(board, RevertMove(sim_board, sim_move))
    /\ ApplyMoveChecks(RevertMove(sim_board, sim_move), sim_move)
    /\ sim_board = ApplyMove(RevertMove(sim_board, sim_move), sim_move)

LEMMA ExtendsSelf ==
  ASSUME NEW b \in BoardType, \A p \in kPlayers : ~RowOn(b, p)
  PROVE  Extends(b, b)
<1>1. b.fields \ b.fields = {} /\ b.moves_made - b.moves_made = 0
  BY DEF BoardType
<1>2. Cardinality({}) = 0
  BY FS_EmptySet
<1> QED
  BY <1>1, <1>2 DEF Extends

LEMMA ExtendedByMove ==
  ASSUME NEW root \in BoardType, NEW b, Extends(root, b),
         NEW m \in Positions, ApplyMoveChecks(b, m)
  PROVE  /\ RevertMove(ApplyMove(b, m), m) = b
         /\ ApplyMove(b, m).moves_made - root.moves_made
              = Cardinality(ApplyMove(b, m).fields \ root.fields)
         /\ ~DidWin(ApplyMove(b, m), m) => Extends(root, ApplyMove(b, m))
<1> DEFINE c == ApplyMove(b, m)
           bit == Index(m) + kPlayerOffset[b.current_player]
           added == b.fields \ root.fields
<1>1. /\ b \in BoardType /\ root.fields \subseteq b.fields
      /\ b.moves_made - root.moves_made = Cardinality(added)
      /\ \A p \in kPlayers : ~RowOn(b, p)
  BY DEF Extends
<1>2. RevertMove(c, m) = b
  BY <1>1, RevertAfterApply
<1>3. c \in BoardType
  BY <1>1, MovesKeepBoardType
<1>4. b.moves_made \in Nat /\ root.moves_made \in Nat /\ b.fields \in SUBSET FieldsAllocated
  BY <1>1 DEF BoardType
<1>5. c.fields = b.fields \cup {bit} /\ c.moves_made = b.moves_made + 1
  BY DEF ApplyMove
<1>6. bit \notin b.fields
  <2>1. bit = Index(m) \/ bit = Index(m) + 1
    BY <1>1, IndexIsEven DEF BoardType, kPlayerOffset, kPlayers
  <2> QED
    BY <2>1 DEF ApplyMoveChecks
<1>7. IsFiniteSet(added) /\ Cardinality(added) \in Nat
  <2>1. IsFiniteSet(FieldsAllocated)
    <3>1. 0 \in Int /\ Width * Height * 2 - 1 \in Int
      BY BoardAssumption
    <3> QED
      BY <3>1, FS_Interval DEF FieldsAllocated
  <2>2. added \in SUBSET FieldsAllocated
    BY <1>4
  <2>3. IsFiniteSet(added)
    <3> HIDE DEF added
    <3> QED
      BY <2>1, <2>2, FS_Subset
  <2> QED
    BY <2>3, FS_CardinalityType
<1> HIDE DEF c, bit
<1>8. c.fields \ root.fields = added \cup {bit} /\ bit \notin added
  BY <1>1, <1>5, <1>6
<1> HIDE DEF added
<1>9. Cardinality(added \cup {bit}) = Cardinality(added) + 1
  BY <1>7, <1>8, FS_AddElement, Zenon
<1>10. c.moves_made - root.moves_made = Cardinality(c.fields \ root.fields)
  <2>1. Cardinality(c.fields \ root.fields) = Cardinality(added) + 1
    BY <1>8, <1>9, Zenon
  <2> QED
    BY <1>1, <1>4, <1>5, <1>7, <2>1
<1>11. ASSUME ~DidWin(c, m)
       PROVE  Extends(root, c)
  <2>1. /\ RowOn(c, b.current_player) <=> DidWin(c, m)
        /\ ~RowOn(c, kOpponent[b.current_player])
    BY <1>1, NewRowsGoThroughMove DEF c
  <2>2. \A p \in kPlayers : p = b.current_player \/ p = kOpponent[b.current_player]
    BY <1>1 DEF kOpponent, kPlayers, BoardType
  <2>3. \A p \in kPlayers : ~RowOn(c, p)
    BY <1>11, <2>1, <2>2
  <2>4. root.fields \subseteq c.fields
    BY <1>1, <1>5
  <2> QED
    BY <1>3, <1>10, <2>3, <2>4 DEF Extends
<1> QED
  BY <1>2, <1>10, <1>11 DEF c

LEMMA PlayoutInvNext == GameInv /\ PlayoutInv /\ [Next]_vars => PlayoutInv'
<1> SUFFICES ASSUME GameInv, PlayoutInv, [Next]_vars, pc' = "playout"
             PROVE  PlayoutInv'
  BY DEF PlayoutInv
<1>1. board \in BoardType /\ \A p \in kPlayers : pc # "finished" => ~RowOn(board, p)
  BY DEF GameInv, TypeOK, NoRowYet
<1>2. CASE StartPlayout
  <2>1. pc = "simulate" /\ board' = board
    BY <1>2 DEF StartPlayout, Simulating
  <2>2. actor_board[Mover] = board
    BY <2>1 DEF GameInv, TypeOK, ReplicasAgree, Mover, BoardType
  <2>3. PICK m \in LegalMoves(board) : sim_board' = ApplyMove(board, m) /\ sim_move' = m
    BY <1>2, <2>2 DEF StartPlayout, SampleSoftmax
  <2>4. m \in Positions /\ ApplyMoveChecks(board, m)
    BY LegalMovesPassChecks DEF LegalMoves
  <2>5. Extends(board, board)
    BY <1>1, <2>1, ExtendsSelf
  <2>6. RevertMove(ApplyMove(board, m), m) = board
    BY <1>1, <2>4, <2>5, ExtendedByMove, Zenon
  <2> QED
    BY <2>1, <2>3, <2>4, <2>5, <2>6 DEF PlayoutInv
<1>3. CASE PlayoutMove
  <2> DEFINE before == RevertMove(sim_board, sim_move)
  <2>1. /\ pc = "playout" /\ ~DidWin(sim_board, sim_move) /\ HasLegalMove(sim_board)
        /\ board' = board
    BY <1>3 DEF PlayoutMove
  <2>2. PICK offset \in Offsets :
          /\ sim_move' = SampleLegalMove(sim_board, offset)
          /\ sim_board' = ApplyMove(sim_board, sim_move')
    BY <1>3, <2>1 DEF PlayoutMove
  <2>3. SampleLegalMove(sim_board, offset) \in LegalMoves(sim_board)
    BY <2>1, SampleIsLegal
  <2>4. sim_move' \in Positions /\ ApplyMoveChecks(sim_board, sim_move')
    BY <2>2, <2>3, LegalMovesPassChecks DEF LegalMoves
  <2>5. /\ sim_move \in Positions /\ Extends(board, before)
        /\ ApplyMoveChecks(before, sim_move) /\ sim_board = ApplyMove(before, sim_move)
    BY <2>1 DEF PlayoutInv
  <2>6. Extends(board, sim_board)
    <3> HIDE DEF before
    <3> QED
      BY <1>1, <2>1, <2>5, ExtendedByMove, Zenon
  <2>7. RevertMove(ApplyMove(sim_board, sim_move'), sim_move') = sim_board
    BY <1>1, <2>4, <2>6, ExtendedByMove, Zenon
  <2> QED
    BY <2>1, <2>2, <2>4, <2>6, <2>7 DEF PlayoutInv
<1>4. CASE TimeOut \/ UNCHANGED vars
  BY <1>4 DEF TimeOut, vars, simVars, PlayoutInv
<1> QED
  BY <1>2, <1>3, <1>4
  DEF Next, ActorStep, Stopped, PrepareActors, PlayMove, RandomActorChooseMove,
      MonteCarloActorChooseMove, FinishPlayout, PickMove

(* A playout is a game continued from the actor's position, on a board of  *)
(* any size: it only adds stones, one per move, and nobody had a row       *)
(* before its last move.                                                   *)
THEOREM PlayoutContinuesGameAlways == Spec => []PlayoutContinuesGame
<1>1. Init => PlayoutInv
  BY SMTT(30) DEF Init, PlayoutInv
<1>2. ASSUME GameInv, PlayoutInv
      PROVE  PlayoutContinuesGame
  <2> SUFFICES ASSUME pc = "playout"
               PROVE  PlayoutContinuesGame
    BY DEF PlayoutContinuesGame
  <2>1. actor_board[Mover] = board /\ board \in BoardType
    BY <1>2 DEF GameInv, TypeOK, ReplicasAgree, Mover, BoardType
  <2> DEFINE before == RevertMove(sim_board, sim_move)
  <2>2. /\ sim_move \in Positions /\ Extends(board, before)
        /\ ApplyMoveChecks(before, sim_move) /\ sim_board = ApplyMove(before, sim_move)
    BY <1>2 DEF PlayoutInv
  <2>3. sim_board.moves_made - board.moves_made = Cardinality(sim_board.fields \ board.fields)
    <3> HIDE DEF before
    <3> QED
      BY <2>1, <2>2, ExtendedByMove
  <2> QED
    BY <2>1, <2>2, <2>3, SMTT(30) DEF PlayoutContinuesGame, Extends, RowOn, Stones
<1> QED
  BY <1>1, <1>2, PlayoutInvNext, GameInvAlways, PTL DEF Spec

-------------------------------------------------------------------------------
LEMMA StartIsGameInit == Init => Rules!GameInit
  BY DEF Init, Rules!GameInit, Rules!Fields, Positions, StartBoard, StoneAt, NONE,
         OutcomeSoFar

(* A step that leaves the board alone and does not end the game.           *)
LEMMA OtherStepsStutter ==
  ASSUME board' = board, pc # "finished", pc' # "finished"
  PROVE  UNCHANGED Rules!gameVars
  BY DEF Rules!gameVars, OutcomeSoFar

LEMMA PlayMoveIsPutStone ==
  ASSUME GameInv, GameInv', PlayMove, ApplyMoveChecks(board, move)
  PROVE  Rules!PutStone(move)
<1>1. /\ pc = "apply" /\ move' = move
      /\ board' = ApplyMove(board, move)
      /\ \/ GameOver(board', move) /\ pc' = "finished"
         \/ ~GameOver(board', move) /\ pc' = "choose"
  BY PlayMoveBoards, Zenon DEF PlayMove
<1>2. /\ board \in BoardType /\ move \in Positions
      /\ \A p \in kPlayers : ~RowOn(board, p)
  BY <1>1, PlayMoveBoards
<1>3. board' \in BoardType /\ Balanced(board')
  BY DEF GameInv, TypeOK
<1>4. /\ kOpponent[board'.current_player] = board.current_player
      /\ board'.current_player = IF board.current_player = "FIRST" THEN "SECOND" ELSE "FIRST"
      /\ board.current_player \in kPlayers
  BY <1>1, <1>2 DEF ApplyMove, kOpponent, kPlayers, BoardType
<1>5. Stones(board)[move] = NONE
  BY <1>2, LegalMovesPassChecks DEF LegalMoves, Stones
<1>6. Stones(board') = [Stones(board) EXCEPT ![move] = board.current_player]
  <2>1. \A f \in Positions :
          StoneAt(board', f) = IF f = move THEN board.current_player ELSE StoneAt(board, f)
    BY <1>1, <1>2, StoneAfterApply
  <2> QED
    BY <1>2, <2>1, Zenon DEF Stones
<1>7. RowOn(board', board.current_player) <=> DidWin(board', move)
  BY <1>1, <1>2, NewRowsGoThroughMove
<1>8. NoMovePossible(board') <=> \A g \in Positions : Stones(board')[g] # NONE
  BY <1>3, BalancedCountsFields DEF HasLegalMove, Stones
<1>9. OutcomeSoFar = "open"
  BY <1>1 DEF OutcomeSoFar
<1>10. OutcomeSoFar' = IF DidWin(board', move) THEN board.current_player
                       ELSE IF NoMovePossible(board') THEN "draw"
                       ELSE "open"
  <2>1. CASE pc' = "finished"
    <3>1. recording'.move # << >>
      BY <2>1 DEF GameInv, GameIsOver
    <3> QED
      BY <1>1, <1>4, <2>1, <3>1 DEF OutcomeSoFar, Outcome
  <2>2. CASE pc' = "choose"
    BY <1>1, <2>2 DEF OutcomeSoFar, GameOver
  <2> QED
    BY <1>1, <2>1, <2>2
<1> QED
  BY <1>4, <1>5, <1>6, <1>7, <1>8, <1>9, <1>10
  DEF Rules!PutStone, Rules!Fields, Positions, RowOn, Stones, NONE

(* A call of PlayGame implements the rules of the game, on a board of any  *)
(* size and for any length of a row: the moves it plays are moves of the   *)
(* rules, and the winner it reads off the rays of the last move is the     *)
(* player who has a row anywhere on the board.                             *)
THEOREM PlayGameImplementsRules == Spec => ImplementsRules
<1>1. ASSUME GameInv, GameInv', [Next]_vars
      PROVE  [Rules!GameNext]_(Rules!gameVars)
  <2>1. CASE UNCHANGED vars
    BY <2>1 DEF vars, simVars, Rules!gameVars, OutcomeSoFar, Outcome
  <2>2. CASE PlayMove
    <3>1. CASE ApplyMoveChecks(board, move)
      <4>1. Rules!PutStone(move) /\ move \in Rules!Fields
        BY <1>1, <2>2, <3>1, PlayMoveIsPutStone, PlayMoveBoards
        DEF PlayMove, Rules!Fields, Positions
      <4> QED
        BY <4>1 DEF Rules!GameNext
    <3>2. CASE ~ApplyMoveChecks(board, move)
      <4>1. board' = board /\ pc = "apply" /\ pc' = "fatal"
        BY <2>2, <3>2 DEF PlayMove
      <4> QED
        BY <4>1, OtherStepsStutter
    <3> QED
      BY <3>1, <3>2
  <2>3. CASE PrepareActors \/ ActorStep \/ TimeOut
    <3>1. board' = board /\ pc # "finished" /\ pc' # "finished"
      BY <2>3
      DEF PrepareActors, ActorStep, TimeOut, RandomActorChooseMove,
          MonteCarloActorChooseMove, StartPlayout, Simulating, PlayoutMove,
          FinishPlayout, PickMove
    <3> QED
      BY <3>1, OtherStepsStutter, SMTT(30)
  <2> QED
    BY <1>1, <2>1, <2>2, <2>3 DEF Next, Stopped
<1> QED
  BY <1>1, StartIsGameInit, GameInvAlways, PTL DEF Spec, ImplementsRules, Rules!GameSpec
====
