------------------------------- MODULE PlayGame -------------------------------
(***************************************************************************)
(* One call of WorkerImpl::PlayGame (ladder/worker_impl.cc; the loop of    *)
(* self_play/supervisor.cc is the same): the referee keeps a board, asks   *)
(* the actor whose turn it is for a move, applies it, shows it to both     *)
(* actors, each of which keeps a board of its own, records it, and stops   *)
(* when the last move won or the board is full.                            *)
(*                                                                         *)
(* RandomActor answers at once.  MonteCarloActor plays out games on a copy *)
(* of its board until the stop signal says that the time of the move is    *)
(* out, then returns the move its cell values most.  Of the values of the  *)
(* cell the model keeps the signs: the playouts may have made any legal    *)
(* move of positive value the best one.                                    *)
(***************************************************************************)
EXTENDS Board, Sequences

CONSTANT Requests    \* the PlayGameRequests: the ActorSpec of each player

ASSUME RequestsAssumption ==
  /\ Requests # {}
  /\ \A r \in Requests : DOMAIN r = kPlayers

VARIABLES
  pc,            \* where the call is
  request,
  board,         \* the referee's board
  actor_board,   \* board_ of each actor
  move,          \* the move being played
  recording,     \* the Recording of the response
  stop,          \* what stop_signal() returns for the current move
  sim_board,     \* the board of the playout in progress
  sim_move,      \* its last move
  exploring_move,   \* its first move
  negative       \* the fields whose value in the cell is negative

simVars == <<sim_board, sim_move, exploring_move>>

vars == <<pc, request, board, actor_board, move, recording, stop, simVars, negative>>

NoMove == <<-1, -1>>

MoveType == Positions \cup {NoMove}

TypeOK ==
  /\ pc \in {"prepare", "choose", "simulate", "playout", "apply", "finished", "fatal"}
  /\ request \in Requests
  /\ board \in BoardType
  /\ actor_board \in [kPlayers -> BoardType]
  /\ move \in MoveType
  /\ recording \in [move : Seq(Positions), score : {0, 1}]
  /\ stop \in BOOLEAN
  /\ sim_board \in BoardType
  /\ sim_move \in MoveType
  /\ exploring_move \in MoveType
  /\ negative \subseteq Positions

Init ==
  /\ pc = "prepare"
  /\ request \in Requests
  /\ board = StartBoard
  /\ actor_board = [p \in kPlayers |-> StartBoard]
  /\ move = NoMove
  /\ recording = [move |-> << >>, score |-> 0]
  /\ stop = FALSE
  /\ sim_board = StartBoard
  /\ sim_move = NoMove
  /\ exploring_move = NoMove
  /\ negative = {}

-------------------------------------------------------------------------------
(* An ActorSpec is [type, config], its configuration a sequence of items   *)
(* [key, string]; string is "" in an item that holds a number.  The first  *)
(* item of a key counts.  GetConfigString returns no value or one.         *)
GetConfigString(config, key) ==
  LET found == {n \in DOMAIN config : config[n].key = key}
  IN IF found = {} THEN {} ELSE {config[Min(found)].string}

HasCell(spec, cell) ==
  spec.type = "MonteCarloActor" /\ GetConfigString(spec.config, "cell") = {cell}

(* ActorRegistry::Create aborts on a type nobody registered, the factory   *)
(* of MonteCarloActor without a cell or on one it does not know.           *)
CanCreate(spec) ==
  spec.type = "RandomActor" \/ HasCell(spec, "linear") \/ HasCell(spec, "logistic")

(* The actors are created and GameStarted resets the board of each.        *)
PrepareActors ==
  /\ pc = "prepare"
  /\ \/ /\ \A p \in kPlayers : CanCreate(request[p])
        /\ actor_board' = [p \in kPlayers |-> StartBoard]
        /\ pc' = "choose"
     \/ /\ \E p \in kPlayers : ~CanCreate(request[p])
        /\ pc' = "fatal"
        /\ UNCHANGED actor_board
  /\ UNCHANGED <<request, board, move, recording, stop, simVars, negative>>

Mover == board.current_player

(* RandomActor::ChooseMove, on the actor's own board.                      *)
RandomActorChooseMove ==
  /\ pc = "choose"
  /\ request[Mover].type = "RandomActor"
  /\ IF HasLegalMove(actor_board[Mover])
     THEN /\ \E offset \in Offsets : move' = SampleLegalMove(actor_board[Mover], offset)
          /\ pc' = "apply"
     ELSE /\ pc' = "fatal"
          /\ UNCHANGED move
  /\ UNCHANGED <<request, board, actor_board, recording, stop, simVars, negative>>

(* NewStopSignal starts the clock of the move and MonteCarloActor::        *)
(* ChooseMove enters its loop with a fresh cell.                           *)
MonteCarloActorChooseMove ==
  /\ pc = "choose"
  /\ request[Mover].type = "MonteCarloActor"
  /\ stop' = FALSE
  /\ negative' = {}
  /\ pc' = "simulate"
  /\ UNCHANGED <<request, board, actor_board, move, recording, simVars>>

(* The time of the move runs out; the actor only notices between playouts. *)
TimeOut ==
  /\ pc \in {"simulate", "playout"}
  /\ ~stop
  /\ stop' = TRUE
  /\ UNCHANGED <<pc, request, board, actor_board, move, recording, simVars, negative>>

(* The softmax weights exp(win_prob) are positive, so every field whose    *)
(* legal_moves entry is 1 can be drawn, and no other.                      *)
SampleSoftmax(b) == LegalMoves(b)

(* The bug is to play out one more game although the time is out.          *)
BugSimulating == pc = "simulate"

Simulating == pc = "simulate" /\ ~stop

StartPlayout ==
  /\ Simulating
  /\ \E m \in SampleSoftmax(actor_board[Mover]) :
       /\ sim_board' = ApplyMove(actor_board[Mover], m)
       /\ sim_move' = m
       /\ exploring_move' = m
  /\ pc' = "playout"
  /\ UNCHANGED <<request, board, actor_board, move, recording, stop, negative>>

(* One turn of the inner loop: it ends only on a win, so on a full board   *)
(* without one UniformlySampleLegalMove reaches its LOG(FATAL).            *)
PlayoutMove ==
  /\ pc = "playout"
  /\ ~DidWin(sim_board, sim_move)
  /\ \/ /\ HasLegalMove(sim_board)
        /\ \E offset \in Offsets :
             /\ sim_move' = SampleLegalMove(sim_board, offset)
             /\ sim_board' = ApplyMove(sim_board, sim_move')
        /\ UNCHANGED <<pc, exploring_move>>
     \/ /\ ~HasLegalMove(sim_board)
        /\ pc' = "fatal"
        /\ UNCHANGED simVars
  /\ UNCHANGED <<request, board, actor_board, move, recording, stop, negative>>

(* McCell::Update.  A linear cell moves a value a part of the way to the   *)
(* score, so it stays positive.  A logistic cell takes at least the        *)
(* learning rate off a value between 0 and 1 for a lost game, and nothing  *)
(* stops it at 0: some 375 lost games take a field from 0.5 below 0.  An   *)
(* update here stands for one or more playouts of its move.  A negative    *)
(* value stays so, since both gradients are negative there.                *)
Update(spec, fields, field, score) ==
  IF HasCell(spec, "logistic") /\ score = 0 THEN {fields, fields \cup {field}} ELSE {fields}

(* The playout was won by someone and the cell is updated.                 *)
FinishPlayout ==
  /\ pc = "playout"
  /\ DidWin(sim_board, sim_move)
  /\ pc' = "simulate"
  /\ LET winner == kOpponent[sim_board.current_player]
         score == IF winner = actor_board[Mover].current_player THEN 1 ELSE 0
     IN negative' \in Update(request[Mover], negative, exploring_move, score)
  /\ sim_board' = StartBoard
  /\ sim_move' = NoMove
  /\ exploring_move' = NoMove
  /\ UNCHANGED <<request, board, actor_board, move, recording, stop>>

(* A bug: the values are not multiplied with legal_moves.                  *)
BugSampleGreedy(b, fields) == Positions

(* The product with legal_moves is 0 on the taken fields.  Its maximum is  *)
(* a free field of positive value if there is one; if all values of free   *)
(* fields are negative, it is the 0 of a taken field.  On an empty board   *)
(* there is none, and the maximum is a free field all the same.            *)
SampleGreedy(b, fields) ==
  IF LegalMoves(b) \ fields # {} THEN LegalMoves(b) \ fields
  ELSE IF LegalMoves(b) # Positions THEN Positions \ LegalMoves(b)
  ELSE Positions

PickMove ==
  /\ pc = "simulate"
  /\ stop
  /\ \E best \in SampleGreedy(actor_board[Mover], negative) : move' = best
  /\ pc' = "apply"
  /\ UNCHANGED <<request, board, actor_board, recording, stop, simVars, negative>>

-------------------------------------------------------------------------------
(* A bug: the move is shown to the opponent of the player who made it      *)
(* only.                                                                   *)
BugObserveMove(boards, m) ==
  [p \in kPlayers |-> IF p = Mover THEN boards[p] ELSE ApplyMove(boards[p], m)]

ObserveMove(boards, m) == [p \in kPlayers |-> ApplyMove(boards[p], m)]

(* A bug: the winner is taken to be the player who moves next.             *)
BugScore(b, last_move) ==
  IF DidWin(b, last_move) /\ b.current_player = "FIRST" THEN 1 ELSE 0

(* 1 if FIRST won, 0 if SECOND won and 0 for a draw.                       *)
Score(b, last_move) ==
  IF DidWin(b, last_move) /\ kOpponent[b.current_player] = "FIRST" THEN 1 ELSE 0

(* A bug: a full board does not end the loop.                              *)
BugGameOver(b, last_move) == DidWin(b, last_move)

GameOver(b, last_move) == DidWin(b, last_move) \/ NoMovePossible(b)

(* The rest of the loop body and the loop test; the score is set when the  *)
(* loop ends.  ApplyMove runs on three boards, with its CHECKs on each.    *)
PlayMove ==
  /\ pc = "apply"
  /\ \/ /\ \A b \in {board, actor_board["FIRST"], actor_board["SECOND"]} :
             ApplyMoveChecks(b, move)
        /\ board' = ApplyMove(board, move)
        /\ actor_board' = ObserveMove(actor_board, move)
        /\ \/ /\ GameOver(board', move)
              /\ pc' = "finished"
              /\ recording' = [move |-> Append(recording.move, move),
                               score |-> Score(board', move)]
           \/ /\ ~GameOver(board', move)
              /\ pc' = "choose"
              /\ recording' = [recording EXCEPT !.move = Append(@, move)]
     \/ /\ \E b \in {board, actor_board["FIRST"], actor_board["SECOND"]} :
             ~ApplyMoveChecks(b, move)
        /\ pc' = "fatal"
        /\ UNCHANGED <<board, actor_board, recording>>
  /\ UNCHANGED <<request, move, stop, simVars, negative>>

ActorStep ==
  \/ RandomActorChooseMove
  \/ MonteCarloActorChooseMove
  \/ StartPlayout
  \/ PlayoutMove
  \/ FinishPlayout
  \/ PickMove

(* The call has returned, or the process is gone.                          *)
Stopped ==
  /\ pc \in {"finished", "fatal"}
  /\ UNCHANGED vars

Next == PrepareActors \/ ActorStep \/ PlayMove \/ TimeOut \/ Stopped

(* The thread of the call keeps running and the clock keeps going.         *)
Spec ==
  /\ Init
  /\ [][Next]_vars
  /\ WF_vars(PrepareActors \/ ActorStep \/ PlayMove)
  /\ WF_vars(TimeOut)

-------------------------------------------------------------------------------
(* Whenever an actor is asked for a move, its board, which it keeps up to  *)
(* date from ObserveMove alone, is the referee's board; and so is the      *)
(* board of the actor that is waiting.                                     *)
ReplicasAgree ==
  pc \in {"choose", "simulate", "playout", "apply", "finished"}
    => \A p \in kPlayers : actor_board[p] = board

(* The move an actor returns lies on a free field of the referee's board,  *)
(* so that the CHECKs of ApplyMove cannot end the worker process, unless   *)
(* the actor is logistic and gave every free field a negative value.       *)
MovesAreLegal ==
  pc = "apply" =>
    \/ move \in LegalMoves(board)
    \/ HasCell(request[Mover], "logistic") /\ LegalMoves(board) \subseteq negative

(* The process only ends in a PlayGame call for one of three reasons: an   *)
(* actor that cannot be created, before any move; a playout that filled    *)
(* the board without a winner; or, with no playout going on, a logistic    *)
(* actor that gave every free field a negative value and returned a taken  *)
(* one.                                                                    *)
AbortsAreExplained ==
  pc = "fatal" =>
    \/ /\ \E p \in kPlayers : ~CanCreate(request[p])
       /\ recording.move = << >>
    \/ /\ request[Mover].type = "MonteCarloActor"
       /\ NoMovePossible(sim_board)
       /\ ~DidWin(sim_board, sim_move)
    \/ /\ HasCell(request[Mover], "logistic")
       /\ sim_move = NoMove
       /\ LegalMoves(board) \subseteq negative
       /\ move \notin LegalMoves(board)

(* board.cc says that the sampler is never asked for a move on a full      *)
(* board: the scan is followed by LOG(FATAL) << "All legal moves           *)
(* exhausted".                                                             *)
NeverOutOfMoves ==
  pc = "playout" /\ ~DidWin(sim_board, sim_move) => HasLegalMove(sim_board)

(* Every call of PlayGame ends, one way or the other.                      *)
CallEnds == <>(pc \in {"finished", "fatal"})

(* A game between two RandomActors is always played to its end.            *)
RandomGameFinishes ==
  (\A p \in kPlayers : request[p].type = "RandomActor") => <>(pc = "finished")

(* The game the boards of the call go through is the game of the rules:    *)
(* the referee's bitset holds the stones, and the outcome it reads off the *)
(* rays of the last move and off its move counter is the one the rules     *)
(* read off the whole board.                                               *)
Outcome ==
  IF recording.move = << >> THEN "open"
  ELSE IF DidWin(board, move) THEN kOpponent[board.current_player]
  ELSE IF NoMovePossible(board) THEN "draw"
  ELSE "open"

OutcomeSoFar == IF pc = "finished" THEN Outcome ELSE "open"

Rules == INSTANCE Gomoku WITH
           stones <- [f \in Positions |-> StoneAt(board, f)],
           turn <- board.current_player,
           outcome <- OutcomeSoFar

ImplementsRules == Rules!GameSpec

(* A playout is a game continued from the actor's position: it takes no     *)
(* stone off, fills one field per move, and had no winner before its last  *)
(* move, so the winner it reports to the cell is the first player with a   *)
(* row.                                                                    *)
PlayoutContinuesGame ==
  pc = "playout" =>
    LET root == actor_board[Mover]
        before == RevertMove(sim_board, sim_move)
    IN /\ root.fields \subseteq before.fields
       /\ sim_board.moves_made - root.moves_made
            = Cardinality(sim_board.fields \ root.fields)
       /\ \A p \in kPlayers :
            ~Rules!HasRow([f \in Positions |-> StoneAt(before, f)], p)

(* The score of a finished game is 1 exactly if FIRST has a row somewhere  *)
(* on the board, and then SECOND has none; a game that is not over has no  *)
(* row at all.                                                             *)
ScoreMatchesBoard ==
  LET row(p) == Rules!HasRow([f \in Positions |-> StoneAt(board, f)], p)
  IN IF pc = "finished"
     THEN /\ recording.score = 1 <=> row("FIRST")
          /\ ~(row("FIRST") /\ row("SECOND"))
          /\ row("FIRST") \/ row("SECOND") \/ NoMovePossible(board)
     ELSE ~row("FIRST") /\ ~row("SECOND")
===============================================================================
