------------------------------ MODULE MCPlayGame ------------------------------
(* The request sets of the PlayGame models.                                *)
EXTENDS ReplayedGame

Match(first, second) == [p \in kPlayers |-> IF p = "FIRST" THEN first ELSE second]

Random == [type |-> "RandomActor", config |-> << >>]

(* A MonteCarloActor with a "cell" item for each of the strings.           *)
MonteCarlo(cells) ==
  [type |-> "MonteCarloActor",
   config |-> [n \in DOMAIN cells |-> [key |-> "cell", string |-> cells[n]]]]

RandomRequests == {Match(Random, Random)}

LinearRequests == {Match(MonteCarlo(<<"linear">>), MonteCarlo(<<"linear">>))}

(* Each kind of actor as FIRST and as SECOND, one with two cells; a type   *)
(* nobody registered, a cell that is missing, unknown or a number.         *)
MixedRequests ==
  {Match(Random, Random),
   Match(MonteCarlo(<<"linear", "logistic">>), Random),
   Match(Random, MonteCarlo(<<"logistic">>)),
   Match(MonteCarlo(<<"logistic", "linear">>), MonteCarlo(<<"linear">>)),
   Match(MonteCarlo(<<"linear">>), [type |-> "UnknownActor", config |-> << >>]),
   Match(Random, MonteCarlo(<< >>)),
   Match(MonteCarlo(<<"">>), Random),
   Match(MonteCarlo(<<"quadratic", "linear">>), Random)}

(* The moves recorded so far never influence the rest of a call, so states *)
(* that differ in them alone are identified in the models that check no    *)
(* property of the recorded moves.                                         *)
WithoutMoveHistory ==
  <<pc, request, board, actor_board, move, recording.score, stop, simVars, negative>>
===============================================================================
