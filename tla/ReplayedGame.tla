----------------------------- MODULE ReplayedGame -----------------------------
(***************************************************************************)
(* What PlayGame records, read back by DecodeReplays: the two ends of the  *)
(* training pipeline.                                                      *)
(***************************************************************************)
EXTENDS PlayGame, Replay

(* The recording of the game so far, decoded, ends in the position on the  *)
(* referee's board, seen by the player to move: no move is lost, repeated  *)
(* or reordered on the way.  Decoding a batch fills exactly the samples    *)
(* that were allocated for it.                                             *)
DecodingRestoresBoard ==
  pc \in {"choose", "simulate", "playout", "apply", "finished"} =>
    LET batch == <<recording, recording>>
        output == DecodeReplays(batch)
    IN /\ Len(output) = Samples(batch)
       /\ Last(output).features = DefaultFeatures(board)

(* "1.0 if the current player won that game or 0.0 otherwise"              *)
(* (replay_ops_kernel.cc): in every position of a finished game, the score *)
(* of the sample is 1 exactly if the player to move there won the game.    *)
ScoresMarkWinner ==
  pc = "finished" =>
    \A n \in DOMAIN DecodeReplay(recording) :
      LET sample == DecodeReplay(recording)[n]
          player == BoardAfter(recording.move, n - 1).current_player
      IN sample.score = (IF Outcome = player THEN 1 ELSE 0)

(* ScoresMarkWinner, for the games that somebody won.                      *)
WonScoresMarkWinner == Outcome # "draw" => ScoresMarkWinner
===============================================================================
