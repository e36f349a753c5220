-------------------------------- MODULE Replay --------------------------------
(***************************************************************************)
(* DecodeReplays of networks/replay_ops_kernel.cc: the op that turns       *)
(* recorded games into training samples, one per position of each game,    *)
(* the empty board included.  A sample has the three planes of             *)
(* DefaultFeatures, in the order of their names in the std::map, and the   *)
(* score of the player to move.  A plane is the set of the positions whose *)
(* entry is 1.0; a recording is [move, score] with a score of 0 or 1.      *)
(***************************************************************************)
EXTENDS Board, SequencesExt

StoneMatrix(b, player) == {position \in Positions : StoneAt(b, position) = player}

DefaultFeatures(b) ==
  << StoneMatrix(b, b.current_player),               \* stone_me
     StoneMatrix(b, NONE),                           \* stone_none
     StoneMatrix(b, kOpponent[b.current_player]) >>  \* stone_opp

PlayerScores(score) == [p \in kPlayers |-> IF p = "FIRST" THEN score ELSE 1 - score]

(* A bug: the score is always that of the player who began.                *)
BugWriteOutput(b, score) == [features |-> DefaultFeatures(b), score |-> score]

WriteOutput(b, score) ==
  [features |-> DefaultFeatures(b), score |-> PlayerScores(score)[b.current_player]]

(* The board after the first n moves.                                      *)
BoardAfter(moves, n) == FoldLeft(ApplyMove, StartBoard, SubSeq(moves, 1, n))

(* A bug: the position before each move is written, the final one is not.  *)
BugDecodeReplay(recording) ==
  [n \in 1 .. Len(recording.move) |->
     WriteOutput(BoardAfter(recording.move, n - 1), recording.score)]

DecodeReplay(recording) ==
  [n \in 1 .. (Len(recording.move) + 1) |->
     WriteOutput(BoardAfter(recording.move, n - 1), recording.score)]

(* The samples are allocated before any is written.                        *)
Samples(recordings) ==
  FoldLeft(LAMBDA samples, recording : samples + Len(recording.move) + 1, 0, recordings)

DecodeReplays(recordings) ==
  FoldLeft(LAMBDA output, recording : output \o DecodeReplay(recording), << >>, recordings)
===============================================================================
