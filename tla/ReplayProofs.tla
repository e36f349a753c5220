----------------------------- MODULE ReplayProofs -----------------------------
(***************************************************************************)
(* Theorems about DecodeReplays, and about the games PlayGame records for  *)
(* it, for every size of the board, every pair of actors and every batch.  *)
(*                                                                         *)
(* The loops of the op are folds over sequences.  What one more element    *)
(* adds to each (MoveLoop, BatchLoop) follows at the end of the module     *)
(* from SetFold, of which a loop is an instance that takes the last        *)
(* element first; the proofs before that go by those equations alone.      *)
(***************************************************************************)
EXTENDS ReplayedGame, PlayGameProofs, SequenceTheorems

Recording == [move : Seq(Positions), score : {0, 1}]

Planes == (SUBSET Positions) \X (SUBSET Positions) \X (SUBSET Positions)

Sample == [features : Planes, score : {0, 1}]

(* The loop over the moves of a recording.                                 *)
MoveLoop ==
  /\ BoardAfter(<< >>, 0) = StartBoard
  /\ \A moves \in Seq(Positions), m \in Positions :
       BoardAfter(Append(moves, m), Len(Append(moves, m)))
         = ApplyMove(BoardAfter(moves, Len(moves)), m)

(* The loops over a batch: the first counts the samples, the second writes *)
(* them.                                                                   *)
BatchLoop ==
  /\ Samples(<< >>) = 0 /\ DecodeReplays(<< >>) = << >>
  /\ \A batch \in Seq(Recording), game \in Recording :
       /\ Samples(Append(batch, game)) = Samples(batch) + Len(game.move) + 1
       /\ DecodeReplays(Append(batch, game)) = DecodeReplays(batch) \o DecodeReplay(game)
-------------------------------------------------------------------------------
LEMMA MaxIsGreatest ==
  ASSUME NEW n \in Nat, NEW T \in SUBSET (1 .. n), T # {}
  PROVE  Max(T) \in T /\ \A t \in T : t <= Max(T)
<1> DEFINE S == {n - t : t \in T}
<1>1. S \in SUBSET Nat /\ S # {}
  <2>1. \A t \in T : n - t \in Nat
    OBVIOUS
  <2> QED
    BY <2>1, Zenon
<1>2. Min(S) \in S /\ \A s \in S : Min(S) <= s
  <2> HIDE DEF S
  <2> QED
    BY <1>1, MinIsLeast
<1>3. PICK x \in T : Min(S) = n - x
  BY <1>2
<1>4. ASSUME NEW t \in T
      PROVE  x >= t
  <2>1. n - x <= n - t
    BY <1>2, <1>3
  <2> QED
    BY <2>1
<1>5. Max(T) \in T /\ \A t \in T : Max(T) >= t
  BY <1>4, Zenon DEF Max
<1> QED
  BY <1>5

LEMMA MaxOfInterval ==
  ASSUME NEW n \in Nat
  PROVE  Max(1 .. (n + 1)) = n + 1
<1> DEFINE T == 1 .. (n + 1)
<1>1. T \in SUBSET T /\ T # {} /\ n + 1 \in T /\ n + 1 \in Nat
  OBVIOUS
<1>2. Max(T) \in T /\ \A t \in T : t <= Max(T)
  BY <1>1, MaxIsGreatest
<1>3. Max(T) \in Int /\ Max(T) <= n + 1 /\ n + 1 <= Max(T)
  BY <1>1, <1>2
<1> QED
  BY <1>3

(* Induction over sequences, by the shortest one that is not in a set.     *)
LEMMA SeqSets ==
  ASSUME NEW Elem, NEW A, << >> \in A,
         \A s \in Seq(Elem), e \in Elem : s \in A => Append(s, e) \in A
  PROVE  Seq(Elem) \subseteq A
<1> DEFINE Out == {n \in Nat : \E s \in Seq(Elem) : Len(s) = n /\ s \notin A}
<1> SUFFICES ASSUME Out # {} PROVE FALSE
  BY LenProperties
<1>1. Min(Out) \in Out /\ \A n \in Out : Min(Out) <= n
  <2>1. Out \in SUBSET Nat
    OBVIOUS
  <2> HIDE DEF Out
  <2> QED
    BY <2>1, MinIsLeast
<1>2. PICK s \in Seq(Elem) : Len(s) = Min(Out) /\ s \notin A
  BY <1>1
<1>3. PICK t \in Seq(Elem), e \in Elem : s = Append(t, e)
  BY <1>2, SequenceEmptyOrAppend
<1>4. Len(t) \in Nat /\ Len(s) = Len(t) + 1
  BY <1>3, AppendProperties, LenProperties
<1>5. t \in A
  BY <1>1, <1>2, <1>4
<1> QED
  BY <1>2, <1>3, <1>5

LEMMA AppendDomains ==
  ASSUME NEW Elem, NEW seq \in Seq(Elem), NEW e \in Elem
  PROVE  LET long == Append(seq, e) IN
         /\ Len(seq) \in Nat
         /\ DOMAIN seq = 1 .. Len(seq)
         /\ DOMAIN long = 1 .. (Len(seq) + 1)
         /\ long[Len(seq) + 1] = e
         /\ \A i \in 1 .. Len(seq) : long[i] = seq[i]
  BY AppendProperties, LenProperties

LEMMA FeaturesType ==
  ASSUME NEW b
  PROVE  DefaultFeatures(b) \in Planes
  BY DEF DefaultFeatures, StoneMatrix, Planes

LEMMA WriteOutputType ==
  ASSUME NEW b \in BoardType, NEW score \in {0, 1}
  PROVE  WriteOutput(b, score) \in Sample
<1>1. b.current_player \in kPlayers
  BY DEF BoardType
<1>2. PlayerScores(score)[b.current_player] \in {0, 1}
  BY <1>1 DEF PlayerScores
<1> QED
  BY <1>2, FeaturesType DEF WriteOutput, Sample

LEMMA BoardAfterType ==
  ASSUME MoveLoop, NEW moves \in Seq(Positions), NEW n \in 0 .. Len(moves)
  PROVE  BoardAfter(moves, n) \in BoardType
<1> DEFINE A == {s \in Seq(Positions) : BoardAfter(s, Len(s)) \in BoardType}
           t == SubSeq(moves, 1, n)
<1>1. << >> \in A
  <2>1. << >> \in Seq(Positions) /\ Len(<< >>) = 0
    BY EmptySeq
  <2>2. StartBoard \in BoardType
    BY StartBoardBalanced
  <2> QED
    BY <2>1, <2>2 DEF MoveLoop
<1>2. ASSUME NEW s \in Seq(Positions), NEW m \in Positions, s \in A
      PROVE  Append(s, m) \in A
  <2>1. Append(s, m) \in Seq(Positions)
    BY AppendProperties
  <2>2. ApplyMove(BoardAfter(s, Len(s)), m) \in BoardType
    BY <1>2, MovesKeepBoardType
  <2> QED
    BY <2>1, <2>2 DEF MoveLoop
<1>3. Seq(Positions) \subseteq A
  <2> HIDE DEF A
  <2> QED
    BY <1>1, <1>2, SeqSets
<1>4. t \in Seq(Positions) /\ Len(t) = n
  <2>1. n \in Nat /\ \A i \in 1 .. n : moves[i] \in Positions
    BY LenProperties, ElementOfSeq
  <2> QED
    BY <2>1, SubSeqProperties
<1>5. BoardAfter(t, Len(t)) = BoardAfter(moves, n)
  <2>1. SubSeq(t, 1, Len(t)) = t
    BY <1>4, SubSeqFull
  <2> QED
    BY <2>1, Zenon DEF BoardAfter
<1> HIDE DEF t
<1> QED
  BY <1>3, <1>4, <1>5

(* A game of n moves gives n + 1 samples.                                  *)
LEMMA DecodeReplayType ==
  ASSUME MoveLoop, NEW game \in Recording
  PROVE  /\ DecodeReplay(game) \in Seq(Sample)
         /\ Len(game.move) \in Nat
         /\ Len(DecodeReplay(game)) = Len(game.move) + 1
<1> DEFINE n == Len(game.move)
           out == DecodeReplay(game)
<1>1. game.move \in Seq(Positions) /\ game.score \in {0, 1} /\ n \in Nat
  BY LenProperties DEF Recording
<1>2. ASSUME NEW i \in 1 .. (n + 1)
      PROVE  WriteOutput(BoardAfter(game.move, i - 1), game.score) \in Sample
  <2>1. i - 1 \in 0 .. Len(game.move)
    BY <1>1
  <2>2. BoardAfter(game.move, i - 1) \in BoardType
    BY <1>1, <2>1, BoardAfterType
  <2> QED
    BY <1>1, <2>2, WriteOutputType
<1>3. out \in [1 .. (n + 1) -> Sample]
  BY <1>2, Zenon DEF DecodeReplay
<1> HIDE DEF out
<1>4. out \in Seq(Sample)
  BY <1>1, <1>3
<1>5. Len(out) = n + 1
  BY <1>1, <1>3, <1>4, LenProperties
<1> QED
  BY <1>1, <1>4, <1>5 DEF out

-------------------------------------------------------------------------------
(* The invariant: the moves recorded so far lead to the referee's board.   *)
ReplayInv == BoardAfter(recording.move, Len(recording.move)) = board

LEMMA ReplayInvInit == MoveLoop /\ Init => ReplayInv
<1> SUFFICES ASSUME MoveLoop, Init PROVE ReplayInv
  OBVIOUS
<1>1. recording.move = << >> /\ board = StartBoard /\ Len(<< >>) = 0
  BY DEF Init
<1> QED
  BY <1>1 DEF ReplayInv, MoveLoop

LEMMA ReplayInvNext == MoveLoop /\ GameInv /\ ReplayInv /\ [Next]_vars => ReplayInv'
<1> SUFFICES ASSUME MoveLoop, GameInv, ReplayInv, [Next]_vars
             PROVE  ReplayInv'
  OBVIOUS
<1>1. CASE UNCHANGED <<board, recording>>
  BY <1>1 DEF ReplayInv
<1>2. CASE /\ pc = "apply"
           /\ board' = ApplyMove(board, move)
           /\ recording'.move = Append(recording.move, move)
  <2>1. recording.move \in Seq(Positions) /\ move \in Positions
    BY <1>2 DEF GameInv, TypeOK, ActorIsReady
  <2>2. BoardAfter(Append(recording.move, move), Len(Append(recording.move, move)))
          = ApplyMove(BoardAfter(recording.move, Len(recording.move)), move)
    BY <2>1 DEF MoveLoop
  <2>3. BoardAfter(recording'.move, Len(recording'.move)) = board'
    BY <1>2, <2>2 DEF ReplayInv
  <2> QED
    BY <2>3 DEF ReplayInv
<1>3. CASE PlayMove
  <2>1. recording \in [move : Seq(Positions), score : {0, 1}]
    BY DEF GameInv, TypeOK
  <2> QED
    BY <1>1, <1>2, <1>3, <2>1 DEF PlayMove
<1>4. CASE Next /\ ~PlayMove
  BY <1>1, <1>4
  DEF Next, PrepareActors, ActorStep, TimeOut, Stopped, vars, RandomActorChooseMove,
      MonteCarloActorChooseMove, StartPlayout, PlayoutMove, FinishPlayout, PickMove
<1>5. CASE UNCHANGED vars
  BY <1>1, <1>5 DEF vars
<1> QED
  BY <1>3, <1>4, <1>5

LEMMA WonScores ==
  ASSUME MoveLoop, GameInv
  PROVE  WonScoresMarkWinner
<1> SUFFICES ASSUME Outcome # "draw", pc = "finished",
                    NEW n \in DOMAIN DecodeReplay(recording)
             PROVE  DecodeReplay(recording)[n].score
                      = IF Outcome = BoardAfter(recording.move, n - 1).current_player
                        THEN 1 ELSE 0
  BY DEF WonScoresMarkWinner, ScoresMarkWinner
<1> DEFINE player == BoardAfter(recording.move, n - 1).current_player
           winner == kOpponent[board.current_player]
<1>1. recording.move \in Seq(Positions) /\ Len(recording.move) \in Nat
  BY LenProperties DEF GameInv, TypeOK
<1>2. n \in 1 .. (Len(recording.move) + 1)
  BY DEF DecodeReplay
<1>3. n - 1 \in 0 .. Len(recording.move)
  BY <1>1, <1>2
<1>4. player \in {"FIRST", "SECOND"}
  BY <1>1, <1>3, BoardAfterType DEF BoardType, kPlayers
<1>5. DecodeReplay(recording)[n].score = PlayerScores(recording.score)[player]
  BY <1>2 DEF DecodeReplay, WriteOutput
<1>6. /\ recording.move # << >> /\ recording.score = Score(board, move)
      /\ DidWin(board, move) \/ NoMovePossible(board)
  BY DEF GameInv, GameIsOver, GameOver
<1>7. DidWin(board, move) /\ Outcome = winner
  BY <1>6 DEF Outcome
<1>8. winner \in {"FIRST", "SECOND"}
  BY DEF GameInv, TypeOK, BoardType, kOpponent, kPlayers
<1>9. recording.score = IF winner = "FIRST" THEN 1 ELSE 0
  BY <1>6, <1>7 DEF Score
<1> HIDE DEF player, winner
<1>10. PlayerScores(recording.score)[player] = IF winner = player THEN 1 ELSE 0
  BY <1>4, <1>8, <1>9 DEF PlayerScores, kPlayers
<1> QED
  BY <1>5, <1>7, <1>10 DEF player

LEMMA BatchIsFilled ==
  ASSUME MoveLoop, BatchLoop
  PROVE  \A batch \in Seq(Recording) :
           /\ DecodeReplays(batch) \in Seq(Sample)
           /\ Len(DecodeReplays(batch)) = Samples(batch)
<1> DEFINE Filled(batch) == /\ DecodeReplays(batch) \in Seq(Sample)
                            /\ Len(DecodeReplays(batch)) = Samples(batch)
           A == {batch \in Seq(Recording) : Filled(batch)}
<1>1. << >> \in A
  <2>1. << >> \in Seq(Recording) /\ << >> \in Seq(Sample) /\ Len(<< >>) = 0
    BY EmptySeq
  <2>2. Filled(<< >>)
    BY <2>1 DEF BatchLoop
  <2> HIDE DEF Filled
  <2> QED
    BY <2>1, <2>2
<1>2. ASSUME NEW batch \in Seq(Recording), NEW game \in Recording, batch \in A
      PROVE  Append(batch, game) \in A
  <2> DEFINE long == Append(batch, game)
             out == DecodeReplays(batch)
             new == DecodeReplay(game)
  <2>1. long \in Seq(Recording)
    BY AppendProperties
  <2>2. out \in Seq(Sample) /\ Len(out) = Samples(batch)
    BY <1>2
  <2>3. /\ new \in Seq(Sample) /\ Len(game.move) \in Nat
        /\ Len(new) = Len(game.move) + 1
    BY DecodeReplayType
  <2>4. Samples(long) = Samples(batch) + Len(game.move) + 1 /\ DecodeReplays(long) = out \o new
    BY DEF BatchLoop
  <2> HIDE DEF long, out, new
  <2>5. out \o new \in Seq(Sample) /\ Len(out \o new) = Len(out) + Len(new) /\ Len(out) \in Nat
    BY <2>2, <2>3, ConcatProperties, LenProperties
  <2>6. Len(out \o new) = Samples(long)
    BY <2>2, <2>3, <2>4, <2>5
  <2> QED
    BY <2>1, <2>4, <2>5, <2>6 DEF long
<1>3. Seq(Recording) \subseteq A
  <2> HIDE DEF A
  <2> QED
    BY <1>1, <1>2, SeqSets
<1> QED
  BY <1>3

(* The last sample of a batch is the final position of its last game.      *)
LEMMA LastSample ==
  ASSUME MoveLoop, BatchLoop, NEW batch \in Seq(Recording), NEW game \in Recording
  PROVE  Last(DecodeReplays(Append(batch, game)))
           = WriteOutput(BoardAfter(game.move, Len(game.move)), game.score)
<1> DEFINE out == DecodeReplays(batch)
           new == DecodeReplay(game)
           n == Len(game.move)
<1>1. out \in Seq(Sample)
  BY BatchIsFilled
<1>2. new \in Seq(Sample) /\ n \in Nat /\ Len(new) = n + 1
  BY DecodeReplayType
<1>3. new[n + 1] = WriteOutput(BoardAfter(game.move, (n + 1) - 1), game.score)
  BY <1>2 DEF DecodeReplay
<1>4. (n + 1) - 1 = n
  BY <1>2
<1>5. DecodeReplays(Append(batch, game)) = out \o new
  BY DEF BatchLoop
<1> HIDE DEF out, new, n
<1>6. Len(out) \in Nat /\ Len(out \o new) = Len(out) + (n + 1)
  <2>1. Len(out) \in Nat /\ Len(out \o new) = Len(out) + Len(new)
    BY <1>1, <1>2, ConcatProperties, LenProperties
  <2> QED
    BY <1>2, <2>1
<1>7. (out \o new)[Len(out) + (n + 1)] = new[n + 1]
  <2> DEFINE i == Len(out) + (n + 1)
  <2>1. i \in 1 .. (Len(out) + Len(new)) /\ ~(i <= Len(out)) /\ i - Len(out) = n + 1
    BY <1>2, <1>6
  <2> HIDE DEF i
  <2>2. (out \o new)[i] = IF i <= Len(out) THEN out[i] ELSE new[i - Len(out)]
    BY <1>1, <1>2, <2>1, ConcatProperties
  <2> QED
    BY <2>1, <2>2 DEF i
<1> QED
  BY <1>3, <1>4, <1>5, <1>6, <1>7 DEF Last, n

LEMMA DecodingRestores ==
  ASSUME MoveLoop, BatchLoop, GameInv, ReplayInv
  PROVE  DecodingRestoresBoard
<1> DEFINE one == <<recording>>
           batch == <<recording, recording>>
           output == DecodeReplays(batch)
<1>1. recording \in Recording
  BY DEF GameInv, TypeOK, Recording
<1>2. one \in Seq(Recording) /\ batch \in Seq(Recording) /\ batch = Append(one, recording)
  BY <1>1
<1>3. Len(output) = Samples(batch)
  BY <1>2, BatchIsFilled
<1>4. Last(output)
        = WriteOutput(BoardAfter(recording.move, Len(recording.move)), recording.score)
  <2> HIDE DEF one, batch
  <2> QED
    BY <1>1, <1>2, LastSample
<1>5. Last(output) = WriteOutput(board, recording.score)
  BY <1>4 DEF ReplayInv
<1>6. WriteOutput(board, recording.score).features = DefaultFeatures(board)
  BY DEF WriteOutput
<1> HIDE DEF output
<1> QED
  BY <1>3, <1>5, <1>6 DEF DecodingRestoresBoard, output

-------------------------------------------------------------------------------
(* The loop over the moves of a recording.                                 *)
PlayedMove(m, b) == ApplyMove(b, m)

Played == INSTANCE SetFold WITH Op <- PlayedMove, Choose <- Max

LEMMA LastMoveFirst ==
  ASSUME NEW n \in Nat
  PROVE  Played!Chooses(1 .. n)
  BY MaxIsGreatest DEF Played!Chooses

LEMMA BoardAfterIsFold ==
  \A moves, n :
    BoardAfter(moves, n)
      = Played!Fold(StartBoard, SubSeq(moves, 1, n), DOMAIN SubSeq(moves, 1, n))
  BY DEF BoardAfter, FoldLeft, MapThenFoldSet, Played!Fold, Played!MapThenFoldSet, PlayedMove

(* One more move is applied to the board the others left.                  *)
LEMMA BoardAfterAppend ==
  ASSUME NEW moves \in Seq(Positions), NEW m \in Positions
  PROVE  BoardAfter(Append(moves, m), Len(Append(moves, m)))
           = ApplyMove(BoardAfter(moves, Len(moves)), m)
<1> DEFINE long == Append(moves, m)
           n == Len(moves)
<1>1. /\ n \in Nat /\ DOMAIN moves = 1 .. n /\ DOMAIN long = 1 .. (n + 1)
      /\ long[n + 1] = m /\ \A i \in 1 .. n : long[i] = moves[i]
  BY AppendDomains
<1>2. SubSeq(long, 1, Len(long)) = long /\ SubSeq(moves, 1, n) = moves
  BY AppendProperties, SubSeqFull
<1>3. BoardAfter(long, Len(long)) = Played!Fold(StartBoard, long, DOMAIN long)
  BY <1>2, BoardAfterIsFold
<1>4. BoardAfter(moves, n) = Played!Fold(StartBoard, moves, DOMAIN moves)
  BY <1>2, BoardAfterIsFold
<1> HIDE DEF long, n
<1>5. Played!Chooses(1 .. (n + 1)) /\ Max(1 .. (n + 1)) = n + 1
  BY <1>1, LastMoveFirst, MaxOfInterval
<1>6. Played!Fold(StartBoard, long, 1 .. (n + 1))
        = PlayedMove(long[n + 1], Played!Fold(StartBoard, moves, 1 .. n))
  BY <1>1, <1>5, Played!FoldNext
<1> QED
  BY <1>1, <1>3, <1>4, <1>6 DEF PlayedMove, long, n

LEMMA NoMovesYet == BoardAfter(<< >>, 0) = StartBoard
<1>1. SubSeq(<< >>, 1, 0) = << >>
  BY SubSeqEmpty
<1>2. DOMAIN << >> = {}
  OBVIOUS
<1>3. Played!Fold(StartBoard, << >>, {}) = StartBoard
  BY Played!FoldEmpty
<1> QED
  BY <1>1, <1>2, <1>3, BoardAfterIsFold

LEMMA MoveLoopHolds == MoveLoop
  BY BoardAfterAppend, NoMovesYet DEF MoveLoop

LEMMA ReplayInvAlways == Spec => []ReplayInv
  BY MoveLoopHolds, ReplayInvInit, ReplayInvNext, GameInvAlways, PTL DEF Spec

(* The score of every sample of a game that somebody won says whether the  *)
(* player to move in its position won.                                     *)
THEOREM WonScoresMarkWinnerAlways == Spec => []WonScoresMarkWinner
<1>1. GameInv => WonScoresMarkWinner
  BY MoveLoopHolds, WonScores
<1> QED
  BY <1>1, GameInvAlways, PTL

-------------------------------------------------------------------------------
(* The loops over the recordings of a batch: the first counts the samples, *)
(* the second writes them.                                                 *)
CountedGame(game, samples) == samples + Len(game.move) + 1

WrittenGame(game, output) == output \o DecodeReplay(game)

Counted == INSTANCE SetFold WITH Op <- CountedGame, Choose <- Max

Written == INSTANCE SetFold WITH Op <- WrittenGame, Choose <- Max

LEMMA LastGameFirst ==
  ASSUME NEW n \in Nat
  PROVE  Counted!Chooses(1 .. n) /\ Written!Chooses(1 .. n)
  BY MaxIsGreatest DEF Counted!Chooses, Written!Chooses

LEMMA BatchLoopsAreFolds ==
  \A batch : /\ Samples(batch) = Counted!Fold(0, batch, DOMAIN batch)
             /\ DecodeReplays(batch) = Written!Fold(<< >>, batch, DOMAIN batch)
<1>1. \A batch : Samples(batch) = Counted!Fold(0, batch, DOMAIN batch)
  BY DEF Samples, FoldLeft, MapThenFoldSet, Counted!Fold, Counted!MapThenFoldSet, CountedGame
<1>2. \A batch : DecodeReplays(batch) = Written!Fold(<< >>, batch, DOMAIN batch)
  BY DEF DecodeReplays, FoldLeft, MapThenFoldSet, Written!Fold, Written!MapThenFoldSet,
         WrittenGame
<1> QED
  BY <1>1, <1>2

LEMMA BatchAppend ==
  ASSUME NEW batch \in Seq(Recording), NEW game \in Recording
  PROVE  /\ Samples(Append(batch, game)) = Samples(batch) + Len(game.move) + 1
         /\ DecodeReplays(Append(batch, game)) = DecodeReplays(batch) \o DecodeReplay(game)
<1> DEFINE long == Append(batch, game)
           n == Len(batch)
<1>1. /\ n \in Nat /\ DOMAIN batch = 1 .. n /\ DOMAIN long = 1 .. (n + 1)
      /\ long[n + 1] = game /\ \A i \in 1 .. n : long[i] = batch[i]
  BY AppendDomains
<1> HIDE DEF long, n
<1>2. Max(1 .. (n + 1)) = n + 1 /\ Counted!Chooses(1 .. (n + 1)) /\ Written!Chooses(1 .. (n + 1))
  BY <1>1, LastGameFirst, MaxOfInterval
<1>3. Counted!Fold(0, long, 1 .. (n + 1))
        = CountedGame(long[n + 1], Counted!Fold(0, batch, 1 .. n))
  BY <1>1, <1>2, Counted!FoldNext
<1>4. Written!Fold(<< >>, long, 1 .. (n + 1))
        = WrittenGame(long[n + 1], Written!Fold(<< >>, batch, 1 .. n))
  BY <1>1, <1>2, Written!FoldNext
<1> QED
  BY <1>1, <1>3, <1>4, BatchLoopsAreFolds DEF CountedGame, WrittenGame, long

LEMMA EmptyBatch == Samples(<< >>) = 0 /\ DecodeReplays(<< >>) = << >>
<1>1. DOMAIN << >> = {}
  OBVIOUS
<1>2. Counted!Fold(0, << >>, {}) = 0 /\ Written!Fold(<< >>, << >>, {}) = << >>
  BY Counted!FoldEmpty, Written!FoldEmpty
<1> QED
  BY <1>1, <1>2, BatchLoopsAreFolds

LEMMA BatchLoopHolds == BatchLoop
  BY BatchAppend, EmptyBatch DEF BatchLoop

(* The samples DecodeReplays allocates for a batch are the ones it fills,  *)
(* whatever the number and the lengths of its games.                       *)
THEOREM SamplesAreFilled ==
  \A batch \in Seq(Recording) :
    /\ DecodeReplays(batch) \in Seq(Sample)
    /\ Len(DecodeReplays(batch)) = Samples(batch)
  BY MoveLoopHolds, BatchLoopHolds, BatchIsFilled

(* On every board and for all actors, the recording of the game so far,    *)
(* decoded, ends in the position on the referee's board.                   *)
THEOREM DecodingRestoresBoardAlways == Spec => []DecodingRestoresBoard
<1>1. GameInv /\ ReplayInv => DecodingRestoresBoard
  BY MoveLoopHolds, BatchLoopHolds, DecodingRestores
<1> QED
  BY <1>1, GameInvAlways, ReplayInvAlways, PTL
===============================================================================
