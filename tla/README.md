# A TLA+ verification of gomoku-ai

The program (`src/gomoku/`) plays gomoku: actors choose moves, a worker
referees games between two actors, a ladder supervisor spreads games over
workers and keeps statistics and metrics, a self-play supervisor records games
in rotating logs, and a TensorFlow pipeline turns the logs into training
samples. This project models the parts that keep state, model-checks them with
TLC and proves with TLAPS all invariants of the board, of a game and its
decoding, of the ladder supervisor and its metrics, of the self-play process and of
the training input.

The system is about 1,700 lines. The rest of `src/`, more than half a million
lines, is a vendored copy of TensorFlow. Of it the project models only what the
logs go through, from the record writer to the record reader, so the share of
all lines under `src/` that the models stand for is small; of `src/gomoku/` they
stand for nearly everything that keeps state.

## The system and its inventory

| Part | Code | State and operations | Module | Status |
|---|---|---|---|---|
| Board | `core/board.{h,cc}` | bitset of stones, player to move, move counter; `ApplyMove`, `RevertMove`, `Reset`, `NoMovePossible`, `DidWin`, `UniformlySampleLegalMove` | `Board`, `BoardCalls` | modelled |
| Worker | `ladder/worker_impl.cc`, `worker.cc` | one game per RPC; the referee's board and one board per actor; recording and score | `PlayGame` | modelled |
| Random actor | `actors/random_actor.cc` | own board | `PlayGame` | modelled |
| Monte Carlo actor | `actors/monte_carlo_actor.cc` | own board, playouts until a stop signal | `PlayGame` | modelled |
| Monte Carlo cells | `actors/mc_cell.cc` | a value per field | `PlayGame` | signs of the values only |
| Actor registry, configuration | `actors/actor_registry.cc`, `actors/actor_config.cc` | factories by name, lookup of configuration items | `PlayGame` | `Create`, `GetConfigString` |
| Features, replay decoding | `core/feature.cc`, `networks/default_features.cc`, `networks/replay_ops_kernel.cc` | recordings to samples | `Replay`, `ReplayedGame` | modelled |
| Ladder | `ladder/ladder.cc` | statistics per actor, random match-ups | `Supervisor` | modelled |
| Ladder supervisor | `ladder/supervisor.cc`, `test_ladder.cc` | calls in flight, games started and completed | `Supervisor` | modelled |
| Metrics | `core/metrics.cc` | trees of means, one collector | `Metrics` | modelled |
| Self-play | `self_play/` | batches of threads, counters, rotating logs | `SelfPlay` (its game loop: `PlayGame`) | modelled |
| Record files | `tensorflow/core/lib/io/`, `platform/posix/` | what is in buffers, what is on the disk | `SelfPlay`, `Training` | what the program relies on |
| Training input | `networks/train.py` and the reader ops under it | list of logs, epochs, the file being read | `Training` | the input up to decoding |
| Networks | `networks/networks.py` | a TensorFlow graph | | not modelled |
| Build, container | `BUILD`, `docker/` | | | not modelled |

How they interact: a ladder driver calls `Supervisor::Play`, which sends
`PlayGame` RPCs to workers; a worker creates two actors from the registry and
referees their game on a `Board`; each actor keeps its own `Board`, updated only
through `ObserveMove`. The recording comes back in the response (ladder) or
goes to a log file (self-play), which the training input reads and `DecodeReplays`
decodes, possibly while the self-play process is still rotating its logs.

## The modules

* **`Gomoku`** is the abstract specification: a set of fields, players who put
  stones on free fields in turn, and a game that is over when a row is on the
  board or the board is full. It knows nothing of bitsets, rays or counters.
* **`Board`** translates the value type. A board is a record of the three
  members: `fields` is the set of the bits that are set (index arithmetic
  included), `current_player`, `moves_made`. The methods are operators. `CHECK`s are
  operators of their own (`ApplyMoveChecks`, `RevertMoveChecks`) since a failed one
  ends the process. `DidWin` is the ray casting of the code and `SampleLegalMove` its
  scan from a random offset. Width, height and the winning length are constants.
* **`BoardCalls`** lets a client make any sequence of calls, `RevertMove` of a
  stone that was not the last one included, and states what must hold of the object.
* **`PlayGame`** is one call of `WorkerImpl::PlayGame` with its two actors: preparing
  the actors from their specifications, choosing a move, playing it on all three boards, recording it. The
  playouts of a Monte Carlo actor are steps of their own, and the time of a move
  can run out between or during them. Of a cell's values the model keeps which
  are negative, because that decides what `SampleGreedy` can return; the linear cell
  keeps its values positive, the logistic cell does not.
* **`Replay`** translates `DecodeReplays` and the features; **`ReplayedGame`** composes
  it with `PlayGame` to compare what was played with what is decoded.
* **`Supervisor`** is `Supervisor::Play` together with `BasicLadder` and the driver of
  `test_ladder.cc`. A call is a record from the moment it is sent until its event is
  taken off the completion queue, in any order. A worker abort fails all calls it
  is serving; an event may also come with its `ok` flag false. gRPC itself is
  external: modelled is what the code relies on.
* **`Metrics`** translates the metric functions and lets several `PlayGame` calls build
  their trees and be merged in the order they complete. A name is the sequence of its
  parts; values are exact fractions.
* **`SelfPlay`** is the self-play process. `RotateLog` is one action per statement, since a
  crash may fall between any two; the games of a batch end in any order while the main
  thread takes their results in order. How much of a log has reached its file is a free
  choice at every write (the zlib and the stdio buffer pass on what they like), up to half
  a record, until the writer has finished the stream and the file is closed. `Die` loses what
  is in buffers and counters; `Restart` starts on the same directory with `next_log_` at 0.
* **`Training`** composes `SelfPlay` with the input pipeline of `train.py`: the list of files
  made once, shuffled epochs, a reader that meets whole, cut, deleted and overwritten files.
* **`BoardLemmas`** holds the facts about boards, the sampler and `DidWin`; **`BoardProofs`**,
  **`PlayGameProofs`**, **`ReplayProofs`**, **`SupervisorProofs`**, **`MetricsProofs`** and
  **`SelfPlayProofs`** (self-play and training) hold the theorems.
* **`SetFold`** holds what is true of every fold; the proofs instantiate it with the loop they are
  about.
* `MCPlayGame` defines the requests of the game runs, repeated, empty and unknown
  configuration items included.

The operators named `Bug...` are plausible mistakes, kept next to the definition
they would replace; each property is known to fail under one of them.

## What the runs check

| Run | Instance | Shows |
|---|---|---|
| `board_calls` | 4x3, three in a row | turn, counter and stones agree; no call changes an owner; revert undoes apply; the sampler returns exactly the free fields; `DidWin` finds exactly the lines |
| `game_rules` | 3x3, random actors | every game is a game of `Gomoku`; the score is that of the winner |
| `game_actors` | 6x1, two in a row, every kind of actor | the three boards agree; playouts continue the game; moves are legal except in the case below; every call ends; the process dies for three known reasons only; decoding gives back the positions played, and won games are labelled for their winner |
| `ladder_pool` | 2 workers with 2 slots, 5 games, 2 failures | games, slots and worker load are conserved; `Play` returns only with all results and returns unless it lost a game |
| `ladder_stats` | 3 actors, 2 calls of `Play` of 3 games, 1 failure | statistics balance; match-ups are uniform |
| `metrics` | 3 calls of up to 3 moves | the collector holds the mean of exactly the samples of the calls that succeeded, per actor, metric and move |
| `self_play` | 2 batches of 2 games per log, 2 logs kept, 3 logs, 1 restart | closed logs are whole and in order; one log per run is torn at most; no run leaves more than `max_replay_files`; the counters count, across a rotation and past their limit; what is written reaches the disk |
| `training` | 2 games per log, 2 logs kept, 3 logs, 1 restart | a closed log is read to its last game; every failure has one of the known causes; epochs end |

Four runs end in a violation, each of a sentence the repository states:

| Run | Says | The code |
|---|---|---|
| `playout_draw` | `board.cc:93`: the sampler always finds a move | a playout never tests for a full board, so a drawn playout ends the worker |
| `draw_scores` | `replay_ops_kernel.cc:41`: 1.0 if the current player won | a draw is a 0.0, so SECOND's positions of a draw decode to 1.0 |
| `ladder_hangs` | `supervisor.h:26`: plays `num_games` games | a failed call is never made up for and `Play` waits for ever |
| `replay_files` | `self_play/supervisor.cc:8`: maximum number of log files | a process that is started again counts from 0 and leaves alone the logs above its own |

Three more disagreements are visible in the definitions and have no run of their own.
`ladder.cc:13` asserts that every actor of the ladder has statistics, but an actor that was never
drawn has none, and the program ends (an alternative of `LogStats`, which `ladder_stats` reaches). The
sampler returns the first free field of a scan, so a free field behind taken ones is drawn
more often than others although `board.h:125` says "uniform distribution"
(`SampleLegalMove`; what holds, and is checked and proved, is that it returns exactly the free
fields). With a logistic cell whose values for all free fields are negative,
`SampleGreedy` returns a taken field although `mc_cell.h:50` says "legal move"
(the exception in `MovesAreLegal`, one of the three reasons in `AbortsAreExplained`).

Of self-play and training three things are worth knowing. What holds of `max_replay_files` is a
bound on the logs of each run of the process (`RunKeepsMaxReplayFiles`), not on the directory.
`Flush` at the end of a batch guarantees nothing: a crash may lose every game since the last rotation. And a training run that outlives
a rotation fails on the first deleted file of its list (`train.py:52` notes that rotating
logs are not supported). `SelfPlay` also follows the code where it is out of step
with the rest: `self_play.cc` sets the name of an actor where the worker uses its type, and calls
`GameStarted` without the metrics that `core/actor.h` asks for.

**Bounds.** The board properties depend on a position and its neighbourhood; 4x3
has lines in all four directions, starting at and away from every edge, and a width
that differs from the height, so index mistakes show. The 6x1 strip is the smallest
board on which playouts are won, lost and drawn and all free fields can be
losing for the player to move. The pool has more games than slots, so that replacements
happen next to failures, and a worker has two calls to lose at once. `MaxFailures`
bounds failures per run and `NumPlays` the calls of `Play` (100 in the code).
The self-play run rotates often enough to delete a log, then dies and does so again over the
logs it left; a run of it writes up to twelve games and its counters stop at the fifth win, so that they cross a
rotation before the limit is reached and go on after it.
`MaxLogs` and `MaxRestarts` bound logs and restarts. The training run starts reading at any
point of such a history. Three metric responses are the least with which pairwise means
and plain means differ. `MaxDepth` bounds how deep groups are nested in a response; `PlayGame` makes
one level, and the run opens two. `game_rules` and `playout_draw` identify states that differ in the recorded
moves only, which no step reads; runs with temporal properties other than the
refinement do not. Deadlock is checked in the game runs; it is not in `board_calls`,
where a board after a failed `CHECK` is the end, in the ladder runs, where `Play`
really can wait for ever, nor in the others, whose bounds end the run.

**Fairness.** `PlayGame` assumes that the thread of a call keeps running and that the
clock reaches the end of a move's time (the stop signal compares with a fixed
deadline); nothing is assumed of the number of playouts. `Supervisor` assumes that
the supervisor's thread runs and that a game at a live worker ends, which is what
`CallEnds` shows of `PlayGame`. `SelfPlay` assumes the same of its main thread and its games, and
nothing of crashes and restarts; `Training` adds that the threads of a training run that was
started run.

## What is proved

All theorems hold for every value of the constants under the `ASSUME`s of `Board` (positive
sizes), `PlayGame` (some request, a specification per player), `Supervisor` (at least one worker,
slot and `Play`, two actors), `Metrics` (Monte Carlo actors are actors, samples are natural numbers,
at least one move and one level of groups) and `SelfPlay`, which `Training` extends (positive sizes).

* `BoardProofs`: `TypeCorrect`, `StonesMatchTurnAlways`, `FullBoardHasNoMoveAlways`,
  `SamplerCoversLegalMovesAlways`, `DidWinIsLineAlways`, `RevertUndoesApplyAlways`,
  `StonesKeepOwnerAlways`. The inductive invariant is
  `BoardInv == TypeOK /\ StonesMatchTurn`: the type alone is not inductive, since
  only the agreement of counter and stones keeps `RevertMove` from taking the counter
  below zero and `ApplyMove` from taking it past the number of fields. The argument
  rests on the injectivity of the index (`IndexIsInjective`) and on what one apply or
  revert does to every field (`StoneAfterApply`, `StoneAfterRevert`). The sampler's scan
  visits every field from every offset (`ScanVisitsAll`); a ray is as long as the line it
  follows because it leaves the board (`RaysLeaveTheBoard`, `RayIsMaximal`).
* `PlayGameProofs`: `GameTypeCorrect`, `ReplicasAgreeAlways`, `MovesAreLegalAlways`,
  `AbortsAreExplainedAlways`, `ScoreMatchesBoardAlways`, `PlayoutContinuesGameAlways`, and
  `PlayGameImplementsRules`, the refinement of `Gomoku` (its initial states and steps; `Gomoku`
  states no fairness). The rules look for a row anywhere, `DidWin` only
  along the rays of the last move: the two agree because nobody had a row before
  (`NoRowYet`) and a new row goes through the new stone (`NewRowsGoThroughMove`).
  The inductive invariant `GameInv` adds that stones and turn are balanced, that the boards
  agree, that the actor to move exists, and that no playout is under way outside of one. `PlayoutInv` carries the same argument along a playout.
* `ReplayProofs`: `SamplesAreFilled` (of any batch of recordings), `DecodingRestoresBoardAlways` and
  `WonScoresMarkWinnerAlways`. The invariant added to `GameInv` is `ReplayInv`: the moves
  recorded so far, applied to an empty board, give the referee's. It is preserved because one more
  recorded move is one more application of `ApplyMove` at the end of the loop (`MoveLoop`). The
  score needs no invariant of its own: the player to move in a decoded position is one of the two,
  and `GameIsOver` ties the recorded score to the winner.
* `SupervisorProofs`: `TypeCorrect`, `GamesAccountedAlways`, `SlotsConservedAlways`,
  `WorkerLoadBoundedAlways`, `ReturnsOnlyCompleteAlways`, `MatchupsUniform` and
  `StatsBalanceAlways`. The
  inductive invariant `LadderInv` adds three facts: the ids of calls are distinct and below
  `games_started` (so that a new call is new), the calls of a worker the wave has not
  reached yet are none (`LoadInv`), and during the wave nothing is taken off the queue and
  every slot it has passed is filled while games are left to start (`WaveInv`). Without them
  a completion could not be counted as exactly one call, and a full pool would not follow
  from the end of the wave.
  `StatsBalance` is inductive beside `LadderInv`: `GameCompleted` adds one to a single summand of
  either sum, and a sum does not depend on the order of its summands (`SumAddsOne`).
* `MetricsProofs`: `MetricsTypeCorrect`, `MeansAreMeansOfSamplesAlways` and `OneSamplePerCallAlways`. The
  inductive invariant `MetricsInv` says that the samples of a call are of moves it has made, each by
  the actor whose turn it was (`SamplesInv`), that the two groups of a response hold exactly
  these samples, each once (`ResponseInv`), and that the collector has, for each path, the mean of the
  samples merged so far (`CollectorInv`). Flattening a response gives the two groups one after the other
  (`ResponseIsFlattened`), in which no path occurs twice since the players have different names
  and a move has one sample of each metric. So a merge is one `ConcatMetrics` with a single
  sample per path, whatever else is in the response (`VisitsMerge`), and the weighted mean of a mean and
  one more sample is the mean of all (`MeanGrows`), over a denominator that is never 0. The samples
  of a path come from different calls, which bounds their number (`SamplesCountCalls`).
* `SelfPlayProofs`: `SelfPlayTypeCorrect`, `RunKeepsMaxReplayFilesAlways`, `ClosedLogsAreWholeAlways`,
  `CrashTearsOneLogAlways`, `CountersCountGamesAlways`. The inductive invariant `SelfPlayInv` says
  which numbers the logs of each run have (`DirInv`), that the file being written is the newest
  log (`WriterInv`), that only it may be torn (`TornInv`), and how many records it has at
  each stage of `PlayBatch` (`ProgressInv`). A log is whole when it is closed because it
  has all its records by then; a run leaves at most `max_replay_files` logs because no two of
  them lie that far apart, so that their numbers modulo `max_replay_files` are different.
* `SelfPlayProofs`, of training: `TrainerFailuresExplainedAlways` and `TrainerReadsWholeLogsAlways`.
  `TrainingInv` joins to `SelfPlayInv` that a closed log of the
  running process has all its games on the disk (`ClosedFilesInv`), that the reader stands between two
  records of a file that exists, unlinked or not (`WorkInv`), and which names the list of files can
  have (`TrainerInv`). Files only ever grow (`FilesGrow`), so the reader's position stays
  inside them.

**Folds and induction.** The sums of the statistics, the loops of `DecodeReplays`, the flattening of
metrics and the visits of the collector are folds of the
community modules, defined by a `CHOOSE` of a function on the subsets of their index set. The library's
induction theorems take an operator and cannot be used, so `SetFold` has the operator of
the fold as a constant, proves what is needed by induction over sets of numbers (`NatSets`: a set
that has 0 and the successors of its members has all numbers), and is instantiated once for every
loop. `FoldHasValues` shows that the chosen function exists and satisfies its equation,
`FoldAnyFirst` that the order is irrelevant to an operator that commutes, and `FoldNext` what one
more element adds.

Only model-checked: the temporal properties `CallEnds`, `RandomGameFinishes`,
`PlayEndsUnlessGamesLost`, `RecordingsReachDisk` and `EpochEnds`, since liveness is out of the prover's
reach. Every invariant, action property and refinement that a passing run checks has a theorem.

## Not modelled

* The numbers that the cells and the networks compute. They are floats, with exponentials, and the
  tools have integers; `PlayGame` keeps the sign of a value, which is all that the choice of a
  move can go wrong over.
* `Supervisor` and `PlayGame` are not composed into one state space. What passes between them is that a
  call ends with a score or with its worker, which is what `CallEnds` and `AbortsAreExplained` show on
  the one side and `GameEnds` and `WorkerAborts` assume on the other.
* The seeds that self-play threads draw from a shared generator in a data race: all random
  choices are open in the models, so no property depends on them.
* The registration of actors before `main`; parse errors of records; checksums and compression
  of records as such; `FlattenMetrics` and the configuration getters nobody calls; the wording of logs;
  a power failure that loses what the operating system has.
* The TensorFlow graph of the model and its training, the shuffled batches behind the decoder,
  and all of TensorFlow that the logs do not go through.
* The `DCHECK`s, which are off in an optimised build: every caller passes a position on the board.
