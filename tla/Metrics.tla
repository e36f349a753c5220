-------------------------------- MODULE Metrics --------------------------------
(***************************************************************************)
(* The metrics of a ladder (core/metrics.cc): every PlayGame call builds a *)
(* tree of them, one group per actor, to which a MonteCarloActor adds two  *)
(* samples per move; the supervisor merges the trees of the calls that     *)
(* succeed into one MetricCollector, in the order they complete.           *)
(*                                                                         *)
(* A Metrics message is a sequence of metrics [name, mean] or              *)
(* [name, group].  A name is a sequence of the parts that StrCat joins     *)
(* with "/", and so is a path.  The value of a mean is an exact fraction:  *)
(* the rounding of floats is left out.                                     *)
(***************************************************************************)
EXTENDS Integers, SequencesExt

CONSTANTS
  ActorNames,         \* names of the actors of the ladder
  MonteCarloNames,    \* those of them that are MonteCarloActors
  NumGames,           \* bound: PlayGame calls
  MaxMoves,           \* bound: moves per game
  MaxDepth,           \* bound: groups within groups; a PlayGame call makes one level
  Values              \* bound: values of a sample

ASSUME MetricsAssumption ==
  /\ MonteCarloNames \subseteq ActorNames
  /\ NumGames \in Nat
  /\ MaxMoves \in Nat \ {0}
  /\ MaxDepth \in Nat \ {0}
  /\ Values \subseteq Nat

Games == 1 .. NumGames

VARIABLES
  state,       \* of each call: "playing", "ok", "failed" or "appended"
  players,     \* the names of the two actors, by the parity of the move
  moves,       \* the moves made
  response,    \* the Metrics of the PlayGameResponse
  metrics_,    \* the MetricCollector: a Metric for each path
  samples      \* history: what the actors reported

vars == <<state, players, moves, response, metrics_, samples>>

(* A fraction that is not reduced, and the sum of two of them weighted     *)
(* with natural numbers, over a natural number.                            *)
Whole(n) == [num |-> n, den |-> 1]

WeightedSum(l, x, r, y, total) ==
  [num |-> l * x.num * y.den + r * y.num * x.den, den |-> total * x.den * y.den]

-------------------------------------------------------------------------------
AddMetricMean(metrics, name, value) ==
  Append(metrics, [name |-> name, mean |-> [value |-> Whole(value), count |-> 1]])

(* A bug: the key is not made part of the name.                            *)
BugAddKeyedMetricMean(metrics, name, key, value) == AddMetricMean(metrics, <<name, 0>>, value)

AddKeyedMetricMean(metrics, name, key, value) == AddMetricMean(metrics, <<name, key>>, value)

AddMetricGroup(metrics, name) == Append(metrics, [name |-> <<name>>, group |-> << >>])

IsGroup(metric) == "group" \in DOMAIN metric

IsMean(metric) == "mean" \in DOMAIN metric

(* The metrics of a message with their child_paths.                        *)
Level(metrics, path) == [n \in DOMAIN metrics |-> <<path \o metrics[n].name, metrics[n]>>]

(* Each group gives way to what is in it.                                  *)
OpenGroups(visits) ==
  FoldLeft(LAMBDA opened, visit :
             opened \o (IF IsGroup(visit[2]) THEN Level(visit[2].group, visit[1]) ELSE <<visit>>),
           << >>, visits)

(* A bug: groups are visited as if they were metrics.                      *)
BugIterateFlatMetrics(metrics, path) == Level(metrics, path)

(* What the visitor is called with, in order: the recursion has opened all *)
(* groups.                                                                 *)
IterateFlatMetrics(metrics, path) ==
  FoldLeft(LAMBDA visits, depth : OpenGroups(visits), Level(metrics, path),
           [depth \in 1 .. MaxDepth |-> depth])

(* A bug: the two means count the same, however many samples they have.    *)
BugConcatMetrics(left, right) ==
  [name |-> << >>,
   mean |-> [count |-> left.mean.count + right.mean.count,
             value |-> WeightedSum(1, left.mean.value, 1, right.mean.value, 2)]]

(* Metrics that are not both means are replaced by one without a value.    *)
ConcatMetrics(left, right) ==
  IF IsMean(left) /\ IsMean(right)
  THEN LET count == left.mean.count + right.mean.count
       IN [name |-> << >>,
           mean |-> [count |-> count,
                     value |-> WeightedSum(left.mean.count, left.mean.value,
                                           right.mean.count, right.mean.value, count)]]
  ELSE [name |-> << >>]

(* The visitor of MetricCollector::Append.                                 *)
Visit(collected, path, metric) ==
  [p \in DOMAIN collected \cup {path} |->
     IF p # path THEN collected[p]
     ELSE IF p \in DOMAIN collected THEN ConcatMetrics(collected[p], metric)
     ELSE metric]

VisitAll(collected, visits) ==
  FoldLeft(LAMBDA c, visit : Visit(c, visit[1], visit[2]), collected, visits)

AppendMetrics(collected, metrics) ==
  VisitAll(collected, IterateFlatMetrics(metrics, << >>))

-------------------------------------------------------------------------------
(* PlayGame adds a group per actor before the first move.                  *)
Init ==
  /\ state = [g \in Games |-> "playing"]
  /\ players \in [Games -> {<<a, b>> : a, b \in ActorNames}]
  /\ \A g \in Games : players[g][1] # players[g][2]
  /\ moves = [g \in Games |-> 0]
  /\ response = [g \in Games |->
       AddMetricGroup(AddMetricGroup(<< >>, players[g][1]), players[g][2])]
  /\ metrics_ = << >>
  /\ samples = {}

Side(g) == 1 + (moves[g] % 2)

(* MonteCarloActor::ChooseMove, as far as the metrics go: the group is that *)
(* of the actor whose turn it is, the key the number of moves made.        *)
ChooseMove(g) ==
  /\ state[g] = "playing"
  /\ moves[g] < MaxMoves
  /\ moves' = [moves EXCEPT ![g] = @ + 1]
  /\ IF players[g][Side(g)] \in MonteCarloNames
     THEN \E iterations, expected_score \in Values :
            /\ response' = [response EXCEPT ![g][Side(g)].group =
                 AddKeyedMetricMean(AddKeyedMetricMean(@, "iterations", moves[g], iterations),
                                    "expected_score", moves[g], expected_score)]
            /\ samples' = samples \cup
                 {[game |-> g, path |-> <<players[g][Side(g)], s[1], moves[g]>>, value |-> s[2]] :
                    s \in {<<"iterations", iterations>>, <<"expected_score", expected_score>>}}
     ELSE UNCHANGED <<response, samples>>
  /\ UNCHANGED <<state, players, metrics_>>

(* The game is over, or the call fails.                                    *)
CallEnds(g) ==
  /\ state[g] = "playing"
  /\ moves[g] > 0
  /\ \E s \in {"ok", "failed"} : state' = [state EXCEPT ![g] = s]
  /\ UNCHANGED <<players, moves, response, metrics_, samples>>

(* Supervisor::Play takes the call from its queue.                         *)
CallTaken(g) ==
  /\ state[g] = "ok"
  /\ state' = [state EXCEPT ![g] = "appended"]
  /\ metrics_' = AppendMetrics(metrics_, response[g])
  /\ UNCHANGED <<players, moves, response, samples>>

Next == \E g \in Games : ChooseMove(g) \/ CallEnds(g) \/ CallTaken(g)

Spec == Init /\ [][Next]_vars

-------------------------------------------------------------------------------
(* What the collector holds is a mean for each path: LogMetrics never has  *)
(* to print "UNKOWN METRIC TYPE!".                                         *)
TypeOK ==
  /\ state \in [Games -> {"playing", "ok", "failed", "appended"}]
  /\ moves \in [Games -> 0 .. MaxMoves]
  /\ \A path \in DOMAIN metrics_ : IsMean(metrics_[path])

Appended(path) == {s \in samples : s.path = path /\ state[s.game] = "appended"}

(* "Adds a metric that computes the mean of all samples" (core/metrics.h): *)
(* merging means pairwise, in whatever order the calls complete, gives the *)
(* mean of all samples of the calls that succeeded, each counted once.     *)
MeansAreMeansOfSamples ==
  \A path \in DOMAIN metrics_ :
    LET mean == metrics_[path].mean
        seen == Appended(path)
    IN /\ mean.count = Cardinality(seen)
       /\ mean.value.den # 0
       /\ mean.value.num * mean.count
            = mean.value.den * SumFunction([s \in seen |-> s.value])

(* The path of a sample tells actor, metric and move apart: a call adds    *)
(* one sample to a path at most, and the collector has a path for every    *)
(* sample of a call that succeeded and for no other.                       *)
OneSamplePerCall ==
  /\ DOMAIN metrics_ = {s.path : s \in {t \in samples : state[t.game] = "appended"}}
  /\ \A path \in DOMAIN metrics_ :
       metrics_[path].mean.count
         <= Cardinality({g \in Games : /\ state[g] = "appended"
                                       /\ path[3] < moves[g]
                                       /\ players[g][1 + (path[3] % 2)] = path[1]})
================================================================================
