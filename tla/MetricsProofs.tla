----------------------------- MODULE MetricsProofs -----------------------------
(***************************************************************************)
(* Theorems about the metrics of a ladder, for all actors, any number of   *)
(* games and moves, and all values of the samples.                         *)
(*                                                                         *)
(* The invariant follows a sample from the actor to the collector: a group *)
(* of a response holds the samples of its actor, each once (ResponseInv),  *)
(* and what the collector has for a path is the mean of the samples of the *)
(* calls it took (CollectorInv).  Merging a response is then one           *)
(* ConcatMetrics with a single sample for each of its paths, as no two of  *)
(* its samples have the same path (SamplesInv).                            *)
(*                                                                         *)
(* What one more element adds to each loop of metrics.cc (OpenLoop,        *)
(* DepthLoop, VisitLoop) and to a sum (SumLoop) follows at the end of the  *)
(* module from SetFold; the proofs before that go by those equations.      *)
(***************************************************************************)
EXTENDS Metrics, FiniteSetTheorems, SequenceTheorems, WellFoundedInduction, TLAPS

MetricNames == {"iterations", "expected_score"}

Paths == ActorNames \X MetricNames \X Nat

Sample == [game : Games, path : Paths, value : Nat]

MetricMean == [name : MetricNames \X Nat, mean : [value : [num : Nat, den : {1}], count : {1}]]

(* The metric that a sample is added as, and its visit.                    *)
Entry(s) ==
  [name |-> <<s.path[2], s.path[3]>>, mean |-> [value |-> Whole(s.value), count |-> 1]]

VisitType == Paths \X MetricMean

SamplesOf(all, g, player) == {s \in all : s.game = g /\ s.path[1] = player}

(* A call adds one sample to a path at most: its key is the move, and the  *)
(* move tells the player.                                                  *)
SamplesInv ==
  /\ samples \subseteq Sample
  /\ IsFiniteSet(samples)
  /\ \A s \in samples :
       /\ s.path[3] < moves[s.game]
       /\ s.path[1] = players[s.game][1 + (s.path[3] % 2)]
  /\ \A s, t \in samples : s.game = t.game /\ s.path = t.path => s = t

(* A group holds the samples of its actor, each once.                      *)
Holds(group, S) ==
  /\ group \in Seq(MetricMean)
  /\ \A n \in 1 .. Len(group) : \E s \in S : group[n] = Entry(s)
  /\ \A s \in S : \E n \in 1 .. Len(group) : group[n] = Entry(s)
  /\ \A m, n \in 1 .. Len(group) : group[m].name = group[n].name => m = n

GroupMetric(player, group) == [name |-> <<player>>, group |-> group]

ResponseInv ==
  \A g \in Games :
    /\ response[g] = <<GroupMetric(players[g][1], response[g][1].group),
                       GroupMetric(players[g][2], response[g][2].group)>>
    /\ \A i \in {1, 2} : Holds(response[g][i].group, SamplesOf(samples, g, players[g][i]))

(* A mean of a finite set of samples, as a fraction.                       *)
SumOfValues(S) == SumFunction([s \in S |-> s.value])

MeanOf(mean, S) ==
  /\ mean.count = Cardinality(S)
  /\ mean.value.num \in Nat /\ mean.value.den \in Nat \ {0}
  /\ mean.value.num * mean.count = mean.value.den * SumOfValues(S)

CollectorInv ==
  /\ DOMAIN metrics_ = {s.path : s \in {t \in samples : state[t.game] = "appended"}}
  /\ \A path \in DOMAIN metrics_ :
       IsMean(metrics_[path]) /\ MeanOf(metrics_[path].mean, Appended(path))

PlayersInv ==
  /\ players \in [Games -> ActorNames \X ActorNames]
  /\ \A g \in Games : players[g][1] # players[g][2]

MetricsInv ==
  /\ state \in [Games -> {"playing", "ok", "failed", "appended"}]
  /\ moves \in [Games -> 0 .. MaxMoves]
  /\ response \in [Games -> Seq([name : Seq(ActorNames), group : Seq(MetricMean)])]
  /\ PlayersInv
  /\ SamplesInv
  /\ ResponseInv
  /\ CollectorInv
-------------------------------------------------------------------------------
(* The loop of IterateFlatMetrics over the metrics of a message.           *)
Children(visit) == IF IsGroup(visit[2]) THEN Level(visit[2].group, visit[1]) ELSE <<visit>>

OpenLoop ==
  /\ OpenGroups(<< >>) = << >>
  /\ \A V : \A visits \in Seq(V), visit \in V :
       OpenGroups(Append(visits, visit)) = OpenGroups(visits) \o Children(visit)

(* Its recursion, n groups deep.                                           *)
Opened(metrics, path, n) ==
  FoldLeft(LAMBDA visits, depth : OpenGroups(visits), Level(metrics, path),
           [depth \in 1 .. n |-> depth])

DepthLoop ==
  \A metrics, path :
    /\ Opened(metrics, path, 0) = Level(metrics, path)
    /\ \A n \in Nat : Opened(metrics, path, n + 1) = OpenGroups(Opened(metrics, path, n))

(* The calls of the visitor of MetricCollector::Append.                    *)
VisitLoop ==
  \A collected :
    /\ VisitAll(collected, << >>) = collected
    /\ \A visits \in Seq(VisitType), visit \in VisitType :
         VisitAll(collected, Append(visits, visit))
           = Visit(VisitAll(collected, visits), visit[1], visit[2])

(* The sum of the values of samples.                                       *)
SumLoop ==
  /\ SumOfValues({}) = 0
  /\ \A S \in SUBSET Sample : \A s \in Sample \ S :
       IsFiniteSet(S) =>
         SumOfValues(S) \in Nat /\ SumOfValues(S \cup {s}) = SumOfValues(S) + s.value
-------------------------------------------------------------------------------
LEMMA NatSets ==
  ASSUME NEW A, 0 \in A, \A n \in Nat : n \in A => n + 1 \in A
  PROVE  Nat \subseteq A
<1> DEFINE Less == {ss \in Nat \X Nat : ss[1] < ss[2]}
           Out == Nat \ A
<1> SUFFICES ASSUME Out # {} PROVE FALSE
  OBVIOUS
<1>1. IsWellFoundedOn(Less, Nat)
  BY NatLessThanWellFounded DEF OpToRel
<1>2. PICK x \in Out : \A y \in Out : ~(<<y, x>> \in Less)
  <2>1. Out \subseteq Nat
    OBVIOUS
  <2> HIDE DEF Less, Out
  <2> QED
    BY <1>1, <2>1, WFMin
<1>3. x - 1 \in Nat /\ (x - 1) + 1 = x
  OBVIOUS
<1>4. <<x - 1, x>> \in Less
  BY <1>3
<1>5. x - 1 \in A
  BY <1>2, <1>3, <1>4
<1> QED
  BY <1>3, <1>5

(* Induction over sequences, by their length.                              *)
LEMMA SeqSets ==
  ASSUME NEW V, NEW A, << >> \in A,
         \A s \in Seq(V), e \in V : s \in A => Append(s, e) \in A
  PROVE  Seq(V) \subseteq A
<1> DEFINE N == {n \in Nat : \A s \in Seq(V) : Len(s) = n => s \in A}
<1>1. 0 \in N
  BY EmptySeq
<1>2. ASSUME NEW n \in Nat, n \in N
      PROVE  n + 1 \in N
  <2>1. ASSUME NEW s \in Seq(V), Len(s) = n + 1
        PROVE  s \in A
    <3>1. s # << >>
      BY <2>1, EmptySeq
    <3>2. PICK t \in Seq(V), e \in V : s = Append(t, e)
      BY <3>1, SequenceEmptyOrAppend
    <3>3. Len(t) \in Nat /\ Len(s) = Len(t) + 1
      BY <3>2, AppendProperties, LenProperties
    <3>4. Len(t) = n
      BY <2>1, <3>3
    <3> QED
      BY <1>2, <3>2, <3>4
  <2> QED
    BY <2>1
<1>3. Nat \subseteq N
  <2> HIDE DEF N
  <2> QED
    BY <1>1, <1>2, NatSets
<1> QED
  BY <1>3, LenProperties

-------------------------------------------------------------------------------
(* The paths of the metrics of an actor's group.                           *)
LEMMA JoinPath ==
  ASSUME NEW a, NEW b, NEW c
  PROVE  <<a>> \o <<b, c>> = <<a, b, c>>
<1> DEFINE V == {a, b, c}
           s == <<a>>
           t == <<b, c>>
           u == <<a, b, c>>
<1>1. s \in Seq(V) /\ t \in Seq(V) /\ u \in Seq(V) /\ Len(s) = 1 /\ Len(t) = 2 /\ Len(u) = 3
  OBVIOUS
<1>2. s[1] = a /\ t[1] = b /\ t[2] = c /\ u[1] = a /\ u[2] = b /\ u[3] = c
  OBVIOUS
<1> HIDE DEF s, t, u, V
<1>3. /\ s \o t \in Seq(V) /\ Len(s \o t) = Len(s) + Len(t)
      /\ \A i \in 1 .. Len(s) + Len(t) :
           (s \o t)[i] = IF i <= Len(s) THEN s[i] ELSE t[i - Len(s)]
  BY <1>1, ConcatProperties
<1>4. Len(s \o t) = 3 /\ (s \o t)[1] = a /\ (s \o t)[2] = b /\ (s \o t)[3] = c
  BY <1>1, <1>2, <1>3
<1>5. \A i \in 1 .. 3 : (s \o t)[i] = u[i]
  BY <1>2, <1>4
<1> QED
  BY <1>1, <1>3, <1>4, <1>5, SeqEqual DEF s, t, u

LEMMA FunctionIsSeq ==
  ASSUME NEW V, NEW n \in Nat, NEW s \in [1 .. n -> V]
  PROVE  s \in Seq(V) /\ Len(s) = n
<1>1. s \in Seq(V)
  OBVIOUS
<1> QED
  BY <1>1, LenProperties

LEMMA LevelOfGroup ==
  ASSUME NEW p \in ActorNames, NEW group \in Seq(MetricMean)
  PROVE  /\ Level(group, <<p>>) \in Seq(VisitType)
         /\ Len(Level(group, <<p>>)) = Len(group)
         /\ \A n \in 1 .. Len(group) :
              Level(group, <<p>>)[n] = <<<<p, group[n].name[1], group[n].name[2]>>, group[n]>>
<1> DEFINE level == Level(group, <<p>>)
<1>1. Len(group) \in Nat /\ DOMAIN group = 1 .. Len(group)
  BY LenProperties
<1>2. ASSUME NEW n \in 1 .. Len(group)
      PROVE  /\ level[n] = <<<<p, group[n].name[1], group[n].name[2]>>, group[n]>>
             /\ level[n] \in VisitType
  <2>1. group[n] \in MetricMean
    BY ElementOfSeq
  <2>2. /\ group[n].name[1] \in MetricNames /\ group[n].name[2] \in Nat
        /\ group[n].name = <<group[n].name[1], group[n].name[2]>>
    BY <2>1 DEF MetricMean
  <2>3. <<p>> \o group[n].name = <<p, group[n].name[1], group[n].name[2]>>
    BY <2>2, JoinPath
  <2>4. level[n] = <<<<p>> \o group[n].name, group[n]>>
    BY <1>1 DEF Level
  <2> HIDE DEF level
  <2>5. level[n] = <<<<p, group[n].name[1], group[n].name[2]>>, group[n]>>
    BY <2>3, <2>4
  <2>6. <<p, group[n].name[1], group[n].name[2]>> \in Paths
    BY <2>2 DEF Paths
  <2> QED
    BY <2>1, <2>5, <2>6 DEF VisitType
<1>3. level \in [1 .. Len(group) -> VisitType]
  BY <1>1, <1>2 DEF Level
<1> HIDE DEF level
<1>4. level \in Seq(VisitType) /\ Len(level) = Len(group)
  BY <1>1, <1>3, FunctionIsSeq
<1> QED
  BY <1>2, <1>4 DEF level

LEMMA MeansAreNoGroups ==
  ASSUME NEW visit \in VisitType
  PROVE  Children(visit) = <<visit>>
<1>1. visit[2] \in MetricMean
  BY DEF VisitType
<1>2. DOMAIN visit[2] = {"name", "mean"}
  BY <1>1 DEF MetricMean
<1> QED
  BY <1>2 DEF Children, IsGroup

(* When no groups are left, the recursion has ended.                       *)
LEMMA NothingToOpen ==
  ASSUME OpenLoop, NEW visits \in Seq(VisitType)
  PROVE  OpenGroups(visits) = visits
<1> DEFINE A == {s \in Seq(VisitType) : OpenGroups(s) = s}
<1>1. << >> \in A
  BY DEF OpenLoop
<1>2. ASSUME NEW s \in Seq(VisitType), NEW e \in VisitType, s \in A
      PROVE  Append(s, e) \in A
  <2>1. OpenGroups(Append(s, e)) = OpenGroups(s) \o Children(e)
    BY DEF OpenLoop
  <2>2. OpenGroups(Append(s, e)) = s \o <<e>>
    BY <1>2, <2>1, MeansAreNoGroups
  <2>3. Append(s, e) \in Seq(VisitType) /\ Append(s, e) = s \o <<e>>
    BY AppendProperties, AppendIsConcat
  <2> QED
    BY <2>2, <2>3
<1>3. Seq(VisitType) \subseteq A
  <2> HIDE DEF A
  <2> QED
    BY <1>1, <1>2, SeqSets
<1> QED
  BY <1>3

(* The response of a call opens into its two groups, one after the other.  *)
Flat(p, G, q, H) == Level(G, <<p>>) \o Level(H, <<q>>)

LEMMA FlatType ==
  ASSUME NEW p \in ActorNames, NEW G \in Seq(MetricMean),
         NEW q \in ActorNames, NEW H \in Seq(MetricMean)
  PROVE  Flat(p, G, q, H) \in Seq(VisitType)
<1>1. Level(G, <<p>>) \in Seq(VisitType) /\ Level(H, <<q>>) \in Seq(VisitType)
  BY LevelOfGroup
<1> QED
  BY <1>1, ConcatProperties DEF Flat

LEMMA PairIsAppended ==
  ASSUME NEW x, NEW y
  PROVE  /\ x \in {x, y} /\ y \in {x, y} /\ << >> \in Seq({x, y}) /\ <<x>> \in Seq({x, y})
         /\ <<x, y>> = Append(<<x>>, y) /\ <<x>> = Append(<< >>, x)
  OBVIOUS

LEMMA GroupsOpen ==
  ASSUME OpenLoop, NEW p \in ActorNames, NEW G \in Seq(MetricMean),
         NEW q \in ActorNames, NEW H \in Seq(MetricMean)
  PROVE  OpenGroups(Level(<<GroupMetric(p, G), GroupMetric(q, H)>>, << >>)) = Flat(p, G, q, H)
<1> DEFINE x == <<<<p>>, GroupMetric(p, G)>>
           y == <<<<q>>, GroupMetric(q, H)>>
           V == {x, y}
<1>1. Level(<<GroupMetric(p, G), GroupMetric(q, H)>>, << >>) = <<x, y>>
  <2>1. << >> \o <<p>> = <<p>> /\ << >> \o <<q>> = <<q>>
    <3>1. <<p>> \in Seq(ActorNames) /\ <<q>> \in Seq(ActorNames)
      OBVIOUS
    <3> QED
      BY <3>1, ConcatEmptySeq
  <2> QED
    BY <2>1 DEF Level, GroupMetric
<1>2. Children(x) = Level(G, <<p>>) /\ Children(y) = Level(H, <<q>>)
  BY DEF Children, IsGroup, GroupMetric
<1> HIDE DEF x, y
<1>3. /\ x \in V /\ y \in V /\ << >> \in Seq(V) /\ <<x>> \in Seq(V)
      /\ <<x, y>> = Append(<<x>>, y) /\ <<x>> = Append(<< >>, x)
  BY PairIsAppended
<1> HIDE DEF V
<1>4. OpenGroups(<<x>>) = << >> \o Level(G, <<p>>)
  BY <1>2, <1>3 DEF OpenLoop
<1>5. << >> \o Level(G, <<p>>) = Level(G, <<p>>)
  <2>1. Level(G, <<p>>) \in Seq(VisitType)
    BY LevelOfGroup
  <2> QED
    BY <2>1, ConcatEmptySeq
<1>6. OpenGroups(<<x, y>>) = OpenGroups(<<x>>) \o Children(y)
  BY <1>3 DEF OpenLoop
<1> QED
  BY <1>1, <1>2, <1>4, <1>5, <1>6 DEF Flat

LEMMA ResponseIsFlattened ==
  ASSUME OpenLoop, DepthLoop, NEW p \in ActorNames, NEW G \in Seq(MetricMean),
         NEW q \in ActorNames, NEW H \in Seq(MetricMean)
  PROVE  IterateFlatMetrics(<<GroupMetric(p, G), GroupMetric(q, H)>>, << >>) = Flat(p, G, q, H)
<1> DEFINE tree == <<GroupMetric(p, G), GroupMetric(q, H)>>
           A == {n \in Nat : Opened(tree, << >>, n + 1) = Flat(p, G, q, H)}
<1>1. 0 \in A
  <2>1. Opened(tree, << >>, 0) = Level(tree, << >>)
    BY DEF DepthLoop
  <2>2. Opened(tree, << >>, 0 + 1) = OpenGroups(Opened(tree, << >>, 0))
    BY DEF DepthLoop
  <2> QED
    BY <2>1, <2>2, GroupsOpen
<1>2. ASSUME NEW n \in Nat, n \in A
      PROVE  n + 1 \in A
  <2>1. n + 1 \in Nat
    OBVIOUS
  <2>2. Opened(tree, << >>, (n + 1) + 1) = OpenGroups(Opened(tree, << >>, n + 1))
    BY <2>1 DEF DepthLoop
  <2>3. OpenGroups(Flat(p, G, q, H)) = Flat(p, G, q, H)
    BY FlatType, NothingToOpen
  <2> QED
    BY <1>2, <2>1, <2>2, <2>3
<1>3. Nat \subseteq A
  <2> HIDE DEF A
  <2> QED
    BY <1>1, <1>2, NatSets
<1>4. MaxDepth - 1 \in Nat /\ (MaxDepth - 1) + 1 = MaxDepth
  BY MetricsAssumption
<1>5. Opened(tree, << >>, (MaxDepth - 1) + 1) = Flat(p, G, q, H)
  BY <1>3, <1>4
<1>6. Opened(tree, << >>, MaxDepth) = Flat(p, G, q, H)
  BY <1>4, <1>5
<1> QED
  BY <1>6, Zenon DEF Opened, IterateFlatMetrics

-------------------------------------------------------------------------------
(* The visits of a set of samples: each once, and no two with the same     *)
(* path.                                                                   *)
Distinct(visits) ==
  \A m, n \in 1 .. Len(visits) : visits[m][1] = visits[n][1] => m = n

Lists(visits, S) ==
  /\ visits \in Seq(VisitType)
  /\ \A n \in 1 .. Len(visits) : \E s \in S : visits[n] = <<s.path, Entry(s)>>
  /\ \A s \in S : \E n \in 1 .. Len(visits) : visits[n] = <<s.path, Entry(s)>>
  /\ Distinct(visits)

LEMMA GroupLists ==
  ASSUME NEW p \in ActorNames, NEW group, NEW S \in SUBSET Sample, Holds(group, S),
         \A s \in S : s.path[1] = p
  PROVE  Lists(Level(group, <<p>>), S)
<1> DEFINE level == Level(group, <<p>>)
           path(n) == <<p, group[n].name[1], group[n].name[2]>>
<1>1. group \in Seq(MetricMean) /\ Len(group) \in Nat /\ DOMAIN group = 1 .. Len(group)
  BY LenProperties DEF Holds
<1>2. /\ level \in Seq(VisitType) /\ Len(level) = Len(group)
      /\ \A n \in 1 .. Len(group) : level[n] = <<path(n), group[n]>>
  BY <1>1, LevelOfGroup
<1> HIDE DEF level
<1>3. ASSUME NEW n \in 1 .. Len(group), NEW s \in S, group[n] = Entry(s)
      PROVE  level[n] = <<s.path, Entry(s)>>
  <2>1. s.path = <<s.path[1], s.path[2], s.path[3]>> /\ s.path[1] = p
    BY DEF Sample, Paths
  <2>2. group[n].name[1] = s.path[2] /\ group[n].name[2] = s.path[3]
    BY <1>3 DEF Entry
  <2>3. path(n) = s.path
    BY <2>1, <2>2
  <2> HIDE DEF path
  <2> QED
    BY <1>2, <1>3, <2>3
<1>4. ASSUME NEW n \in 1 .. Len(level)
      PROVE  \E s \in S : level[n] = <<s.path, Entry(s)>>
  <2>1. PICK s \in S : group[n] = Entry(s)
    BY <1>1, <1>2 DEF Holds
  <2> QED
    BY <1>2, <1>3, <2>1
<1>5. ASSUME NEW s \in S
      PROVE  \E n \in 1 .. Len(level) : level[n] = <<s.path, Entry(s)>>
  <2>1. PICK n \in 1 .. Len(group) : group[n] = Entry(s)
    BY <1>1 DEF Holds
  <2> QED
    BY <1>2, <1>3, <2>1
<1>6. ASSUME NEW m \in 1 .. Len(level), NEW n \in 1 .. Len(level), level[m][1] = level[n][1]
      PROVE  m = n
  <2>1. m \in 1 .. Len(group) /\ n \in 1 .. Len(group)
    BY <1>2
  <2>2. group[m].name \in MetricNames \X Nat /\ group[n].name \in MetricNames \X Nat
    <3>1. group[m] \in MetricMean /\ group[n] \in MetricMean
      BY <1>1, <2>1, ElementOfSeq
    <3> QED
      BY <3>1 DEF MetricMean
  <2>3. path(m) = path(n)
    <3> HIDE DEF path
    <3> QED
      BY <1>2, <1>6, <2>1
  <2>4. group[m].name = group[n].name
    BY <2>2, <2>3
  <2> QED
    BY <1>1, <2>1, <2>4 DEF Holds
<1> QED
  BY <1>2, <1>4, <1>5, <1>6 DEF Lists, Distinct, level

LEMMA ListsJoin ==
  ASSUME NEW u, NEW v, NEW S, NEW T, Lists(u, S), Lists(v, T),
         \A s \in S, t \in T : s.path # t.path
  PROVE  Lists(u \o v, S \cup T)
<1> DEFINE w == u \o v
           k == Len(u)
           l == Len(v)
<1>1. u \in Seq(VisitType) /\ v \in Seq(VisitType) /\ k \in Nat /\ l \in Nat
  BY LenProperties DEF Lists
<1>2. /\ w \in Seq(VisitType) /\ Len(w) = k + l
      /\ \A i \in 1 .. k + l : w[i] = IF i <= k THEN u[i] ELSE v[i - k]
  BY <1>1, ConcatProperties
<1> HIDE DEF w, k, l
<1>3. \A n \in 1 .. k : n \in 1 .. (k + l) /\ w[n] = u[n]
  BY <1>1, <1>2
<1>4. \A n \in 1 .. l : k + n \in 1 .. (k + l) /\ w[k + n] = v[n]
  <2> SUFFICES ASSUME NEW n \in 1 .. l
               PROVE  k + n \in 1 .. (k + l) /\ w[k + n] = v[n]
    OBVIOUS
  <2>1. k + n \in 1 .. (k + l) /\ ~(k + n <= k) /\ (k + n) - k = n
    BY <1>1
  <2> QED
    BY <1>2, <2>1
<1>5. \A n \in 1 .. (k + l) :
        \/ n \in 1 .. k /\ w[n] = u[n]
        \/ n - k \in 1 .. l /\ w[n] = v[n - k]
  BY <1>1, <1>2
<1>6. /\ \A n \in 1 .. k : \E s \in S : u[n] = <<s.path, Entry(s)>>
      /\ \A s \in S : \E n \in 1 .. k : u[n] = <<s.path, Entry(s)>>
      /\ \A m, n \in 1 .. k : u[m][1] = u[n][1] => m = n
  BY DEF Lists, Distinct, k
<1>7. /\ \A n \in 1 .. l : \E t \in T : v[n] = <<t.path, Entry(t)>>
      /\ \A t \in T : \E n \in 1 .. l : v[n] = <<t.path, Entry(t)>>
      /\ \A m, n \in 1 .. l : v[m][1] = v[n][1] => m = n
  BY DEF Lists, Distinct, l
<1>8. \A n \in 1 .. (k + l) : \E s \in S \cup T : w[n] = <<s.path, Entry(s)>>
  BY <1>5, <1>6, <1>7
<1>9. \A s \in S \cup T : \E n \in 1 .. (k + l) : w[n] = <<s.path, Entry(s)>>
  <2>1. ASSUME NEW s \in S
        PROVE  \E n \in 1 .. (k + l) : w[n] = <<s.path, Entry(s)>>
    BY <1>3, <1>6
  <2>2. ASSUME NEW t \in T
        PROVE  \E n \in 1 .. (k + l) : w[n] = <<t.path, Entry(t)>>
    BY <1>4, <1>7
  <2> QED
    BY <2>1, <2>2
<1>10. ASSUME NEW m \in 1 .. (k + l), NEW n \in 1 .. (k + l), w[m][1] = w[n][1]
       PROVE  m = n
  <2>1. ASSUME NEW i \in 1 .. k, NEW j \in 1 .. l
        PROVE  u[i][1] # v[j][1]
    <3>1. PICK s \in S : u[i] = <<s.path, Entry(s)>>
      BY <1>6
    <3>2. PICK t \in T : v[j] = <<t.path, Entry(t)>>
      BY <1>7
    <3> QED
      BY <3>1, <3>2
  <2>2. CASE m \in 1 .. k /\ w[m] = u[m] /\ n \in 1 .. k /\ w[n] = u[n]
    BY <1>6, <1>10, <2>2
  <2>3. CASE m - k \in 1 .. l /\ w[m] = v[m - k] /\ n - k \in 1 .. l /\ w[n] = v[n - k]
    <3>1. m - k = n - k
      BY <1>7, <1>10, <2>3
    <3> QED
      BY <1>1, <3>1
  <2> QED
    BY <1>5, <1>10, <2>1, <2>2, <2>3
<1> QED
  BY <1>2, <1>8, <1>9, <1>10 DEF Lists, Distinct, w

(* The visitor is called once for each sample of the call.                 *)
LEMMA ResponseLists ==
  ASSUME OpenLoop, DepthLoop, PlayersInv, SamplesInv, ResponseInv, NEW g \in Games
  PROVE  Lists(IterateFlatMetrics(response[g], << >>), {s \in samples : s.game = g})
<1> DEFINE p == players[g][1]
           q == players[g][2]
           G == response[g][1].group
           H == response[g][2].group
           S == SamplesOf(samples, g, p)
           T == SamplesOf(samples, g, q)
<1>1. p \in ActorNames /\ q \in ActorNames /\ p # q
  BY DEF PlayersInv
<1>2. response[g] = <<GroupMetric(p, G), GroupMetric(q, H)>> /\ Holds(G, S) /\ Holds(H, T)
  BY DEF ResponseInv
<1>3. S \in SUBSET Sample /\ T \in SUBSET Sample
  BY DEF SamplesInv, SamplesOf
<1>4. (\A s \in S : s.path[1] = p) /\ (\A t \in T : t.path[1] = q)
  BY DEF SamplesOf
<1>5. S \cup T = {s \in samples : s.game = g}
  <2>1. ASSUME NEW s \in samples, s.game = g
        PROVE  s.path[1] = p \/ s.path[1] = q
    <3>1. s.path[3] \in Nat /\ s.path[1] = players[g][1 + (s.path[3] % 2)]
      BY <2>1 DEF SamplesInv, Sample, Paths
    <3>2. 1 + (s.path[3] % 2) = 1 \/ 1 + (s.path[3] % 2) = 2
      BY <3>1
    <3> QED
      BY <3>1, <3>2
  <2> QED
    BY <2>1 DEF SamplesOf
<1> HIDE DEF p, q, G, H, S, T
<1>6. Lists(Level(G, <<p>>), S) /\ Lists(Level(H, <<q>>), T)
  BY <1>1, <1>2, <1>3, <1>4, GroupLists
<1>7. Lists(Flat(p, G, q, H), S \cup T)
  <2>1. \A s \in S, t \in T : s.path # t.path
    BY <1>1, <1>4
  <2> QED
    BY <1>6, <2>1, ListsJoin DEF Flat
<1>8. G \in Seq(MetricMean) /\ H \in Seq(MetricMean)
  BY <1>2 DEF Holds
<1>9. IterateFlatMetrics(response[g], << >>) = Flat(p, G, q, H)
  BY <1>1, <1>2, <1>8, ResponseIsFlattened
<1> QED
  BY <1>5, <1>7, <1>9

-------------------------------------------------------------------------------
(* What a list of visits with different paths makes of a collector.        *)
Merged(collected, visits, all) ==
  /\ DOMAIN all = DOMAIN collected \cup {visits[n][1] : n \in 1 .. Len(visits)}
  /\ \A path \in DOMAIN collected :
       (\A n \in 1 .. Len(visits) : visits[n][1] # path) => all[path] = collected[path]
  /\ \A n \in 1 .. Len(visits) :
       all[visits[n][1]] = IF visits[n][1] \in DOMAIN collected
                           THEN ConcatMetrics(collected[visits[n][1]], visits[n][2])
                           ELSE visits[n][2]

LEMMA OneMoreVisit ==
  ASSUME NEW collected, NEW visits \in Seq(VisitType), NEW visit \in VisitType, NEW all,
         Distinct(Append(visits, visit)), Merged(collected, visits, all)
  PROVE  Merged(collected, Append(visits, visit), Visit(all, visit[1], visit[2]))
<1> DEFINE long == Append(visits, visit)
           k == Len(visits)
           new == Visit(all, visit[1], visit[2])
<1>1. /\ k \in Nat /\ Len(long) = k + 1 /\ long[k + 1] = visit
      /\ \A n \in 1 .. k : long[n] = visits[n]
  BY AppendProperties, LenProperties
<1>2. \A n \in 1 .. (k + 1) : n \in 1 .. k \/ n = k + 1
  BY <1>1
<1>3. \A n \in 1 .. k : n \in 1 .. (k + 1) /\ n # k + 1
  BY <1>1
<1>4. \A n \in 1 .. k : visits[n][1] # visit[1]
  BY <1>1, <1>3 DEF Distinct
<1>5. k + 1 \in 1 .. (k + 1)
  BY <1>1
<1>6. /\ DOMAIN all = DOMAIN collected \cup {visits[n][1] : n \in 1 .. k}
      /\ \A path \in DOMAIN collected :
           (\A n \in 1 .. k : visits[n][1] # path) => all[path] = collected[path]
      /\ \A n \in 1 .. k :
           all[visits[n][1]] = IF visits[n][1] \in DOMAIN collected
                               THEN ConcatMetrics(collected[visits[n][1]], visits[n][2])
                               ELSE visits[n][2]
  BY DEF Merged
<1>7. /\ DOMAIN new = DOMAIN all \cup {visit[1]}
      /\ \A path \in DOMAIN all : path # visit[1] => new[path] = all[path]
      /\ new[visit[1]] = IF visit[1] \in DOMAIN all
                         THEN ConcatMetrics(all[visit[1]], visit[2]) ELSE visit[2]
  BY DEF Visit
<1> HIDE DEF long, k, new
<1>8. DOMAIN new = DOMAIN collected \cup {long[n][1] : n \in 1 .. (k + 1)}
  <2>1. {long[n][1] : n \in 1 .. (k + 1)} = {visits[n][1] : n \in 1 .. k} \cup {visit[1]}
    BY <1>1, <1>2, <1>3, <1>5
  <2> QED
    BY <1>6, <1>7, <2>1
<1>9. ASSUME NEW path \in DOMAIN collected, \A n \in 1 .. (k + 1) : long[n][1] # path
      PROVE  new[path] = collected[path]
  <2>1. path # visit[1] /\ \A n \in 1 .. k : visits[n][1] # path
    BY <1>1, <1>3, <1>5, <1>9
  <2> QED
    BY <1>6, <1>7, <2>1
<1>10. ASSUME NEW n \in 1 .. (k + 1)
       PROVE  new[long[n][1]] = IF long[n][1] \in DOMAIN collected
                                THEN ConcatMetrics(collected[long[n][1]], long[n][2])
                                ELSE long[n][2]
  <2>1. CASE n \in 1 .. k
    <3>1. long[n] = visits[n] /\ visits[n][1] # visit[1] /\ visits[n][1] \in DOMAIN all
      BY <1>1, <1>4, <1>6, <2>1
    <3>2. new[visits[n][1]] = all[visits[n][1]]
      BY <1>7, <3>1
    <3> QED
      BY <1>6, <2>1, <3>1, <3>2
  <2>2. CASE n = k + 1
    <3>1. long[n] = visit
      BY <1>1, <2>2
    <3>2. visit[1] \in DOMAIN all <=> visit[1] \in DOMAIN collected
      BY <1>4, <1>6
    <3>3. visit[1] \in DOMAIN collected => all[visit[1]] = collected[visit[1]]
      BY <1>4, <1>6
    <3> QED
      BY <1>7, <3>1, <3>2, <3>3
  <2> QED
    BY <1>2, <2>1, <2>2
<1> QED
  BY <1>1, <1>8, <1>9, <1>10 DEF Merged, long, new

LEMMA VisitsMerge ==
  ASSUME VisitLoop, NEW collected, NEW visits \in Seq(VisitType), Distinct(visits)
  PROVE  Merged(collected, visits, VisitAll(collected, visits))
<1> DEFINE A == {s \in Seq(VisitType) :
                   Distinct(s) => Merged(collected, s, VisitAll(collected, s))}
<1>1. << >> \in A
  <2>1. << >> \in Seq(VisitType) /\ 1 .. Len(<< >>) = {}
    BY EmptySeq
  <2>2. VisitAll(collected, << >>) = collected
    BY DEF VisitLoop
  <2>3. Merged(collected, << >>, collected)
    BY <2>1 DEF Merged
  <2> QED
    BY <2>1, <2>2, <2>3
<1>2. ASSUME NEW s \in Seq(VisitType), NEW e \in VisitType, s \in A
      PROVE  Append(s, e) \in A
  <2>1. Append(s, e) \in Seq(VisitType)
    BY AppendProperties
  <2>2. ASSUME Distinct(Append(s, e))
        PROVE  Merged(collected, Append(s, e), VisitAll(collected, Append(s, e)))
    <3>1. /\ Len(s) \in Nat /\ Len(Append(s, e)) = Len(s) + 1
          /\ \A n \in 1 .. Len(s) : Append(s, e)[n] = s[n]
      BY AppendProperties, LenProperties
    <3>2. Distinct(s)
      BY <2>2, <3>1 DEF Distinct
    <3>3. Merged(collected, s, VisitAll(collected, s))
      BY <1>2, <3>2
    <3>4. VisitAll(collected, Append(s, e)) = Visit(VisitAll(collected, s), e[1], e[2])
      BY DEF VisitLoop
    <3> QED
      BY <2>2, <3>3, <3>4, OneMoreVisit
  <2> QED
    BY <2>1, <2>2
<1>3. Seq(VisitType) \subseteq A
  <2> HIDE DEF A
  <2> QED
    BY <1>1, <1>2, SeqSets
<1> QED
  BY <1>3

-------------------------------------------------------------------------------
(* A mean that is merged with one more sample.                             *)
LEMMA EntryType ==
  ASSUME NEW s \in Sample
  PROVE  Entry(s) \in MetricMean /\ s.value \in Nat
<1>1. s.path[2] \in MetricNames /\ s.path[3] \in Nat /\ s.value \in Nat
  BY DEF Sample, Paths
<1> QED
  BY <1>1 DEF Entry, MetricMean, Whole

LEMMA MeanOfOne ==
  ASSUME SumLoop, NEW s \in Sample
  PROVE  IsMean(Entry(s)) /\ MeanOf(Entry(s).mean, {s})
<1>1. /\ Entry(s).mean.count = 1 /\ Entry(s).mean.value.num = s.value
      /\ Entry(s).mean.value.den = 1 /\ IsMean(Entry(s))
  BY DEF Entry, Whole, IsMean
<1>2. SumOfValues({s}) = s.value
  <2>1. {} \in SUBSET Sample /\ s \in Sample \ {} /\ IsFiniteSet({}) /\ {} \cup {s} = {s}
    BY FS_EmptySet
  <2>2. SumOfValues({} \cup {s}) = SumOfValues({}) + s.value /\ SumOfValues({}) = 0
    BY <2>1 DEF SumLoop
  <2> QED
    BY <2>1, <2>2, EntryType
<1>3. Cardinality({s}) = 1
  BY FS_Singleton
<1> QED
  BY <1>1, <1>2, <1>3, EntryType DEF MeanOf

LEMMA WeightedMean ==
  ASSUME NEW num \in Nat, NEW den \in Nat \ {0}, NEW count \in Nat, NEW sum \in Nat,
         NEW v \in Nat, num * count = den * sum
  PROVE  /\ count * num * 1 + 1 * v * den \in Nat /\ (count + 1) * den * 1 \in Nat \ {0}
         /\ (count * num * 1 + 1 * v * den) * (count + 1) = ((count + 1) * den * 1) * (sum + v)
<1>1. count * num * 1 + 1 * v * den = num * count + den * v
  OBVIOUS
<1>2. num * count + den * v = den * (sum + v)
  OBVIOUS
<1>3. (den * (sum + v)) * (count + 1) = ((count + 1) * den) * (sum + v)
  OBVIOUS
<1>4. (count + 1) * den * 1 = (count + 1) * den
  OBVIOUS
<1>5. num * count + den * v \in Nat /\ (count + 1) * den \in Nat \ {0}
  <2>1. (count + 1) * den = count * den + den
    OBVIOUS
  <2>2. num * count \in Nat /\ den * v \in Nat /\ count * den \in Nat
    OBVIOUS
  <2> QED
    BY <2>1, <2>2
<1> QED
  BY <1>1, <1>2, <1>3, <1>4, <1>5

LEMMA MeanGrows ==
  ASSUME SumLoop, NEW S \in SUBSET Sample, IsFiniteSet(S), NEW s \in Sample \ S,
         NEW metric, IsMean(metric), MeanOf(metric.mean, S)
  PROVE  /\ IsMean(ConcatMetrics(metric, Entry(s)))
         /\ MeanOf(ConcatMetrics(metric, Entry(s)).mean, S \cup {s})
<1> DEFINE new == ConcatMetrics(metric, Entry(s))
           num == metric.mean.value.num
           den == metric.mean.value.den
           count == metric.mean.count
           v == s.value
<1>1. /\ Entry(s).mean.count = 1 /\ Entry(s).mean.value.num = v
      /\ Entry(s).mean.value.den = 1 /\ IsMean(Entry(s))
  BY DEF Entry, Whole, IsMean
<1>2. /\ IsMean(new) /\ new.mean.count = count + 1
      /\ new.mean.value.num = count * num * 1 + 1 * v * den
      /\ new.mean.value.den = (count + 1) * den * 1
  BY <1>1 DEF ConcatMetrics, WeightedSum, IsMean
<1>3. /\ num \in Nat /\ den \in Nat \ {0} /\ count = Cardinality(S) /\ v \in Nat
      /\ num * count = den * SumOfValues(S)
  BY EntryType DEF MeanOf
<1>4. count \in Nat /\ Cardinality(S \cup {s}) = count + 1
  BY <1>3, FS_CardinalityType, FS_AddElement
<1>5. SumOfValues(S) \in Nat /\ SumOfValues(S \cup {s}) = SumOfValues(S) + v
  BY DEF SumLoop
<1> HIDE DEF new, num, den, count, v
<1>6. /\ count * num * 1 + 1 * v * den \in Nat /\ (count + 1) * den * 1 \in Nat \ {0}
      /\ (count * num * 1 + 1 * v * den) * (count + 1)
           = ((count + 1) * den * 1) * (SumOfValues(S) + v)
  BY <1>3, <1>4, <1>5, WeightedMean
<1>7. MeanOf(new.mean, S \cup {s})
  BY <1>2, <1>4, <1>5, <1>6 DEF MeanOf
<1> QED
  BY <1>2, <1>7 DEF new

-------------------------------------------------------------------------------
LEMMA AppendedSamples ==
  ASSUME SamplesInv, NEW path
  PROVE  Appended(path) \in SUBSET Sample /\ IsFiniteSet(Appended(path))
<1>1. Appended(path) \in SUBSET samples
  BY DEF Appended
<1> QED
  BY <1>1, FS_Subset DEF SamplesInv

(* The collector takes the samples of a call.                              *)
LEMMA CallTakenCollects ==
  ASSUME OpenLoop, DepthLoop, VisitLoop, SumLoop, MetricsInv, NEW g \in Games, CallTaken(g)
  PROVE  CollectorInv'
<1> DEFINE own == {s \in samples : s.game = g}
           visits == IterateFlatMetrics(response[g], << >>)
<1>1. /\ SamplesInv /\ state[g] = "ok" /\ samples' = samples
      /\ \A h \in Games : state'[h] = IF h = g THEN "appended" ELSE state[h]
  BY DEF MetricsInv, CallTaken
<1>2. \A s \in samples : s \in Sample /\ s.game \in Games
  BY <1>1 DEF SamplesInv, Sample
<1>3. Lists(visits, own)
  BY ResponseLists DEF MetricsInv
<1>4. metrics_' = VisitAll(metrics_, visits)
  BY DEF CallTaken, AppendMetrics
<1> HIDE DEF visits
<1>5. Merged(metrics_, visits, metrics_')
  BY <1>3, <1>4, VisitsMerge DEF Lists
<1>6. {visits[n][1] : n \in 1 .. Len(visits)} = {s.path : s \in own}
  <2>1. ASSUME NEW n \in 1 .. Len(visits)
        PROVE  \E s \in own : visits[n][1] = s.path
    <3>1. PICK s \in own : visits[n] = <<s.path, Entry(s)>>
      BY <1>3 DEF Lists
    <3> QED
      BY <3>1
  <2>2. ASSUME NEW s \in own
        PROVE  \E n \in 1 .. Len(visits) : visits[n][1] = s.path
    <3>1. PICK n \in 1 .. Len(visits) : visits[n] = <<s.path, Entry(s)>>
      BY <1>3 DEF Lists
    <3> QED
      BY <3>1
  <2> HIDE DEF own
  <2> QED
    BY <2>1, <2>2
<1>7. DOMAIN metrics_ = {s.path : s \in {t \in samples : state[t.game] = "appended"}}
  BY DEF MetricsInv, CollectorInv
<1>8. DOMAIN metrics_' = {s.path : s \in {t \in samples : state'[t.game] = "appended"}}
  <2>1. {t \in samples : state'[t.game] = "appended"}
          = {t \in samples : state[t.game] = "appended"} \cup own
    BY <1>1, <1>2
  <2>2. DOMAIN metrics_' = DOMAIN metrics_ \cup {s.path : s \in own}
    BY <1>5, <1>6 DEF Merged
  <2> HIDE DEF own
  <2> QED
    BY <1>7, <2>1, <2>2
<1>9. ASSUME NEW path \in DOMAIN metrics_'
      PROVE  IsMean(metrics_'[path]) /\ MeanOf(metrics_'[path].mean, Appended(path)')
  <2>1. Appended(path) \in SUBSET Sample /\ IsFiniteSet(Appended(path))
    BY <1>1, AppendedSamples
  <2>2. Appended(path)' = Appended(path) \cup {s \in own : s.path = path}
    BY <1>1, <1>2 DEF Appended
  <2>3. path \in DOMAIN metrics_ =>
          IsMean(metrics_[path]) /\ MeanOf(metrics_[path].mean, Appended(path))
    BY DEF MetricsInv, CollectorInv
  <2>4. CASE \E s \in own : s.path = path
    <3>1. PICK s \in own : s.path = path
      BY <2>4
    <3>2. s \in Sample /\ s \notin Appended(path)
      BY <1>1, <1>2 DEF Appended
    <3>3. Appended(path)' = Appended(path) \cup {s}
      <4>1. \A t \in own : t.path = path => t = s
        BY <1>1, <3>1 DEF SamplesInv
      <4>2. {t \in own : t.path = path} = {s}
        BY <3>1, <4>1
      <4> QED
        BY <2>2, <4>2
    <3>4. metrics_'[path] = IF path \in DOMAIN metrics_
                            THEN ConcatMetrics(metrics_[path], Entry(s)) ELSE Entry(s)
      <4>1. PICK n \in 1 .. Len(visits) : visits[n] = <<s.path, Entry(s)>>
        BY <1>3 DEF Lists
      <4>2. visits[n][1] = path /\ visits[n][2] = Entry(s)
        BY <3>1, <4>1
      <4> QED
        BY <1>5, <4>2 DEF Merged
    <3>5. CASE path \in DOMAIN metrics_
      <4>1. metrics_'[path] = ConcatMetrics(metrics_[path], Entry(s))
        BY <3>4, <3>5
      <4> QED
        BY <2>1, <2>3, <3>2, <3>3, <3>5, <4>1, MeanGrows
    <3>6. CASE path \notin DOMAIN metrics_
      <4>1. Appended(path) = {}
        BY <1>7, <3>6 DEF Appended
      <4>2. metrics_'[path] = Entry(s) /\ Appended(path)' = {s}
        BY <3>3, <3>4, <3>6, <4>1
      <4> QED
        BY <3>2, <4>2, MeanOfOne
    <3> QED
      BY <3>5, <3>6
  <2>5. CASE ~ \E s \in own : s.path = path
    <3>1. \A n \in 1 .. Len(visits) : visits[n][1] # path
      BY <1>6, <2>5
    <3>2. path \in DOMAIN metrics_
      BY <1>5, <3>1 DEF Merged
    <3>3. metrics_'[path] = metrics_[path]
      BY <1>5, <3>1, <3>2 DEF Merged
    <3>4. Appended(path)' = Appended(path)
      BY <2>2, <2>5
    <3> QED
      BY <2>3, <3>2, <3>3, <3>4
  <2> QED
    BY <2>4, <2>5
<1>10. (DOMAIN metrics_)' = {s.path : s \in {t \in samples : state[t.game] = "appended"}}'
  BY <1>1, <1>8
<1> QED
  BY <1>9, <1>10 DEF CollectorInv

-------------------------------------------------------------------------------
(* A sample whose name no other of its group has.                          *)
NewName(s, S) == \A t \in S : ~(t.path[2] = s.path[2] /\ t.path[3] = s.path[3])

LEMMA GroupGrows ==
  ASSUME NEW group, NEW S \in SUBSET Sample, Holds(group, S), NEW s \in Sample, NewName(s, S)
  PROVE  Holds(Append(group, Entry(s)), S \cup {s})
<1> DEFINE long == Append(group, Entry(s))
           k == Len(group)
<1>1. group \in Seq(MetricMean) /\ Entry(s) \in MetricMean /\ k \in Nat
  BY EntryType, LenProperties DEF Holds
<1>2. /\ long \in Seq(MetricMean) /\ Len(long) = k + 1 /\ long[k + 1] = Entry(s)
      /\ \A n \in 1 .. k : long[n] = group[n]
  BY <1>1, AppendProperties
<1>3. \A n \in 1 .. (k + 1) : n \in 1 .. k \/ n = k + 1
  BY <1>1
<1>4. (\A n \in 1 .. k : n \in 1 .. (k + 1)) /\ k + 1 \in 1 .. (k + 1)
  BY <1>1
<1>5. /\ \A n \in 1 .. k : \E t \in S : group[n] = Entry(t)
      /\ \A t \in S : \E n \in 1 .. k : group[n] = Entry(t)
      /\ \A m, n \in 1 .. k : group[m].name = group[n].name => m = n
  BY DEF Holds
<1> HIDE DEF long, k
<1>6. \A n \in 1 .. (k + 1) : \E t \in S \cup {s} : long[n] = Entry(t)
  BY <1>2, <1>3, <1>5
<1>7. ASSUME NEW t \in S \cup {s}
      PROVE  \E n \in 1 .. (k + 1) : long[n] = Entry(t)
  BY <1>2, <1>4, <1>5
<1>8. \A n \in 1 .. k : long[n].name # Entry(s).name
  <2> SUFFICES ASSUME NEW n \in 1 .. k PROVE long[n].name # Entry(s).name
    OBVIOUS
  <2>1. PICK t \in S : long[n] = Entry(t)
    BY <1>2, <1>5
  <2>2. Entry(t).name = <<t.path[2], t.path[3]>> /\ Entry(s).name = <<s.path[2], s.path[3]>>
    BY DEF Entry
  <2> QED
    BY <2>1, <2>2 DEF NewName
<1>9. ASSUME NEW m \in 1 .. (k + 1), NEW n \in 1 .. (k + 1), long[m].name = long[n].name
      PROVE  m = n
  BY <1>2, <1>3, <1>5, <1>8, <1>9
<1> QED
  BY <1>2, <1>6, <1>7, <1>9 DEF Holds, long

(* The two samples of a move of a MonteCarloActor.                         *)
Reported(g, metric, value) ==
  [game |-> g, path |-> <<players[g][Side(g)], metric, moves[g]>>, value |-> value]

LEMMA ReportedType ==
  ASSUME MetricsInv, NEW g \in Games, NEW metric \in MetricNames, NEW v \in Values
  PROVE  /\ Reported(g, metric, v) \in Sample
         /\ Side(g) \in {1, 2} /\ players[g][Side(g)] \in ActorNames /\ moves[g] \in Nat
<1>1. moves[g] \in Nat /\ v \in Nat
  BY MetricsAssumption DEF MetricsInv
<1>2. Side(g) \in {1, 2}
  BY <1>1 DEF Side
<1>3. players[g][Side(g)] \in ActorNames
  BY <1>2 DEF MetricsInv, PlayersInv
<1> QED
  BY <1>1, <1>2, <1>3 DEF Reported, Sample, Paths

LEMMA ReportKeepsSamples ==
  ASSUME MetricsInv, NEW g \in Games, NEW a \in Values, NEW b \in Values,
         samples' = samples \cup {Reported(g, "iterations", a), Reported(g, "expected_score", b)},
         moves' = [moves EXCEPT ![g] = @ + 1], players' = players
  PROVE  SamplesInv'
<1> DEFINE x == Reported(g, "iterations", a)
           y == Reported(g, "expected_score", b)
<1>1. /\ x \in Sample /\ y \in Sample /\ moves[g] \in Nat
      /\ samples \subseteq Sample /\ IsFiniteSet(samples)
  BY ReportedType DEF MetricNames, MetricsInv, SamplesInv
<1>2. /\ x.game = g /\ x.path[1] = players[g][Side(g)] /\ x.path[2] = "iterations"
      /\ x.path[3] = moves[g]
      /\ y.game = g /\ y.path[1] = players[g][Side(g)] /\ y.path[2] = "expected_score"
      /\ y.path[3] = moves[g]
  BY DEF Reported
<1>3. \A h \in Games : moves[h] \in Nat /\ moves'[h] = IF h = g THEN moves[h] + 1 ELSE moves[h]
  BY MetricsAssumption DEF MetricsInv
<1>4. \A s \in samples :
        /\ s.game \in Games /\ s.path[3] \in Nat /\ s.path[3] < moves[s.game]
        /\ s.path[1] = players[s.game][1 + (s.path[3] % 2)]
  BY <1>1 DEF MetricsInv, SamplesInv, Sample, Paths
<1>5. \A s, t \in samples : s.game = t.game /\ s.path = t.path => s = t
  BY DEF MetricsInv, SamplesInv
<1> HIDE DEF x, y
<1>6. samples' \subseteq Sample /\ IsFiniteSet(samples')
  <2>1. IsFiniteSet(samples \cup {x})
    BY <1>1, FS_AddElement
  <2>2. IsFiniteSet((samples \cup {x}) \cup {y})
    BY <2>1, FS_AddElement
  <2>3. samples' = (samples \cup {x}) \cup {y}
    BY DEF x, y
  <2> QED
    BY <1>1, <2>2, <2>3
<1>7. \A s \in samples' : s \in samples \/ s = x \/ s = y
  BY DEF x, y
<1>8. ASSUME NEW s \in samples'
      PROVE  /\ s.path[3] < moves'[s.game]
             /\ s.path[1] = players'[s.game][1 + (s.path[3] % 2)]
  <2>1. CASE s \in samples
    BY <1>3, <1>4, <2>1
  <2>2. CASE s = x \/ s = y
    BY <1>1, <1>2, <1>3, <2>2 DEF Side
  <2> QED
    BY <1>7, <2>1, <2>2
<1>9. ASSUME NEW s \in samples', NEW t \in samples', s.game = t.game, s.path = t.path
      PROVE  s = t
  <2>1. \A u \in samples : u.game = g => u.path[3] # moves[g]
    BY <1>1, <1>4
  <2> QED
    BY <1>2, <1>5, <1>7, <1>9, <2>1
<1> QED
  BY <1>6, <1>8, <1>9 DEF SamplesInv

LEMMA PairUpdated ==
  ASSUME NEW R, NEW r \in Seq(R), Len(r) = 2, NEW i \in {1, 2}, NEW e \in R, NEW q,
         q = [r EXCEPT ![i] = e]
  PROVE  /\ q \in Seq(R) /\ Len(q) = 2
         /\ \A j \in {1, 2} : q[j] = IF j = i THEN e ELSE r[j]
<1>1. i \in 1 .. Len(r) /\ \A j \in {1, 2} : j \in 1 .. Len(r)
  OBVIOUS
<1>2. r \in [1 .. Len(r) -> R] /\ Len(r) \in Nat
  BY LenProperties
<1>3. q \in [1 .. Len(r) -> R] /\ \A j \in {1, 2} : q[j] = IF j = i THEN e ELSE r[j]
  BY <1>1, <1>2
<1>4. q \in Seq(R) /\ Len(q) = Len(r)
  BY <1>2, <1>3, FunctionIsSeq, Zenon
<1> QED
  BY <1>3, <1>4

(* Of the groups of a response, that of the player to move gets them.      *)
LEMMA ReportKeepsResponses ==
  ASSUME MetricsInv, NEW g \in Games, NEW a \in Values, NEW b \in Values,
         samples' = samples \cup {Reported(g, "iterations", a), Reported(g, "expected_score", b)},
         response' = [response EXCEPT ![g][Side(g)].group =
           AddKeyedMetricMean(AddKeyedMetricMean(@, "iterations", moves[g], a),
                              "expected_score", moves[g], b)],
         players' = players
  PROVE  /\ response' \in [Games -> Seq([name : Seq(ActorNames), group : Seq(MetricMean)])]
         /\ ResponseInv'
<1> DEFINE x == Reported(g, "iterations", a)
           y == Reported(g, "expected_score", b)
           i == Side(g)
           r == response[g]
           group == r[i].group
           new == Append(Append(group, Entry(x)), Entry(y))
           R == [name : Seq(ActorNames), group : Seq(MetricMean)]
<1>1. /\ x \in Sample /\ y \in Sample /\ i \in {1, 2} /\ moves[g] \in Nat
  BY ReportedType DEF MetricNames
<1>2. /\ x.game = g /\ x.path[1] = players[g][i] /\ x.path[2] = "iterations"
      /\ x.path[3] = moves[g] /\ x.value = a
      /\ y.game = g /\ y.path[1] = players[g][i] /\ y.path[2] = "expected_score"
      /\ y.path[3] = moves[g] /\ y.value = b
  BY DEF Reported
<1>3. /\ r = <<GroupMetric(players[g][1], r[1].group), GroupMetric(players[g][2], r[2].group)>>
      /\ \A j \in {1, 2} : Holds(r[j].group, SamplesOf(samples, g, players[g][j]))
  BY DEF MetricsInv, ResponseInv
<1>4. AddKeyedMetricMean(AddKeyedMetricMean(group, "iterations", moves[g], a),
                         "expected_score", moves[g], b) = new
  BY <1>2 DEF AddKeyedMetricMean, AddMetricMean, Entry
<1>5. /\ response \in [Games -> Seq(R)] /\ r \in Seq(R)
      /\ players \in [Games -> ActorNames \X ActorNames]
      /\ players[g][1] # players[g][2]
  BY DEF MetricsInv, PlayersInv
<1>6. response' = [response EXCEPT ![g] = [r EXCEPT ![i] = [r[i] EXCEPT !.group = new]]]
  BY <1>4
<1>7. \A s \in samples' : s \in samples \/ s = x \/ s = y
  OBVIOUS
<1>8. samples \subseteq samples' /\ x \in samples' /\ y \in samples'
  OBVIOUS
<1>9. \A s \in samples : s.game = g => s.path[3] # moves[g]
  BY <1>1 DEF MetricsInv, SamplesInv, Sample, Paths
<1>10. \A p : SamplesOf(samples, g, p) \in SUBSET Sample
  BY DEF SamplesOf, MetricsInv, SamplesInv
<1> HIDE DEF x, y, i, r, group, new, R
<1>11. Holds(new, (SamplesOf(samples, g, players[g][i]) \cup {x}) \cup {y})
  <2> DEFINE S == SamplesOf(samples, g, players[g][i])
  <2>1. Holds(group, S)
    BY <1>1, <1>3 DEF group
  <2>2. NewName(x, S) /\ NewName(y, S \cup {x})
    BY <1>2, <1>9 DEF NewName, SamplesOf
  <2>3. S \in SUBSET Sample
    BY <1>10
  <2> HIDE DEF S
  <2>4. Holds(Append(group, Entry(x)), S \cup {x})
    BY <1>1, <2>1, <2>2, <2>3, GroupGrows
  <2>5. S \cup {x} \in SUBSET Sample
    BY <1>1, <2>3
  <2>6. Holds(new, (S \cup {x}) \cup {y})
    BY <1>1, <2>2, <2>4, <2>5, GroupGrows DEF new
  <2> QED
    BY <2>6 DEF S
<1>12. new \in Seq(MetricMean)
  BY <1>11 DEF Holds
<1>13. /\ r[1] = GroupMetric(players[g][1], r[1].group)
       /\ r[2] = GroupMetric(players[g][2], r[2].group)
       /\ Len(r) = 2 /\ r[1] \in R /\ r[2] \in R
  <2>1. Len(r) = 2
    BY <1>3
  <2>2. r[1] \in R /\ r[2] \in R
    BY <1>5, <2>1, ElementOfSeq
  <2>3. r[1] = GroupMetric(players[g][1], r[1].group)
    BY <1>3
  <2>4. r[2] = GroupMetric(players[g][2], r[2].group)
    BY <1>3
  <2> QED
    BY <2>1, <2>2, <2>3, <2>4
<1>14. [r[i] EXCEPT !.group = new] = GroupMetric(players[g][i], new)
  <2>1. r[i] = GroupMetric(players[g][i], r[i].group)
    BY <1>1, <1>13
  <2>2. [GroupMetric(players[g][i], r[i].group) EXCEPT !.group = new]
          = GroupMetric(players[g][i], new)
    BY DEF GroupMetric
  <2> QED
    BY <2>1, <2>2
<1>15. GroupMetric(players[g][i], new) \in R
  <2>1. <<players[g][i]>> \in Seq(ActorNames)
    BY <1>1, <1>5
  <2> QED
    BY <1>12, <2>1 DEF GroupMetric, R
<1> DEFINE q == response'[g]
<1>16. q = [r EXCEPT ![i] = GroupMetric(players[g][i], new)]
  BY <1>5, <1>6, <1>14
<1>17. /\ q \in Seq(R) /\ Len(q) = 2
       /\ \A j \in {1, 2} : q[j] = IF j = i THEN GroupMetric(players[g][i], new) ELSE r[j]
  <2> DEFINE e == GroupMetric(players[g][i], new)
  <2>1. r \in Seq(R) /\ e \in R /\ Len(r) = 2
    BY <1>1, <1>5, <1>13, <1>15
  <2> HIDE DEF q, e
  <2>2. q = [r EXCEPT ![i] = e]
    BY <1>16 DEF e
  <2>3. /\ q \in Seq(R) /\ Len(q) = 2
        /\ \A j \in {1, 2} : q[j] = IF j = i THEN e ELSE r[j]
    BY <1>1, <2>1, <2>2, PairUpdated
  <2> QED
    BY <2>3 DEF e
<1>18. response' \in [Games -> Seq(R)]
  BY <1>5, <1>6, <1>14, <1>16, <1>17
<1>19. \A h \in Games : h # g => response'[h] = response[h]
  BY <1>5, <1>6
<1>20. ASSUME NEW h \in Games, h # g, NEW p
       PROVE  SamplesOf(samples', h, p) = SamplesOf(samples, h, p)
  BY <1>2, <1>7, <1>8, <1>20 DEF SamplesOf
<1>21. ASSUME NEW p, p # players[g][i]
       PROVE  SamplesOf(samples', g, p) = SamplesOf(samples, g, p)
  BY <1>2, <1>7, <1>8, <1>21 DEF SamplesOf
<1>22. SamplesOf(samples', g, players[g][i])
         = (SamplesOf(samples, g, players[g][i]) \cup {x}) \cup {y}
  BY <1>2, <1>7, <1>8 DEF SamplesOf
<1> HIDE DEF q
<1>23. \A j \in {1, 2} : q[j] = GroupMetric(players[g][j], q[j].group)
  <2> SUFFICES ASSUME NEW j \in {1, 2} PROVE q[j] = GroupMetric(players[g][j], q[j].group)
    OBVIOUS
  <2>1. CASE j = i
    BY <1>17, <2>1 DEF GroupMetric
  <2>2. CASE j # i
    BY <1>13, <1>17, <2>2
  <2> QED
    BY <2>1, <2>2
<1>24. q = <<GroupMetric(players[g][1], q[1].group), GroupMetric(players[g][2], q[2].group)>>
  <2>1. q = <<q[1], q[2]>>
    BY <1>17
  <2> QED
    BY <1>23, <2>1
<1>25. ASSUME NEW j \in {1, 2}
       PROVE  Holds(q[j].group, SamplesOf(samples', g, players'[g][j]))
  <2>1. CASE j = i
    <3>1. q[j].group = new
      BY <1>17, <2>1 DEF GroupMetric
    <3> QED
      BY <1>11, <1>22, <2>1, <3>1
  <2>2. CASE j # i
    <3>1. q[j] = r[j] /\ players[g][j] # players[g][i]
      BY <1>1, <1>5, <1>17, <2>2
    <3> QED
      BY <1>3, <1>21, <3>1
  <2> QED
    BY <2>1, <2>2
<1>26. ASSUME NEW h \in Games
       PROVE  /\ response'[h] = <<GroupMetric(players'[h][1], response'[h][1].group),
                                  GroupMetric(players'[h][2], response'[h][2].group)>>
              /\ \A j \in {1, 2} :
                   Holds(response'[h][j].group, SamplesOf(samples', h, players'[h][j]))
  <2>1. CASE h = g
    BY <1>24, <1>25, <2>1 DEF q
  <2>2. CASE h # g
    <3>1. response'[h] = response[h]
      BY <1>19, <2>2
    <3>2. /\ response[h] = <<GroupMetric(players[h][1], response[h][1].group),
                             GroupMetric(players[h][2], response[h][2].group)>>
          /\ \A j \in {1, 2} : Holds(response[h][j].group, SamplesOf(samples, h, players[h][j]))
      BY DEF MetricsInv, ResponseInv
    <3> QED
      BY <1>20, <2>2, <3>1, <3>2
  <2> QED
    BY <2>1, <2>2
<1>27. ResponseInv'
  BY <1>26 DEF ResponseInv
<1> QED
  BY <1>18, <1>27 DEF R

-------------------------------------------------------------------------------
(* A step that takes no call.                                              *)
LEMMA CollectorKept ==
  ASSUME CollectorInv, metrics_' = metrics_,
         {t \in samples' : state'[t.game] = "appended"}
           = {t \in samples : state[t.game] = "appended"}
  PROVE  CollectorInv'
<1>1. \A path : Appended(path)
                  = {s \in {t \in samples : state[t.game] = "appended"} : s.path = path}
  BY DEF Appended
<1>2. ASSUME NEW path
      PROVE  Appended(path)' = Appended(path)
  <2>1. Appended(path)'
          = {s \in {t \in samples' : state'[t.game] = "appended"} : s.path = path}
    BY DEF Appended
  <2> QED
    BY <1>1, <2>1
<1> QED
  BY <1>2 DEF CollectorInv

LEMMA MetricsInvInit == Init => MetricsInv
<1> SUFFICES ASSUME Init PROVE MetricsInv
  OBVIOUS
<1> DEFINE R == [name : Seq(ActorNames), group : Seq(MetricMean)]
           pair(g) == <<GroupMetric(players[g][1], << >>), GroupMetric(players[g][2], << >>)>>
<1>1. /\ state \in [Games -> {"playing", "ok", "failed", "appended"}]
      /\ moves \in [Games -> 0 .. MaxMoves]
  BY MetricsAssumption DEF Init
<1>2. PlayersInv
  BY DEF Init, PlayersInv
<1>3. samples = {} /\ metrics_ = << >>
  BY DEF Init
<1>4. SamplesInv
  BY <1>3, FS_EmptySet DEF SamplesInv
<1>5. \A g \in Games : response[g] = pair(g)
  <2>1. \A a, b : AddMetricGroup(AddMetricGroup(<< >>, a), b)
                   = <<GroupMetric(a, << >>), GroupMetric(b, << >>)>>
    <3>1. \A m, a : AddMetricGroup(m, a) = Append(m, GroupMetric(a, << >>))
      BY DEF AddMetricGroup, GroupMetric
    <3>2. ASSUME NEW x, NEW y
          PROVE  Append(Append(<< >>, x), y) = <<x, y>>
      BY PairIsAppended
    <3> QED
      BY <3>1, <3>2
  <2> QED
    BY <2>1 DEF Init
<1>6. ASSUME NEW g \in Games
      PROVE  pair(g) \in Seq(R)
  <2>1. players[g][1] \in ActorNames /\ players[g][2] \in ActorNames
    BY <1>2 DEF PlayersInv
  <2>2. GroupMetric(players[g][1], << >>) \in R /\ GroupMetric(players[g][2], << >>) \in R
    BY <2>1 DEF GroupMetric
  <2> HIDE DEF R
  <2> QED
    BY <2>2
<1>7. response \in [Games -> Seq(R)]
  <2>1. response = [g \in Games |-> response[g]]
    BY DEF Init
  <2> HIDE DEF R, pair
  <2> QED
    BY <1>5, <1>6, <2>1
<1>8. ASSUME NEW g \in Games
      PROVE  /\ response[g] = <<GroupMetric(players[g][1], response[g][1].group),
                                GroupMetric(players[g][2], response[g][2].group)>>
             /\ \A i \in {1, 2} :
                  Holds(response[g][i].group, SamplesOf(samples, g, players[g][i]))
  <2>1. response[g][1].group = << >> /\ response[g][2].group = << >>
    <3>1. response[g][1] = GroupMetric(players[g][1], << >>)
      BY <1>5
    <3>2. response[g][2] = GroupMetric(players[g][2], << >>)
      BY <1>5
    <3> QED
      BY <3>1, <3>2 DEF GroupMetric
  <2>2. \A p : Holds(<< >>, SamplesOf(samples, g, p))
    BY <1>3, EmptySeq DEF Holds, SamplesOf
  <2> QED
    BY <1>5, <2>1, <2>2
<1>9. ResponseInv
  BY <1>8 DEF ResponseInv
<1>10. CollectorInv
  <2>1. DOMAIN metrics_ = {}
    BY <1>3
  <2> QED
    BY <1>3, <2>1 DEF CollectorInv
<1> QED
  BY <1>1, <1>2, <1>4, <1>7, <1>9, <1>10 DEF MetricsInv

LEMMA ChooseMoveKeepsInv ==
  ASSUME MetricsInv, NEW g \in Games, ChooseMove(g)
  PROVE  MetricsInv'
<1>1. /\ state[g] = "playing" /\ moves[g] < MaxMoves
      /\ moves' = [moves EXCEPT ![g] = @ + 1]
      /\ state' = state /\ players' = players /\ metrics_' = metrics_
  BY DEF ChooseMove
<1>2. moves' \in [Games -> 0 .. MaxMoves]
  BY <1>1, MetricsAssumption DEF MetricsInv
<1>3. PlayersInv'
  BY <1>1 DEF MetricsInv, PlayersInv
<1>4. CASE players[g][Side(g)] \in MonteCarloNames
  <2>1. PICK a \in Values, b \in Values :
          /\ response' = [response EXCEPT ![g][Side(g)].group =
               AddKeyedMetricMean(AddKeyedMetricMean(@, "iterations", moves[g], a),
                                  "expected_score", moves[g], b)]
          /\ samples' = samples \cup
               {[game |-> g, path |-> <<players[g][Side(g)], s[1], moves[g]>>, value |-> s[2]] :
                  s \in {<<"iterations", a>>, <<"expected_score", b>>}}
    BY <1>4 DEF ChooseMove
  <2> DEFINE x == Reported(g, "iterations", a)
             y == Reported(g, "expected_score", b)
  <2>2. samples' = samples \cup {x, y}
    BY <2>1 DEF Reported
  <2>3. SamplesInv'
    BY <1>1, <2>2, ReportKeepsSamples
  <2>4. /\ response' \in [Games -> Seq([name : Seq(ActorNames), group : Seq(MetricMean)])]
        /\ ResponseInv'
    BY <1>1, <2>1, <2>2, ReportKeepsResponses
  <2>5. CollectorInv'
    <3>1. x.game = g /\ y.game = g
      BY DEF Reported
    <3>2. {t \in samples' : state'[t.game] = "appended"}
            = {t \in samples : state[t.game] = "appended"}
      <4> HIDE DEF x, y
      <4> QED
        BY <1>1, <2>2, <3>1
    <3> QED
      BY <1>1, <3>2, CollectorKept DEF MetricsInv
  <2> QED
    BY <1>1, <1>2, <1>3, <2>3, <2>4, <2>5 DEF MetricsInv
<1>5. CASE players[g][Side(g)] \notin MonteCarloNames
  <2>1. samples' = samples /\ response' = response
    BY <1>5 DEF ChooseMove
  <2>2. SamplesInv'
    <3>1. \A h \in Games : moves[h] \in Nat /\ moves'[h] \in Nat /\ moves[h] <= moves'[h]
      BY <1>1, MetricsAssumption DEF MetricsInv
    <3>2. \A s \in samples : s.game \in Games /\ s.path[3] \in Nat
      BY DEF MetricsInv, SamplesInv, Sample, Paths
    <3>3. \A s \in samples : s.path[3] < moves'[s.game]
      BY <3>1, <3>2 DEF MetricsInv, SamplesInv
    <3> QED
      BY <1>1, <2>1, <3>3 DEF MetricsInv, SamplesInv
  <2>3. ResponseInv'
    BY <1>1, <2>1 DEF MetricsInv, ResponseInv
  <2>4. CollectorInv'
    BY <1>1, <2>1, CollectorKept DEF MetricsInv
  <2> QED
    BY <1>1, <1>2, <1>3, <2>1, <2>2, <2>3, <2>4 DEF MetricsInv
<1> QED
  BY <1>4, <1>5

LEMMA CallEndsKeepsInv ==
  ASSUME MetricsInv, NEW g \in Games, CallEnds(g)
  PROVE  MetricsInv'
<1>1. PICK s \in {"ok", "failed"} : state' = [state EXCEPT ![g] = s]
  BY DEF CallEnds
<1>2. state[g] = "playing" /\ UNCHANGED <<players, moves, response, metrics_, samples>>
  BY DEF CallEnds
<1>3. CollectorInv'
  <2>1. {t \in samples' : state'[t.game] = "appended"}
          = {t \in samples : state[t.game] = "appended"}
    <3>1. \A t \in samples : t.game \in Games
      BY DEF MetricsInv, SamplesInv, Sample
    <3> QED
      BY <1>1, <1>2, <3>1 DEF MetricsInv
  <2> QED
    BY <1>2, <2>1, CollectorKept DEF MetricsInv
<1>4. state' \in [Games -> {"playing", "ok", "failed", "appended"}]
  BY <1>1 DEF MetricsInv
<1>5. PlayersInv' /\ SamplesInv' /\ ResponseInv'
  BY <1>2 DEF MetricsInv, PlayersInv, SamplesInv, ResponseInv
<1> QED
  BY <1>2, <1>3, <1>4, <1>5 DEF MetricsInv

LEMMA MetricsInvNext ==
  ASSUME OpenLoop, DepthLoop, VisitLoop, SumLoop, MetricsInv, [Next]_vars
  PROVE  MetricsInv'
<1>1. ASSUME NEW g \in Games, CallTaken(g)
      PROVE  MetricsInv'
  <2>1. CollectorInv'
    BY <1>1, CallTakenCollects
  <2>2. UNCHANGED <<players, moves, response, samples>>
    BY <1>1 DEF CallTaken
  <2>3. state' \in [Games -> {"playing", "ok", "failed", "appended"}]
    BY <1>1 DEF CallTaken, MetricsInv
  <2>4. PlayersInv' /\ SamplesInv' /\ ResponseInv'
    BY <2>2 DEF MetricsInv, PlayersInv, SamplesInv, ResponseInv
  <2> QED
    BY <2>1, <2>2, <2>3, <2>4 DEF MetricsInv
<1>2. CASE UNCHANGED vars
  <2>1. /\ UNCHANGED <<players, moves, response, samples, state, metrics_>>
    BY <1>2 DEF vars
  <2>2. CollectorInv'
    BY <2>1, CollectorKept DEF MetricsInv
  <2>3. PlayersInv' /\ SamplesInv' /\ ResponseInv'
    BY <2>1 DEF MetricsInv, PlayersInv, SamplesInv, ResponseInv
  <2> QED
    BY <2>1, <2>2, <2>3 DEF MetricsInv
<1> QED
  BY <1>1, <1>2, ChooseMoveKeepsInv, CallEndsKeepsInv DEF Next

-------------------------------------------------------------------------------
(* Each sample of a path was reported by another call.                     *)
LEMMA SamplesCountCalls ==
  ASSUME MetricsInv
  PROVE  OneSamplePerCall
<1> SUFFICES ASSUME NEW path \in DOMAIN metrics_
             PROVE  metrics_[path].mean.count
                      <= Cardinality({g \in Games : /\ state[g] = "appended"
                                                    /\ path[3] < moves[g]
                                                    /\ players[g][1 + (path[3] % 2)] = path[1]})
  BY DEF OneSamplePerCall, MetricsInv, CollectorInv
<1> DEFINE S == Appended(path)
           T == {g \in Games : /\ state[g] = "appended"
                               /\ path[3] < moves[g]
                               /\ players[g][1 + (path[3] % 2)] = path[1]}
           f == [s \in S |-> s.game]
<1>1. metrics_[path].mean.count = Cardinality(S)
  BY DEF MetricsInv, CollectorInv, MeanOf
<1>2. f \in [S -> T]
  <2>1. ASSUME NEW s \in S
        PROVE  s.game \in T
    BY DEF Appended, MetricsInv, SamplesInv, Sample
  <2> HIDE DEF S, T
  <2> QED
    BY <2>1
<1>3. \A s, t \in S : f[s] = f[t] => s = t
  BY DEF Appended, MetricsInv, SamplesInv
<1>4. IsFiniteSet(T)
  <2>1. IsFiniteSet(Games)
    BY MetricsAssumption, FS_Interval DEF Games
  <2> QED
    BY <2>1, FS_Subset
<1> HIDE DEF S, T, f
<1>5. f \in Injection(S, T)
  BY <1>2, <1>3 DEF Injection, IsInjective
<1>6. Cardinality(S) <= Cardinality(T)
  BY <1>4, <1>5, FS_Injection
<1> QED
  BY <1>1, <1>6 DEF T

-------------------------------------------------------------------------------
(* The loops are folds that take the last element first.                   *)
LEMMA MaxOfInterval ==
  ASSUME NEW n \in Nat
  PROVE  /\ Max(1 .. (n + 1)) = n + 1
         /\ \A T \in SUBSET (1 .. n) : T # {} => Max(T) \in T
<1> DEFINE A == {k \in Nat : \A T \in SUBSET (1 .. k) :
                               T # {} => \E x \in T : \A t \in T : x >= t}
<1>1. 0 \in A
  <2>1. \A T \in SUBSET (1 .. 0) : T = {}
    OBVIOUS
  <2> QED
    BY <2>1
<1>2. ASSUME NEW k \in Nat, k \in A
      PROVE  k + 1 \in A
  <2>1. ASSUME NEW T \in SUBSET (1 .. (k + 1)), T # {}
        PROVE  \E x \in T : \A t \in T : x >= t
    <3>1. CASE k + 1 \in T
      BY <3>1
    <3>2. CASE k + 1 \notin T
      <4>1. T \in SUBSET (1 .. k)
        BY <3>2
      <4> QED
        BY <1>2, <2>1, <4>1
    <3> QED
      BY <3>1, <3>2
  <2> QED
    BY <2>1
<1>3. Nat \subseteq A
  <2> HIDE DEF A
  <2> QED
    BY <1>1, <1>2, NatSets
<1>4. \A k \in Nat : \A T \in SUBSET (1 .. k) :
        T # {} => Max(T) \in T /\ \A t \in T : Max(T) >= t
  <2>1. \A k \in Nat : \A T \in SUBSET (1 .. k) :
          T # {} => \E x \in T : \A t \in T : x >= t
    BY <1>3
  <2> QED
    BY <2>1, Zenon DEF Max
<1>5. Max(1 .. (n + 1)) \in 1 .. (n + 1) /\ Max(1 .. (n + 1)) >= n + 1
  <2>1. n + 1 \in Nat /\ n + 1 \in 1 .. (n + 1) /\ 1 .. (n + 1) \in SUBSET (1 .. (n + 1))
    OBVIOUS
  <2> QED
    BY <1>4, <2>1
<1>6. Max(1 .. (n + 1)) = n + 1
  BY <1>5
<1> QED
  BY <1>4, <1>6

LEMMA AppendDomains ==
  ASSUME NEW V, NEW seq \in Seq(V), NEW e \in V
  PROVE  LET long == Append(seq, e) IN
         /\ Len(seq) \in Nat
         /\ DOMAIN seq = 1 .. Len(seq)
         /\ DOMAIN long = 1 .. (Len(seq) + 1)
         /\ long[Len(seq) + 1] = e
         /\ \A i \in 1 .. Len(seq) : long[i] = seq[i]
  BY AppendProperties, LenProperties

OpenNext(visit, opened) == opened \o Children(visit)

Opening == INSTANCE SetFold WITH Op <- OpenNext, Choose <- Max

LEMMA OpenIsFold == \A visits : OpenGroups(visits) = Opening!Fold(<< >>, visits, DOMAIN visits)
  BY DEF OpenGroups, FoldLeft, MapThenFoldSet, Opening!Fold, Opening!MapThenFoldSet, OpenNext,
         Children

LEMMA OpenLoopHolds == OpenLoop
<1>1. OpenGroups(<< >>) = << >>
  <2>1. DOMAIN << >> = {}
    OBVIOUS
  <2> QED
    BY <2>1, OpenIsFold, Opening!FoldEmpty
<1>2. ASSUME NEW V, NEW visits \in Seq(V), NEW visit \in V
      PROVE  OpenGroups(Append(visits, visit)) = OpenGroups(visits) \o Children(visit)
  <2> DEFINE long == Append(visits, visit)
             n == Len(visits)
  <2>1. /\ n \in Nat /\ DOMAIN visits = 1 .. n /\ DOMAIN long = 1 .. (n + 1)
        /\ long[n + 1] = visit /\ \A i \in 1 .. n : long[i] = visits[i]
    BY AppendDomains
  <2> HIDE DEF long, n
  <2>2. Max(1 .. (n + 1)) = n + 1 /\ Opening!Chooses(1 .. (n + 1))
    <3>1. n + 1 \in Nat
      BY <2>1
    <3> QED
      BY <2>1, <3>1, MaxOfInterval DEF Opening!Chooses
  <2>3. Opening!Fold(<< >>, long, 1 .. (n + 1))
          = OpenNext(long[n + 1], Opening!Fold(<< >>, visits, 1 .. n))
    BY <2>1, <2>2, Opening!FoldNext
  <2> QED
    BY <2>1, <2>3, OpenIsFold DEF OpenNext, long
<1> QED
  BY <1>1, <1>2 DEF OpenLoop

DeepenNext(depth, visits) == OpenGroups(visits)

Deepening == INSTANCE SetFold WITH Op <- DeepenNext, Choose <- Max

LEMMA DepthIsFold ==
  ASSUME NEW metrics, NEW path, NEW n
  PROVE  Opened(metrics, path, n)
           = Deepening!Fold(Level(metrics, path), [depth \in 1 .. n |-> depth], 1 .. n)
  BY DEF Opened, FoldLeft, MapThenFoldSet, Deepening!Fold, Deepening!MapThenFoldSet, DeepenNext

LEMMA DepthLoopHolds == DepthLoop
<1> SUFFICES ASSUME NEW metrics, NEW path
             PROVE  /\ Opened(metrics, path, 0) = Level(metrics, path)
                    /\ \A n \in Nat :
                         Opened(metrics, path, n + 1) = OpenGroups(Opened(metrics, path, n))
  BY DEF DepthLoop
<1> DEFINE base == Level(metrics, path)
           f(n) == [depth \in 1 .. n |-> depth]
<1>1. Opened(metrics, path, 0) = base
  <2>1. 1 .. 0 = {}
    OBVIOUS
  <2>2. Deepening!Fold(base, f(0), {}) = base
    BY Deepening!FoldEmpty
  <2> QED
    BY <2>1, <2>2, DepthIsFold
<1>2. ASSUME NEW n \in Nat
      PROVE  Opened(metrics, path, n + 1) = OpenGroups(Opened(metrics, path, n))
  <2>1. Max(1 .. (n + 1)) = n + 1 /\ Deepening!Chooses(1 .. (n + 1))
    <3>1. n + 1 \in Nat
      OBVIOUS
    <3> QED
      BY <3>1, MaxOfInterval DEF Deepening!Chooses
  <2>2. \A i \in 1 .. n : f(n + 1)[i] = f(n)[i]
    OBVIOUS
  <2>3. Opened(metrics, path, n + 1) = Deepening!Fold(base, f(n + 1), 1 .. (n + 1))
    BY DepthIsFold
  <2>4. Opened(metrics, path, n) = Deepening!Fold(base, f(n), 1 .. n)
    BY DepthIsFold
  <2> HIDE DEF base, f
  <2>5. Deepening!Fold(base, f(n + 1), 1 .. (n + 1))
          = DeepenNext(f(n + 1)[n + 1], Deepening!Fold(base, f(n), 1 .. n))
    BY <2>1, <2>2, Deepening!FoldNext
  <2> QED
    BY <2>3, <2>4, <2>5 DEF DeepenNext
<1> QED
  BY <1>1, <1>2

VisitNext(visit, collected) == Visit(collected, visit[1], visit[2])

Visiting == INSTANCE SetFold WITH Op <- VisitNext, Choose <- Max

LEMMA VisitIsFold ==
  \A collected, visits :
    VisitAll(collected, visits) = Visiting!Fold(collected, visits, DOMAIN visits)
  BY DEF VisitAll, FoldLeft, MapThenFoldSet, Visiting!Fold, Visiting!MapThenFoldSet, VisitNext

LEMMA VisitLoopHolds == VisitLoop
<1> SUFFICES ASSUME NEW collected
             PROVE  /\ VisitAll(collected, << >>) = collected
                    /\ \A visits \in Seq(VisitType), visit \in VisitType :
                         VisitAll(collected, Append(visits, visit))
                           = Visit(VisitAll(collected, visits), visit[1], visit[2])
  BY DEF VisitLoop
<1>1. VisitAll(collected, << >>) = collected
  <2>1. DOMAIN << >> = {}
    OBVIOUS
  <2> QED
    BY <2>1, VisitIsFold, Visiting!FoldEmpty
<1>2. ASSUME NEW visits \in Seq(VisitType), NEW visit \in VisitType
      PROVE  VisitAll(collected, Append(visits, visit))
               = Visit(VisitAll(collected, visits), visit[1], visit[2])
  <2> DEFINE long == Append(visits, visit)
             n == Len(visits)
  <2>1. /\ n \in Nat /\ DOMAIN visits = 1 .. n /\ DOMAIN long = 1 .. (n + 1)
        /\ long[n + 1] = visit /\ \A i \in 1 .. n : long[i] = visits[i]
    BY AppendDomains
  <2> HIDE DEF long, n
  <2>2. Max(1 .. (n + 1)) = n + 1 /\ Visiting!Chooses(1 .. (n + 1))
    <3>1. n + 1 \in Nat
      BY <2>1
    <3> QED
      BY <2>1, <3>1, MaxOfInterval DEF Visiting!Chooses
  <2>3. Visiting!Fold(collected, long, 1 .. (n + 1))
          = VisitNext(long[n + 1], Visiting!Fold(collected, visits, 1 .. n))
    BY <2>1, <2>2, Visiting!FoldNext
  <2> QED
    BY <2>1, <2>3, VisitIsFold DEF VisitNext, long
<1> QED
  BY <1>1, <1>2

-------------------------------------------------------------------------------
(* A sum does not depend on the order of its terms.                        *)
Plus(x, y) == x + y

AnyOf(S) == CHOOSE x \in S : TRUE

Total == INSTANCE SetFold WITH Op <- Plus, Choose <- AnyOf

LEMMA TotalChooses == \A S : Total!Chooses(S) /\ (Total!IsFiniteSet(S) <=> IsFiniteSet(S))
<1>1. ASSUME NEW S
      PROVE  Total!Chooses(S)
  <2> SUFFICES ASSUME NEW T \in SUBSET S, T # {} PROVE AnyOf(T) \in T
    BY DEF Total!Chooses
  <2> QED
    BY Zenon DEF AnyOf
<1>2. \A S : Total!IsFiniteSet(S) <=> IsFiniteSet(S)
  BY DEF IsFiniteSet, Total!IsFiniteSet
<1> QED
  BY <1>1, <1>2

LEMMA SumIsFold == \A S : SumOfValues(S) = Total!Fold(0, [s \in S |-> s.value], S)
  BY DEF SumOfValues, SumFunction, SumFunctionOnSet, FoldFunctionOnSet, MapThenFoldSet,
         Total!Fold, Total!MapThenFoldSet, Plus, AnyOf

LEMMA SumLoopHolds == SumLoop
<1>1. SumOfValues({}) = 0
  BY SumIsFold, Total!FoldEmpty
<1>2. ASSUME NEW S \in SUBSET Sample, NEW s \in Sample \ S, IsFiniteSet(S)
      PROVE  SumOfValues(S) \in Nat /\ SumOfValues(S \cup {s}) = SumOfValues(S) + s.value
  <2> DEFINE T == S \cup {s}
             f == [x \in S |-> x.value]
             g == [x \in T |-> x.value]
  <2>1. (\A x \in S : f[x] \in Nat /\ g[x] = f[x]) /\ g[s] = s.value /\ s.value \in Nat
    BY DEF Sample
  <2>2. IsFiniteSet(T) /\ T \ {s} = S /\ s \in T
    BY <1>2, FS_AddElement
  <2>3. \A x \in T : g[x] \in Nat
    BY <2>1
  <2>4. SumOfValues(S) = Total!Fold(0, f, S) /\ SumOfValues(T) = Total!Fold(0, g, T)
    BY SumIsFold
  <2> HIDE DEF T, f, g
  <2>5. Total!Fold(0, f, S) \in Nat
    <3>1. Total!Keeps(0, f, S, Nat)
      BY <2>1 DEF Plus, Total!Keeps
    <3> QED
      BY <1>2, <3>1, TotalChooses, Total!FoldType
  <2>6. Total!Fold(0, g, T) = Plus(g[s], Total!Fold(0, g, T \ {s}))
    <3>1. Total!Keeps(0, g, T, Nat) /\ Total!Commutes(g, T, Nat)
      BY <2>3 DEF Plus, Total!Keeps, Total!Commutes
    <3> QED
      BY <2>2, <3>1, TotalChooses, Total!FoldAnyFirst
  <2>7. Total!Fold(0, g, S) = Total!Fold(0, f, S)
    BY <1>2, <2>1, TotalChooses, Total!FoldSame
  <2> QED
    <3>1. SumOfValues(S) \in Nat
      BY <2>4, <2>5
    <3>2. SumOfValues(T) = s.value + SumOfValues(S)
      BY <2>1, <2>2, <2>4, <2>6, <2>7 DEF Plus
    <3> QED
      BY <2>1, <3>1, <3>2 DEF T
<1> QED
  BY <1>1, <1>2 DEF SumLoop

-------------------------------------------------------------------------------
LEMMA MetricsInvAlways == Spec => []MetricsInv
<1>1. MetricsInv /\ [Next]_vars => MetricsInv'
  BY OpenLoopHolds, DepthLoopHolds, VisitLoopHolds, SumLoopHolds, MetricsInvNext
<1> QED
  BY <1>1, MetricsInvInit, PTL DEF Spec

(* The collector never holds a group, or a metric without a value: every   *)
(* response is flattened before it is merged.                              *)
THEOREM MetricsTypeCorrect == Spec => []TypeOK
<1>1. MetricsInv => TypeOK
  BY DEF MetricsInv, CollectorInv, TypeOK
<1> QED
  BY <1>1, MetricsInvAlways, PTL

(* In whatever order the calls complete, what the collector has for a path *)
(* is the mean of all samples the calls it took had for that path.         *)
THEOREM MeansAreMeansOfSamplesAlways == Spec => []MeansAreMeansOfSamples
<1>1. MetricsInv => MeansAreMeansOfSamples
  BY DEF MetricsInv, CollectorInv, MeanOf, SumOfValues, MeansAreMeansOfSamples
<1> QED
  BY <1>1, MetricsInvAlways, PTL

(* A path of the collector counts a call once, and only calls in which the *)
(* actor of the path made the move of the path.                            *)
THEOREM OneSamplePerCallAlways == Spec => []OneSamplePerCall
<1>1. MetricsInv => OneSamplePerCall
  BY SamplesCountCalls
<1> QED
  BY <1>1, MetricsInvAlways, PTL
===============================================================================
