--------------------------- MODULE SupervisorProofs ---------------------------
(***************************************************************************)
(* Theorems about the ladder supervisor, for every number of workers,      *)
(* slots, games, actors, calls of Play and failures.                       *)
(*                                                                         *)
(* The inductive invariant LadderInv says that every call has an id of its *)
(* own (so that sets of calls can be counted), that started games are      *)
(* accounted for, how many calls each worker has during and after the      *)
(* initial wave, and that slots are conserved.  The sums of StatsBalance   *)
(* are folds, and what is needed of them comes from SetFold.               *)
(***************************************************************************)
EXTENDS Supervisor, FiniteSetTheorems, TLAPS

CallsOf(S, w) == {c \in S : c.worker = w}

(* Calls are told apart by their ids, which are below the next one.        *)
IdsUnique ==
  /\ IsFiniteSet(calls)
  /\ \A c \in calls : c.id < games_started
  /\ \A c, d \in calls : c.id = d.id => c = d

(* The calls a worker may have: the wave fills one worker after the other. *)
LoadBound(w) ==
  IF pc = "wave" /\ w = wave_worker THEN wave_sent
  ELSE IF pc = "wave" /\ w > wave_worker THEN 0
  ELSE ConcurrentGames

LoadInv == \A w \in Workers : Cardinality(CallsOf(calls, w)) <= LoadBound(w)

(* Nothing is taken from the queue during the wave, and while there are    *)
(* games to start it leaves no slot empty.                                 *)
WaveInv ==
  pc = "wave" =>
    /\ games_completed = 0
    /\ lost = 0
    /\ wave_worker = NumWorkers + 1 => wave_sent = 0
    /\ games_started < NumGames
         => games_started = (wave_worker - 1) * ConcurrentGames + wave_sent

LadderInv ==
  /\ TypeOK
  /\ IdsUnique
  /\ GamesAccounted
  /\ LoadInv
  /\ WaveInv
  /\ SlotsConserved
  /\ ReturnsOnlyComplete

-------------------------------------------------------------------------------
(* Facts about sets of calls.                                              *)
LEMMA CallsOfFinite ==
  ASSUME NEW S, IsFiniteSet(S), NEW w
  PROVE  IsFiniteSet(CallsOf(S, w)) /\ Cardinality(CallsOf(S, w)) \in Nat
<1>1. CallsOf(S, w) \in SUBSET S
  BY DEF CallsOf
<1>2. IsFiniteSet(CallsOf(S, w))
  BY <1>1, FS_Subset
<1> QED
  BY <1>2, FS_CardinalityType

LEMMA RemoveCall ==
  ASSUME NEW S, IsFiniteSet(S), NEW c \in S
  PROVE  /\ IsFiniteSet(S \ {c})
         /\ Cardinality(S) \in Nat
         /\ Cardinality(S \ {c}) = Cardinality(S) - 1
  BY FS_RemoveElement, FS_CardinalityType

LEMMA RemoveCallOf ==
  ASSUME NEW S, IsFiniteSet(S), NEW c \in S, NEW w
  PROVE  Cardinality(CallsOf(S \ {c}, w))
           = Cardinality(CallsOf(S, w)) - (IF c.worker = w THEN 1 ELSE 0)
<1>1. CallsOf(S \ {c}, w) = CallsOf(S, w) \ {c}
  BY DEF CallsOf
<1>2. IsFiniteSet(CallsOf(S, w)) /\ Cardinality(CallsOf(S, w)) \in Nat
  BY CallsOfFinite
<1>3. Cardinality(CallsOf(S, w) \ {c})
        = IF c \in CallsOf(S, w) THEN Cardinality(CallsOf(S, w)) - 1 ELSE Cardinality(CallsOf(S, w))
  BY <1>2, FS_RemoveElement
<1>4. CASE c.worker = w
  <2>1. c \in CallsOf(S, w)
    BY <1>4 DEF CallsOf
  <2> QED
    BY <1>1, <1>2, <1>3, <1>4, <2>1
<1>5. CASE c.worker # w
  <2>1. c \notin CallsOf(S, w)
    BY <1>5 DEF CallsOf
  <2> QED
    BY <1>1, <1>2, <1>3, <1>5, <2>1
<1> QED
  BY <1>4, <1>5

LEMMA AddCall ==
  ASSUME NEW S, IsFiniteSet(S), NEW c, c \notin S
  PROVE  /\ IsFiniteSet(S \cup {c})
         /\ Cardinality(S) \in Nat
         /\ Cardinality(S \cup {c}) = Cardinality(S) + 1
  BY FS_AddElement, FS_CardinalityType

LEMMA AddCallOf ==
  ASSUME NEW S, IsFiniteSet(S), NEW c, c \notin S, NEW w
  PROVE  Cardinality(CallsOf(S \cup {c}, w))
           = Cardinality(CallsOf(S, w)) + (IF c.worker = w THEN 1 ELSE 0)
<1>1. IsFiniteSet(CallsOf(S, w)) /\ Cardinality(CallsOf(S, w)) \in Nat
  BY CallsOfFinite
<1>2. CASE c.worker = w
  <2>1. CallsOf(S \cup {c}, w) = CallsOf(S, w) \cup {c} /\ c \notin CallsOf(S, w)
    BY <1>2 DEF CallsOf
  <2>2. Cardinality(CallsOf(S, w) \cup {c}) = Cardinality(CallsOf(S, w)) + 1
    BY <1>1, <2>1, FS_AddElement
  <2> QED
    BY <1>2, <2>1, <2>2
<1>3. CASE c.worker # w
  <2>1. CallsOf(S \cup {c}, w) = CallsOf(S, w)
    BY <1>3 DEF CallsOf
  <2> QED
    BY <1>1, <1>3, <2>1
<1> QED
  BY <1>2, <1>3

(* Changing calls one by one, without merging any or moving it to another  *)
(* worker, changes no count.                                               *)
LEMMA SameSize ==
  ASSUME NEW S, IsFiniteSet(S), NEW T, NEW f \in [S -> T],
         \A c, d \in S : f[c] = f[d] => c = d,
         \A t \in T : \E c \in S : f[c] = t
  PROVE  IsFiniteSet(T) /\ Cardinality(T) = Cardinality(S)
<1>1. f \in Bijection(S, T)
  BY DEF Bijection, Injection, Surjection, IsInjective
<1>2. ExistsBijection(S, T)
  BY <1>1 DEF ExistsBijection
<1> QED
  BY <1>2, FS_Bijection

LEMMA ChangeCalls ==
  ASSUME NEW S, IsFiniteSet(S), NEW T, NEW f \in [S -> T],
         \A c, d \in S : f[c] = f[d] => c = d,
         \A t \in T : \E c \in S : f[c] = t,
         \A c \in S : f[c].worker = c.worker,
         NEW w
  PROVE  Cardinality(CallsOf(T, w)) = Cardinality(CallsOf(S, w))
<1> DEFINE g == [c \in CallsOf(S, w) |-> f[c]]
<1>1. IsFiniteSet(CallsOf(S, w))
  BY CallsOfFinite
<1>2. g \in [CallsOf(S, w) -> CallsOf(T, w)]
  BY DEF CallsOf
<1>3. \A c, d \in CallsOf(S, w) : g[c] = g[d] => c = d
  BY DEF CallsOf
<1>4. \A t \in CallsOf(T, w) : \E c \in CallsOf(S, w) : g[c] = t
  BY DEF CallsOf
<1> HIDE DEF g
<1> QED
  BY <1>1, <1>2, <1>3, <1>4, SameSize

(* A new call has both of its actors on the ladder, and they differ.       *)
LEMMA NewCallType ==
  ASSUME NEW id \in Nat, NEW w \in Workers, NEW first \in FirstDist, NEW second \in SecondDist
  PROVE  /\ NewCall(id, w, first, second) \in Call
         /\ NewCall(id, w, first, second).id = id
         /\ NewCall(id, w, first, second).worker = w
         /\ SkipFirst(first, second) # first
<1>1. first \in Int /\ second \in Int /\ 0 <= first /\ 0 <= second /\ NumActors \in Nat
      /\ first <= NumActors - 1 /\ second <= NumActors - 2
  BY SupervisorAssumption DEF FirstDist, SecondDist
<1>2. SkipFirst(first, second) \in Actors /\ first \in Actors /\ SkipFirst(first, second) # first
  BY <1>1 DEF SkipFirst, Actors
<1> QED
  BY <1>2 DEF NewCall, Call, CallStates

-------------------------------------------------------------------------------
(* The invariant holds in the beginning, and each action keeps it.         *)
LEMMA LadderInvInit == Init => LadderInv
<1> SUFFICES ASSUME Init PROVE LadderInv
  OBVIOUS
<1>1. IsFiniteSet({}) /\ Cardinality({}) = 0
  BY FS_EmptySet
<1>2. calls = {} /\ pc = "wave" /\ wave_worker = 1 /\ wave_sent = 0 /\ games_started = 0
      /\ games_completed = 0 /\ lost = 0
  BY DEF Init
<1>3. TypeOK
  BY SupervisorAssumption DEF Init, TypeOK, NoStats
<1>4. IdsUnique /\ GamesAccounted
  BY <1>1, <1>2 DEF IdsUnique, GamesAccounted
<1>5. LoadInv
  <2>1. \A w \in Workers : CallsOf(calls, w) = {}
    BY <1>2 DEF CallsOf
  <2>2. \A w \in Workers : 0 <= LoadBound(w)
    BY <1>2, SupervisorAssumption DEF LoadBound
  <2> QED
    BY <1>1, <2>1, <2>2 DEF LoadInv
<1>6. WaveInv
  BY <1>2, SupervisorAssumption DEF WaveInv
<1>7. SlotsConserved /\ ReturnsOnlyComplete
  BY <1>2 DEF SlotsConserved, ReturnsOnlyComplete
<1> QED
  BY <1>3, <1>4, <1>5, <1>6, <1>7 DEF LadderInv

LEMMA SendInitialGameKeepsInv == LadderInv /\ SendInitialGame => LadderInv'
<1> SUFFICES ASSUME LadderInv, SendInitialGame PROVE LadderInv'
  OBVIOUS
<1> USE SupervisorAssumption
<1>1. PICK first \in FirstDist, second \in SecondDist :
        calls' = calls \cup {NewCall(games_started, wave_worker, first, second)}
  BY DEF SendInitialGame
<1> DEFINE new == NewCall(games_started, wave_worker, first, second)
<1>2. /\ pc = "wave" /\ pc' = pc /\ wave_worker <= NumWorkers /\ wave_worker' = wave_worker
      /\ wave_sent < ConcurrentGames /\ wave_sent' = wave_sent + 1
      /\ games_started < NumGames /\ games_started' = games_started + 1
      /\ games_completed' = games_completed /\ lost' = lost
      /\ play' = play /\ stats' = stats /\ appended' = appended /\ failures' = failures
  BY DEF SendInitialGame, WaveHasRoom, MoreGames, Started
<1>3. TypeOK /\ IdsUnique /\ GamesAccounted /\ LoadInv /\ WaveInv
  BY DEF LadderInv
<1>4. games_started \in Nat /\ wave_worker \in Workers /\ wave_sent \in Nat
      /\ games_completed \in Nat /\ lost \in Nat /\ calls \subseteq Call
  BY <1>2, <1>3 DEF TypeOK, Workers
<1>5. new \in Call /\ new.id = games_started /\ new.worker = wave_worker
  BY <1>4, NewCallType
<1>6. calls' = calls \cup {new}
  BY <1>1
<1> HIDE DEF new
<1>7. \A c \in calls : c.id \in Nat /\ c.id < games_started
  BY <1>3, <1>4 DEF IdsUnique, Call
<1>8. new \notin calls
  BY <1>4, <1>5, <1>7
<1>9. TypeOK'
  BY <1>2, <1>3, <1>4, <1>5, <1>6 DEF TypeOK
<1>10. /\ IsFiniteSet(calls \cup {new})
       /\ Cardinality(calls) \in Nat
       /\ Cardinality(calls \cup {new}) = Cardinality(calls) + 1
  BY <1>3, <1>8, AddCall DEF IdsUnique
<1>11. IdsUnique'
  BY <1>2, <1>3, <1>4, <1>5, <1>6, <1>7, <1>10 DEF IdsUnique
<1>12. GamesAccounted'
  BY <1>2, <1>3, <1>4, <1>6, <1>10 DEF GamesAccounted
<1>13. LoadInv'
  <2> SUFFICES ASSUME NEW w \in Workers
               PROVE  Cardinality(CallsOf(calls', w)) <= LoadBound(w)'
    BY DEF LoadInv
  <2>1. Cardinality(CallsOf(calls', w))
          = Cardinality(CallsOf(calls, w)) + (IF new.worker = w THEN 1 ELSE 0)
    BY <1>3, <1>6, <1>8, AddCallOf DEF IdsUnique
  <2>2. Cardinality(CallsOf(calls, w)) \in Nat /\ Cardinality(CallsOf(calls, w)) <= LoadBound(w)
    BY <1>3, CallsOfFinite DEF LoadInv, IdsUnique
  <2> QED
    BY <1>2, <1>4, <1>5, <2>1, <2>2 DEF LoadBound, Workers
<1>14. WaveInv'
  <2>1. games_started = (wave_worker - 1) * ConcurrentGames + wave_sent
    BY <1>2, <1>3 DEF WaveInv
  <2>2. wave_worker' # NumWorkers + 1
    BY <1>2, <1>4 DEF Workers
  <2>3. (wave_worker - 1) * ConcurrentGames \in Int
    BY <1>4 DEF Workers
  <2>4. games_started' = (wave_worker' - 1) * ConcurrentGames' + wave_sent'
    BY <1>2, <1>4, <2>1, <2>3
  <2> QED
    BY <1>2, <1>3, <2>2, <2>4 DEF WaveInv
<1>15. SlotsConserved' /\ ReturnsOnlyComplete'
  BY <1>2 DEF SlotsConserved, ReturnsOnlyComplete
<1> QED
  BY <1>9, <1>11, <1>12, <1>13, <1>14, <1>15 DEF LadderInv

LEMMA NextWorkerKeepsInv == LadderInv /\ NextWorker => LadderInv'
<1> SUFFICES ASSUME LadderInv, NextWorker PROVE LadderInv'
  OBVIOUS
<1> USE SupervisorAssumption
<1>1. /\ pc = "wave" /\ pc' = pc /\ wave_worker <= NumWorkers
      /\ ~(wave_sent < ConcurrentGames /\ games_started < NumGames)
      /\ wave_worker' = wave_worker + 1 /\ wave_sent' = 0
      /\ games_started' = games_started /\ games_completed' = games_completed
      /\ calls' = calls /\ lost' = lost
      /\ play' = play /\ stats' = stats /\ appended' = appended /\ failures' = failures
  BY DEF NextWorker, WaveHasRoom, MoreGames
<1>2. TypeOK /\ IdsUnique /\ GamesAccounted /\ LoadInv /\ WaveInv
  BY DEF LadderInv
<1>3. wave_worker \in Workers /\ wave_sent \in 0 .. ConcurrentGames /\ games_started \in Nat
  BY <1>1, <1>2 DEF TypeOK, Workers
<1>4. TypeOK'
  BY <1>1, <1>2, <1>3 DEF TypeOK, Workers
<1>5. IdsUnique' /\ GamesAccounted'
  BY <1>1, <1>2 DEF IdsUnique, GamesAccounted
<1>6. LoadInv'
  <2> SUFFICES ASSUME NEW w \in Workers
               PROVE  Cardinality(CallsOf(calls, w)) <= LoadBound(w)'
    BY <1>1 DEF LoadInv
  <2>1. Cardinality(CallsOf(calls, w)) \in Nat /\ Cardinality(CallsOf(calls, w)) <= LoadBound(w)
    BY <1>2, CallsOfFinite DEF LoadInv, IdsUnique
  <2> QED
    BY <1>1, <1>3, <2>1 DEF LoadBound, Workers
<1>7. WaveInv'
  <2>1. ASSUME games_started < NumGames
        PROVE  games_started = (wave_worker' - 1) * ConcurrentGames + wave_sent'
    <3>1. games_started = (wave_worker - 1) * ConcurrentGames + ConcurrentGames
      BY <1>1, <1>2, <1>3, <2>1 DEF WaveInv
    <3>2. (wave_worker - 1) * ConcurrentGames + ConcurrentGames = wave_worker * ConcurrentGames
      BY <1>3 DEF Workers
    <3>3. wave_worker' - 1 = wave_worker
      BY <1>1, <1>3 DEF Workers
    <3> QED
      BY <1>1, <1>3, <3>1, <3>2, <3>3
  <2> QED
    BY <1>1, <1>2, <2>1 DEF WaveInv
<1>8. SlotsConserved' /\ ReturnsOnlyComplete'
  BY <1>1 DEF SlotsConserved, ReturnsOnlyComplete
<1> QED
  BY <1>4, <1>5, <1>6, <1>7, <1>8 DEF LadderInv

LEMMA EnterLoopKeepsInv == LadderInv /\ EnterLoop => LadderInv'
<1> SUFFICES ASSUME LadderInv, EnterLoop PROVE LadderInv'
  OBVIOUS
<1> USE SupervisorAssumption
<1>1. /\ pc = "wave" /\ pc' = "loop" /\ wave_worker > NumWorkers
      /\ wave_worker' = wave_worker /\ wave_sent' = wave_sent
      /\ games_started' = games_started /\ games_completed' = games_completed
      /\ calls' = calls /\ lost' = lost
      /\ play' = play /\ stats' = stats /\ appended' = appended /\ failures' = failures
  BY DEF EnterLoop
<1>2. TypeOK /\ IdsUnique /\ GamesAccounted /\ LoadInv /\ WaveInv
  BY DEF LadderInv
<1>3. wave_worker = NumWorkers + 1 /\ wave_sent = 0 /\ games_completed = 0
  BY <1>1, <1>2 DEF TypeOK, WaveInv
<1>4. TypeOK' /\ IdsUnique' /\ GamesAccounted'
  BY <1>1, <1>2 DEF TypeOK, IdsUnique, GamesAccounted
<1>5. LoadInv'
  <2> SUFFICES ASSUME NEW w \in Workers
               PROVE  Cardinality(CallsOf(calls, w)) <= LoadBound(w)'
    BY <1>1 DEF LoadInv
  <2>1. Cardinality(CallsOf(calls, w)) <= LoadBound(w)
    BY <1>2 DEF LoadInv
  <2>2. w # wave_worker /\ ~(w > wave_worker)
    BY <1>3 DEF Workers
  <2> QED
    BY <1>1, <2>1, <2>2 DEF LoadBound
<1>6. SlotsConserved'
  <2> SUFFICES ASSUME games_started < NumGames
               PROVE  Cardinality(calls) + lost = NumWorkers * ConcurrentGames
    BY <1>1 DEF SlotsConserved
  <2>1. games_started = (wave_worker - 1) * ConcurrentGames + wave_sent
    BY <1>1, <1>2 DEF WaveInv
  <2>2. wave_worker - 1 = NumWorkers
    BY <1>3
  <2>3. games_started = NumWorkers * ConcurrentGames
    BY <1>3, <2>1, <2>2
  <2>4. Cardinality(calls) \in Nat /\ lost \in Nat
    BY <1>2, FS_CardinalityType DEF IdsUnique, TypeOK
  <2> QED
    BY <1>2, <1>3, <2>3, <2>4 DEF GamesAccounted
<1>7. WaveInv' /\ ReturnsOnlyComplete'
  BY <1>1 DEF WaveInv, ReturnsOnlyComplete
<1> QED
  BY <1>4, <1>5, <1>6, <1>7 DEF LadderInv

(* A step of a worker or of the queue changes the calls, one by one, and   *)
(* nothing else but the number of failures.                                *)
OnlyCallStates ==
  /\ calls' \subseteq Call
  /\ IdsUnique'
  /\ Cardinality(calls') = Cardinality(calls)
  /\ \A w \in Workers : Cardinality(CallsOf(calls', w)) = Cardinality(CallsOf(calls, w))
  /\ calls = {} => calls' = {}
  /\ failures' \in 0 .. MaxFailures
  /\ UNCHANGED <<pc, play, wave_worker, wave_sent, games_started, games_completed, stats,
                 appended, lost>>

LEMMA CallStatesKeepInv == LadderInv /\ OnlyCallStates => LadderInv'
<1> SUFFICES ASSUME LadderInv, OnlyCallStates PROVE LadderInv'
  OBVIOUS
<1>1. /\ pc' = pc /\ play' = play /\ wave_worker' = wave_worker /\ wave_sent' = wave_sent
      /\ games_started' = games_started /\ games_completed' = games_completed
      /\ stats' = stats /\ appended' = appended /\ lost' = lost
  BY DEF OnlyCallStates
<1>2. TypeOK'
  BY <1>1 DEF LadderInv, TypeOK, OnlyCallStates
<1>3. IdsUnique' /\ GamesAccounted'
  BY <1>1 DEF LadderInv, GamesAccounted, OnlyCallStates
<1>4. LoadInv'
  <2>1. \A w \in Workers : LoadBound(w)' = LoadBound(w)
    BY <1>1 DEF LoadBound
  <2> QED
    BY <2>1 DEF LadderInv, LoadInv, OnlyCallStates
<1>5. WaveInv' /\ SlotsConserved' /\ ReturnsOnlyComplete'
  BY <1>1 DEF LadderInv, WaveInv, SlotsConserved, ReturnsOnlyComplete, OnlyCallStates
<1> QED
  BY <1>2, <1>3, <1>4, <1>5 DEF LadderInv

LEMMA SetStateCounts ==
  ASSUME calls \subseteq Call, IdsUnique, games_started \in Nat,
         NEW c \in calls, NEW st \in CallStates, NEW sc \in {0, 1}
  PROVE  /\ SetState(c, st, sc) \subseteq Call
         /\ IsFiniteSet(SetState(c, st, sc))
         /\ \A d \in SetState(c, st, sc) : d.id < games_started
         /\ \A d, e \in SetState(c, st, sc) : d.id = e.id => d = e
         /\ Cardinality(SetState(c, st, sc)) = Cardinality(calls)
         /\ \A w : Cardinality(CallsOf(SetState(c, st, sc), w)) = Cardinality(CallsOf(calls, w))
<1> DEFINE new == [c EXCEPT !.state = st, !.score = sc]
           rest == calls \ {c}
<1>1. new \in Call /\ new.id = c.id /\ new.worker = c.worker
  BY DEF Call
<1>2. SetState(c, st, sc) = rest \cup {new}
  BY DEF SetState
<1> HIDE DEF new
<1>3. \A d \in rest : d.id # new.id
  BY <1>1 DEF IdsUnique
<1>4. new \notin rest
  BY <1>3
<1>5. IsFiniteSet(rest) /\ Cardinality(rest) = Cardinality(calls) - 1 /\ Cardinality(calls) \in Nat
  BY RemoveCall DEF IdsUnique
<1>6. /\ rest \cup {new} \subseteq Call
      /\ \A d \in rest \cup {new} : d.id < games_started
      /\ \A d, e \in rest \cup {new} : d.id = e.id => d = e
  BY <1>1, <1>3 DEF IdsUnique
<1>7. \A w : Cardinality(CallsOf(rest, w))
               = Cardinality(CallsOf(calls, w)) - (IF c.worker = w THEN 1 ELSE 0)
  BY RemoveCallOf DEF IdsUnique
<1> HIDE DEF rest
<1>8. IsFiniteSet(rest \cup {new}) /\ Cardinality(rest \cup {new}) = Cardinality(calls)
  BY <1>4, <1>5, AddCall
<1>9. ASSUME NEW w
      PROVE  Cardinality(CallsOf(rest \cup {new}, w)) = Cardinality(CallsOf(calls, w))
  <2>1. Cardinality(CallsOf(rest, w))
          = Cardinality(CallsOf(calls, w)) - (IF c.worker = w THEN 1 ELSE 0)
    BY <1>7
  <2>2. Cardinality(CallsOf(rest \cup {new}, w))
          = Cardinality(CallsOf(rest, w)) + (IF new.worker = w THEN 1 ELSE 0)
    BY <1>4, <1>5, AddCallOf
  <2>3. Cardinality(CallsOf(calls, w)) \in Nat
    BY CallsOfFinite DEF IdsUnique
  <2> QED
    BY <1>1, <2>1, <2>2, <2>3
<1> QED
  BY <1>2, <1>6, <1>8, <1>9

LEMMA GameEndsKeepsInv ==
  ASSUME LadderInv, NEW c \in calls, GameEnds(c)
  PROVE  LadderInv'
<1>1. PICK sc \in {0, 1} : calls' = SetState(c, "ok", sc)
  BY DEF GameEnds
<1>2. calls \subseteq Call /\ IdsUnique /\ games_started \in Nat /\ failures \in 0 .. MaxFailures
  BY SupervisorAssumption DEF LadderInv, TypeOK
<1>3. games_started' = games_started /\ failures' = failures
  BY DEF GameEnds
<1>4. OnlyCallStates
  BY <1>1, <1>2, <1>3, SetStateCounts DEF OnlyCallStates, GameEnds, IdsUnique, CallStates
<1> QED
  BY <1>4, CallStatesKeepInv

LEMMA QueueFailsKeepsInv ==
  ASSUME LadderInv, NEW c \in calls, QueueFails(c)
  PROVE  LadderInv'
<1>1. calls' = SetState(c, "not_ok", c.score)
  BY DEF QueueFails
<1>2. calls \subseteq Call /\ IdsUnique /\ games_started \in Nat /\ failures \in 0 .. MaxFailures
  BY SupervisorAssumption DEF LadderInv, TypeOK
<1>3. games_started' = games_started /\ failures' = failures + 1 /\ failures < MaxFailures
  BY DEF QueueFails
<1>4. failures' \in 0 .. MaxFailures
  BY <1>2, <1>3, SupervisorAssumption
<1>5. c.score \in {0, 1}
  BY <1>2 DEF Call
<1>6. OnlyCallStates
  BY <1>1, <1>2, <1>3, <1>4, <1>5, SetStateCounts
  DEF OnlyCallStates, QueueFails, IdsUnique, CallStates
<1> QED
  BY <1>6, CallStatesKeepInv

LEMMA WorkerAbortsKeepsInv ==
  ASSUME LadderInv, NEW worker \in Workers, WorkerAborts(worker)
  PROVE  LadderInv'
<1> DEFINE f == [c \in calls |-> IF c.worker = worker /\ c.state = "running"
                                 THEN [c EXCEPT !.state = "failed"] ELSE c]
           T == {f[c] : c \in calls}
<1>1. calls \subseteq Call /\ IdsUnique /\ games_started \in Nat /\ failures \in 0 .. MaxFailures
  BY SupervisorAssumption DEF LadderInv, TypeOK
<1>2. calls' = T
  BY DEF WorkerAborts
<1>3. \A c \in calls : f[c] \in Call /\ f[c].id = c.id /\ f[c].worker = c.worker
  BY <1>1 DEF Call, CallStates
<1> HIDE DEF f
<1>4. \A c, d \in calls : f[c] = f[d] => c = d
  BY <1>1, <1>3 DEF IdsUnique
<1>5. /\ IsFiniteSet(T)
      /\ Cardinality(T) = Cardinality(calls)
      /\ \A w \in Workers : Cardinality(CallsOf(T, w)) = Cardinality(CallsOf(calls, w))
  <2>1. f \in [calls -> T]
    BY DEF f
  <2>2. \A t \in T : \E c \in calls : f[c] = t
    OBVIOUS
  <2>3. IsFiniteSet(calls) /\ \A c \in calls : f[c].worker = c.worker
    BY <1>1, <1>3 DEF IdsUnique
  <2> HIDE DEF T
  <2>4. IsFiniteSet(T) /\ Cardinality(T) = Cardinality(calls)
    BY <1>4, <2>1, <2>2, <2>3, SameSize
  <2>5. \A w \in Workers : Cardinality(CallsOf(T, w)) = Cardinality(CallsOf(calls, w))
    BY <1>4, <2>1, <2>2, <2>3, ChangeCalls
  <2> QED
    BY <2>4, <2>5
<1>6. /\ T \subseteq Call
      /\ \A d \in T : d.id < games_started
      /\ \A d, e \in T : d.id = e.id => d = e
  BY <1>1, <1>3 DEF IdsUnique
<1>7. games_started' = games_started /\ failures' = failures + 1 /\ failures < MaxFailures
  BY DEF WorkerAborts
<1>8. failures' \in 0 .. MaxFailures
  BY <1>1, <1>7, SupervisorAssumption
<1>9. calls = {} => T = {}
  OBVIOUS
<1> HIDE DEF T
<1>10. OnlyCallStates
  BY <1>2, <1>5, <1>6, <1>7, <1>8, <1>9 DEF OnlyCallStates, WorkerAborts, IdsUnique
<1> QED
  BY <1>10, CallStatesKeepInv

LEMMA DropCallKeepsInv ==
  ASSUME LadderInv, NEW c \in calls, DropCall(c)
  PROVE  LadderInv'
<1>1. /\ pc = "loop" /\ pc' = pc /\ games_started' = games_started
      /\ games_completed' = games_completed /\ lost' = lost + 1 /\ calls' = calls \ {c}
      /\ play' = play /\ wave_worker' = wave_worker /\ wave_sent' = wave_sent
      /\ stats' = stats /\ appended' = appended /\ failures' = failures
  BY DEF DropCall
<1>2. TypeOK /\ IdsUnique /\ GamesAccounted /\ LoadInv /\ SlotsConserved
  BY DEF LadderInv
<1>3. /\ IsFiniteSet(calls \ {c}) /\ Cardinality(calls) \in Nat
      /\ Cardinality(calls \ {c}) = Cardinality(calls) - 1
  BY <1>2, RemoveCall DEF IdsUnique
<1>4. games_started \in Nat /\ games_completed \in Nat /\ lost \in Nat
  BY <1>2, SupervisorAssumption DEF TypeOK
<1>5. TypeOK' /\ IdsUnique'
  BY <1>1, <1>2, <1>3, <1>4 DEF TypeOK, IdsUnique
<1>6. GamesAccounted' /\ SlotsConserved'
  BY <1>1, <1>2, <1>3, <1>4 DEF GamesAccounted, SlotsConserved
<1>7. LoadInv'
  <2> SUFFICES ASSUME NEW w \in Workers
               PROVE  Cardinality(CallsOf(calls', w)) <= LoadBound(w)'
    BY DEF LoadInv
  <2>1. Cardinality(CallsOf(calls', w))
          = Cardinality(CallsOf(calls, w)) - (IF c.worker = w THEN 1 ELSE 0)
    BY <1>1, <1>2, RemoveCallOf DEF IdsUnique
  <2>2. Cardinality(CallsOf(calls, w)) \in Nat /\ Cardinality(CallsOf(calls, w)) <= LoadBound(w)
    BY <1>2, CallsOfFinite DEF LoadInv, IdsUnique
  <2> QED
    BY <1>1, <2>1, <2>2, SupervisorAssumption DEF LoadBound
<1>8. WaveInv' /\ ReturnsOnlyComplete'
  BY <1>1 DEF WaveInv, ReturnsOnlyComplete
<1> QED
  BY <1>5, <1>6, <1>7, <1>8 DEF LadderInv

LEMMA GameCompletedType ==
  ASSUME NEW s \in [Actors -> [won : Nat, games : Nat]], NEW c
  PROVE  GameCompleted(s, c) \in [Actors -> [won : Nat, games : Nat]]
<1> SUFFICES ASSUME NEW a \in Actors
             PROVE  /\ s[a].won + (IF a = Winner(c) THEN 1 ELSE 0) \in Nat
                    /\ s[a].games + (IF a = Winner(c) THEN 1 ELSE 0)
                         + (IF a = Loser(c) THEN 1 ELSE 0) \in Nat
  BY DEF GameCompleted
<1>1. s[a].won \in Nat /\ s[a].games \in Nat
  OBVIOUS
<1> QED
  BY <1>1

LEMMA CompleteCallKeepsInv ==
  ASSUME LadderInv, NEW c \in calls, CompleteCall(c)
  PROVE  LadderInv'
<1> USE SupervisorAssumption
<1>1. /\ pc = "loop" /\ pc' = pc /\ games_completed < NumGames
      /\ games_completed' = games_completed + 1 /\ lost' = lost
      /\ play' = play /\ wave_worker' = wave_worker /\ wave_sent' = wave_sent
      /\ stats' = GameCompleted(stats, c) /\ appended' = appended + 1 /\ failures' = failures
  BY DEF CompleteCall, AllCompleted, LadderInv, TypeOK
<1>2. TypeOK /\ IdsUnique /\ GamesAccounted /\ LoadInv /\ SlotsConserved
  BY DEF LadderInv
<1> DEFINE rest == calls \ {c}
<1>3. /\ IsFiniteSet(rest) /\ Cardinality(calls) \in Nat
      /\ Cardinality(rest) = Cardinality(calls) - 1
  BY <1>2, RemoveCall DEF IdsUnique
<1>4. games_started \in Nat /\ games_completed \in Nat /\ lost \in Nat /\ calls \subseteq Call
  BY <1>2 DEF TypeOK
<1>5. stats' \in [Actors -> [won : Nat, games : Nat]] /\ appended' \in Nat
  BY <1>1, <1>2, GameCompletedType DEF TypeOK
<1>6. \A w \in Workers :
        /\ Cardinality(CallsOf(calls, w)) \in Nat
        /\ Cardinality(CallsOf(calls, w)) <= ConcurrentGames
        /\ Cardinality(CallsOf(rest, w))
             = Cardinality(CallsOf(calls, w)) - (IF c.worker = w THEN 1 ELSE 0)
  BY <1>1, <1>2, CallsOfFinite, RemoveCallOf DEF LoadInv, LoadBound, IdsUnique
<1>7. WaveInv' /\ ReturnsOnlyComplete'
  BY <1>1 DEF WaveInv, ReturnsOnlyComplete
<1>8. CASE ~(games_started < NumGames)
  <2>1. calls' = rest /\ games_started' = games_started
    BY <1>8 DEF CompleteCall, MoreGames
  <2>2. TypeOK' /\ IdsUnique'
    BY <1>1, <1>2, <1>3, <1>4, <1>5, <2>1 DEF TypeOK, IdsUnique
  <2>3. GamesAccounted' /\ SlotsConserved'
    BY <1>1, <1>2, <1>3, <1>4, <1>8, <2>1 DEF GamesAccounted, SlotsConserved
  <2>4. LoadInv'
    <3> SUFFICES ASSUME NEW w \in Workers
                 PROVE  Cardinality(CallsOf(rest, w)) <= ConcurrentGames
      BY <1>1, <2>1 DEF LoadInv, LoadBound
    <3> HIDE DEF rest
    <3> QED
      BY <1>6
  <2> QED
    BY <1>7, <2>2, <2>3, <2>4 DEF LadderInv
<1>9. CASE games_started < NumGames
  <2>1. PICK first \in FirstDist, second \in SecondDist :
          calls' = rest \cup {NewCall(games_started, ReplacementWorker(c), first, second)}
    BY <1>9 DEF CompleteCall, MoreGames
  <2> DEFINE new == NewCall(games_started, c.worker, first, second)
  <2>2. calls' = rest \cup {new} /\ games_started' = games_started + 1
    BY <1>9, <2>1 DEF CompleteCall, MoreGames, Started, ReplacementWorker
  <2>3. new \in Call /\ new.id = games_started /\ new.worker = c.worker
    <3>1. c.worker \in Workers
      BY <1>4 DEF Call
    <3> QED
      BY <1>4, <3>1, NewCallType
  <2> HIDE DEF new
  <2>4. \A d \in calls : d.id \in Nat /\ d.id < games_started
    BY <1>2, <1>4 DEF IdsUnique, Call
  <2>5. new \notin rest
    BY <1>4, <2>3, <2>4
  <2>6. rest \subseteq calls
    OBVIOUS
  <2> HIDE DEF rest
  <2>7. /\ IsFiniteSet(rest \cup {new})
        /\ Cardinality(rest \cup {new}) = Cardinality(calls)
    BY <1>3, <2>5, AddCall
  <2>8. TypeOK'
    BY <1>1, <1>2, <1>4, <1>5, <1>9, <2>2, <2>3, <2>6 DEF TypeOK
  <2>9. IdsUnique'
    BY <1>2, <1>4, <2>2, <2>3, <2>4, <2>6, <2>7 DEF IdsUnique
  <2>10. GamesAccounted' /\ SlotsConserved'
    BY <1>1, <1>2, <1>3, <1>4, <1>9, <2>2, <2>7 DEF GamesAccounted, SlotsConserved
  <2>11. LoadInv'
    <3> SUFFICES ASSUME NEW w \in Workers
                 PROVE  Cardinality(CallsOf(rest \cup {new}, w)) <= ConcurrentGames
      BY <1>1, <2>2 DEF LoadInv, LoadBound
    <3>1. Cardinality(CallsOf(rest \cup {new}, w))
            = Cardinality(CallsOf(rest, w)) + (IF new.worker = w THEN 1 ELSE 0)
      BY <1>3, <2>5, AddCallOf
    <3> QED
      BY <1>6, <2>3, <3>1
  <2> QED
    BY <1>7, <2>8, <2>9, <2>10, <2>11 DEF LadderInv
<1> QED
  BY <1>8, <1>9

LEMMA PlayReturnsKeepsInv == LadderInv /\ PlayReturns => LadderInv'
<1> SUFFICES ASSUME LadderInv, PlayReturns PROVE LadderInv'
  OBVIOUS
<1>1. /\ pc = "loop" /\ pc' = "report" /\ games_completed >= NumGames
      /\ games_started' = games_started /\ games_completed' = games_completed
      /\ calls' = calls /\ lost' = lost
      /\ play' = play /\ wave_worker' = wave_worker /\ wave_sent' = wave_sent
      /\ stats' = stats /\ appended' = appended /\ failures' = failures
  BY DEF PlayReturns, AllCompleted
<1>2. TypeOK /\ IdsUnique /\ GamesAccounted /\ LoadInv
  BY DEF LadderInv
<1>3. TypeOK' /\ IdsUnique' /\ GamesAccounted'
  BY <1>1, <1>2 DEF TypeOK, IdsUnique, GamesAccounted
<1>4. LoadInv' /\ WaveInv' /\ SlotsConserved'
  BY <1>1, <1>2 DEF LoadInv, LoadBound, WaveInv, SlotsConserved
<1>5. ReturnsOnlyComplete'
  <2>1. IsFiniteSet(calls) /\ Cardinality(calls) \in Nat /\ lost \in Nat
        /\ games_started \in 0 .. NumGames /\ games_completed \in 0 .. NumGames
    BY <1>2, FS_CardinalityType DEF TypeOK, IdsUnique
  <2>2. games_completed = NumGames /\ lost = 0 /\ Cardinality(calls) = 0
    BY <1>1, <1>2, <2>1, SupervisorAssumption DEF GamesAccounted
  <2>3. calls = {}
    BY <2>1, <2>2, FS_EmptySet
  <2> QED
    BY <1>1, <2>2, <2>3 DEF ReturnsOnlyComplete
<1> QED
  BY <1>3, <1>4, <1>5 DEF LadderInv

LEMMA LogStatsKeepsInv == LadderInv /\ LogStats => LadderInv'
<1> SUFFICES ASSUME LadderInv, LogStats PROVE LadderInv'
  OBVIOUS
<1> USE SupervisorAssumption
<1>1. /\ pc = "report" /\ calls' = calls /\ stats' = stats /\ appended' = appended
      /\ failures' = failures
  BY DEF LogStats
<1>2. TypeOK /\ IdsUnique /\ GamesAccounted /\ LoadInv
  BY DEF LadderInv
<1>3. games_completed = NumGames /\ lost = 0 /\ calls = {}
  BY <1>1 DEF LadderInv, ReturnsOnlyComplete
<1>4. \A w \in Workers : Cardinality(CallsOf(calls', w)) = 0
  <2>1. \A w \in Workers : CallsOf(calls', w) = {}
    BY <1>1, <1>3 DEF CallsOf
  <2> QED
    BY <2>1, FS_EmptySet
<1>5. CASE /\ pc' \in {"fatal", "done"}
           /\ UNCHANGED <<play, wave_worker, wave_sent, games_started, games_completed, lost>>
  <2>1. /\ play' = play /\ wave_worker' = wave_worker /\ wave_sent' = wave_sent
        /\ games_started' = games_started /\ games_completed' = games_completed /\ lost' = lost
        /\ pc' # "wave" /\ pc' # "loop"
    BY <1>5
  <2>2. TypeOK' /\ IdsUnique' /\ GamesAccounted' /\ ReturnsOnlyComplete'
    BY <1>1, <1>2, <1>3, <1>5, <2>1 DEF TypeOK, IdsUnique, GamesAccounted, ReturnsOnlyComplete
  <2>3. LoadInv' /\ WaveInv' /\ SlotsConserved'
    BY <1>4, <2>1 DEF LoadInv, LoadBound, WaveInv, SlotsConserved
  <2> QED
    BY <2>2, <2>3 DEF LadderInv
<1>6. CASE /\ play < NumPlays /\ pc' = "wave" /\ play' = play + 1
           /\ wave_worker' = 1 /\ wave_sent' = 0
           /\ games_started' = 0 /\ games_completed' = 0 /\ lost' = 0
  <2>1. TypeOK'
    BY <1>1, <1>2, <1>6 DEF TypeOK
  <2>2. IsFiniteSet(calls') /\ Cardinality(calls') = 0 /\ calls' = {}
    BY <1>1, <1>3, FS_EmptySet
  <2>3. IdsUnique' /\ GamesAccounted'
    BY <1>6, <2>2 DEF IdsUnique, GamesAccounted
  <2>4. LoadInv' /\ WaveInv' /\ SlotsConserved' /\ ReturnsOnlyComplete'
    BY <1>4, <1>6 DEF LoadInv, LoadBound, WaveInv, SlotsConserved, ReturnsOnlyComplete
  <2> QED
    BY <2>1, <2>3, <2>4 DEF LadderInv
<1> QED
  BY <1>5, <1>6 DEF LogStats

LEMMA LadderInvNext == LadderInv /\ [Next]_vars => LadderInv'
<1> SUFFICES ASSUME LadderInv, [Next]_vars PROVE LadderInv'
  OBVIOUS
<1>1. CASE SupervisorStep
  BY <1>1, SendInitialGameKeepsInv, NextWorkerKeepsInv, EnterLoopKeepsInv, DropCallKeepsInv,
     CompleteCallKeepsInv, PlayReturnsKeepsInv, LogStatsKeepsInv
  DEF SupervisorStep
<1>2. CASE SomeGameEnds
  BY <1>2, GameEndsKeepsInv DEF SomeGameEnds
<1>3. CASE Failure
  BY <1>3, WorkerAbortsKeepsInv, QueueFailsKeepsInv DEF Failure
<1>4. CASE UNCHANGED vars
  BY <1>4
  DEF vars, LadderInv, TypeOK, IdsUnique, GamesAccounted, LoadInv, LoadBound, WaveInv,
      SlotsConserved, ReturnsOnlyComplete
<1> QED
  BY <1>1, <1>2, <1>3, <1>4 DEF Next, Stopped

LEMMA LadderInvAlways == Spec => []LadderInv
  BY LadderInvInit, LadderInvNext, PTL DEF Spec

-------------------------------------------------------------------------------
(* The counters of Play and the calls stay within their types; neither     *)
(* counter ever passes num_games.                                          *)
THEOREM TypeCorrect == Spec => []TypeOK
<1>1. LadderInv => TypeOK
  BY DEF LadderInv
<1> QED
  BY <1>1, LadderInvAlways, PTL

(* No game is counted twice and none disappears, in whatever order the     *)
(* completions come and whatever fails.                                    *)
THEOREM GamesAccountedAlways == Spec => []GamesAccounted
<1>1. LadderInv => GamesAccounted
  BY DEF LadderInv
<1> QED
  BY <1>1, LadderInvAlways, PTL

(* While games are left to start the pool is full, up to the lost calls.   *)
THEOREM SlotsConservedAlways == Spec => []SlotsConserved
<1>1. LadderInv => SlotsConserved
  BY DEF LadderInv
<1> QED
  BY <1>1, LadderInvAlways, PTL

(* No worker ever has more than concurrent_games_ calls.                   *)
THEOREM WorkerLoadBoundedAlways == Spec => []WorkerLoadBounded
<1>1. LadderInv => WorkerLoadBounded
  <2> SUFFICES ASSUME LadderInv, NEW w \in Workers
               PROVE  Cardinality({c \in calls : c.worker = w}) <= ConcurrentGames
    BY DEF WorkerLoadBounded
  <2>1. Cardinality(CallsOf(calls, w)) \in Nat /\ Cardinality(CallsOf(calls, w)) <= LoadBound(w)
    BY CallsOfFinite DEF LadderInv, LoadInv, IdsUnique
  <2>2. wave_sent \in 0 .. ConcurrentGames
    BY DEF LadderInv, TypeOK
  <2>3. LoadBound(w) \in Nat /\ LoadBound(w) <= ConcurrentGames
    BY <2>2, SupervisorAssumption DEF LoadBound
  <2>4. Cardinality(CallsOf(calls, w)) <= ConcurrentGames
    BY <2>1, <2>3, SupervisorAssumption
  <2> QED
    BY <2>4 DEF CallsOf
<1> QED
  BY <1>1, LadderInvAlways, PTL

(* Play returns with the results of all its games and no call left, or not *)
(* at all.                                                                 *)
THEOREM ReturnsOnlyCompleteAlways == Spec => []ReturnsOnlyComplete
<1>1. LadderInv => ReturnsOnlyComplete
  BY DEF LadderInv
<1> QED
  BY <1>1, LadderInvAlways, PTL

(* The two draws of PrepareGameRequest hit every ordered pair of distinct  *)
(* actors exactly once, however many actors the ladder has.                *)
LEMMA DrawsUniform ==
  ASSUME NEW a \in Actors, NEW b \in Actors
  PROVE  Cardinality(Draws(a, b)) = (IF a = b THEN 0 ELSE 1)
<1>1. a \in Int /\ b \in Int /\ 0 <= a /\ 0 <= b /\ NumActors \in Nat
      /\ a <= NumActors - 1 /\ b <= NumActors - 1
  BY SupervisorAssumption DEF Actors
<1>2. CASE a = b
  <2>1. \A second \in SecondDist : SkipFirst(a, second) # b
    BY <1>1, <1>2 DEF SkipFirst, SecondDist
  <2>2. Draws(a, b) = {}
    BY <2>1 DEF Draws
  <2> QED
    BY <1>2, <2>2, FS_EmptySet
<1>3. CASE a # b
  <2> DEFINE s == IF b > a THEN b - 1 ELSE b
  <2>1. s \in SecondDist /\ a \in FirstDist
    BY <1>1, <1>3 DEF SecondDist, FirstDist
  <2>2. \A second \in SecondDist : SkipFirst(a, second) = b <=> second = s
    BY <1>1, <1>3 DEF SkipFirst, SecondDist
  <2> HIDE DEF s
  <2>3. Draws(a, b) = {<<a, s>>}
    BY <2>1, <2>2 DEF Draws
  <2> QED
    BY <1>3, <2>3, FS_Singleton
<1> QED
  BY <1>2, <1>3

(* An actor is never its own opponent.                                     *)
NoSelfPlay == \A c \in calls : c.first # c.second

LEMMA NewCallHasTwoActors ==
  ASSUME NEW id, NEW worker, NEW first \in FirstDist, NEW second \in SecondDist
  PROVE  NewCall(id, worker, first, second).first # NewCall(id, worker, first, second).second
<1>1. first \in Int /\ second \in Int
  BY SupervisorAssumption DEF FirstDist, SecondDist
<1>2. SkipFirst(first, second) # first
  BY <1>1 DEF SkipFirst
<1> QED
  BY <1>2 DEF NewCall

LEMMA SetStateKeepsActors ==
  ASSUME NEW c \in calls, calls \subseteq Call, NoSelfPlay, NEW state, NEW score
  PROVE  \A d \in SetState(c, state, score) : d.first # d.second
  BY DEF SetState, NoSelfPlay, Call

LEMMA NoSelfPlayNext == TypeOK /\ NoSelfPlay /\ [Next]_vars => NoSelfPlay'
<1> SUFFICES ASSUME TypeOK, NoSelfPlay, [Next]_vars PROVE NoSelfPlay'
  OBVIOUS
<1>0. calls \subseteq Call
  BY DEF TypeOK
<1>1. CASE SendInitialGame
  <2>1. PICK first \in FirstDist, second \in SecondDist :
          calls' = calls \cup {NewCall(games_started, wave_worker, first, second)}
    BY <1>1 DEF SendInitialGame
  <2> QED
    BY <2>1, NewCallHasTwoActors DEF NoSelfPlay
<1>2. ASSUME NEW c \in calls, CompleteCall(c) PROVE NoSelfPlay'
  <2>1. CASE calls' = calls \ {c}
    BY <2>1 DEF NoSelfPlay
  <2>2. CASE \E first \in FirstDist, second \in SecondDist :
               calls' = (calls \ {c}) \cup
                          {NewCall(games_started, ReplacementWorker(c), first, second)}
    BY <2>2, NewCallHasTwoActors DEF NoSelfPlay
  <2> QED
    BY <1>2, <2>1, <2>2 DEF CompleteCall
<1>3. ASSUME NEW c \in calls, DropCall(c) PROVE NoSelfPlay'
  BY <1>3 DEF DropCall, NoSelfPlay
<1>4. ASSUME NEW c \in calls, GameEnds(c) PROVE NoSelfPlay'
  <2>1. PICK score \in {0, 1} : calls' = SetState(c, "ok", score)
    BY <1>4 DEF GameEnds
  <2> QED
    BY <1>0, <2>1, SetStateKeepsActors DEF NoSelfPlay
<1>5. ASSUME NEW c \in calls, QueueFails(c) PROVE NoSelfPlay'
  <2>1. calls' = SetState(c, "not_ok", c.score)
    BY <1>5 DEF QueueFails
  <2> QED
    BY <1>0, <2>1, SetStateKeepsActors DEF NoSelfPlay
<1>6. ASSUME NEW worker \in Workers, WorkerAborts(worker) PROVE NoSelfPlay'
  BY <1>0, <1>6 DEF WorkerAborts, NoSelfPlay, Call
<1>7. CASE UNCHANGED calls
  BY <1>7 DEF NoSelfPlay
<1> QED
  BY <1>1, <1>2, <1>3, <1>4, <1>5, <1>6, <1>7
  DEF Next, SupervisorStep, SomeGameEnds, Failure, Stopped, vars, NextWorker, EnterLoop,
      PlayReturns, LogStats

(* The two draws of PrepareGameRequest hit every ordered pair of distinct  *)
(* actors exactly once, however many actors the ladder has, and no call    *)
(* that Play ever has in flight pits an actor against itself.              *)
THEOREM MatchupsUniform == Spec => []MatchupsAreUniform
<1>1. Init => NoSelfPlay
  BY DEF Init, NoSelfPlay
<1>2. Spec => []NoSelfPlay
  BY <1>1, NoSelfPlayNext, TypeCorrect, PTL DEF Spec
<1>3. NoSelfPlay => MatchupsAreUniform
  BY DrawsUniform DEF NoSelfPlay, MatchupsAreUniform
<1> QED
  BY <1>2, <1>3, PTL
-------------------------------------------------------------------------------
(* The sums of the statistics, as folds.                                   *)
Plus(x, y) == x + y

Any(S) == CHOOSE x \in S : TRUE

Total == INSTANCE SetFold WITH Op <- Plus, Choose <- Any

LEMMA AnyIsElement == \A S : Total!Chooses(S)
<1> SUFFICES ASSUME NEW S, NEW T \in SUBSET S, T # {} PROVE Any(T) \in T
  BY DEF Total!Chooses
<1> QED
  BY Zenon DEF Any

LEMMA TotalOfFinite == \A S : Total!IsFiniteSet(S) <=> IsFiniteSet(S)
  BY DEF IsFiniteSet, Total!IsFiniteSet

LEMMA SumIsFold == \A f : SumFunction(f) = Total!Fold(0, f, DOMAIN f)
  BY DEF SumFunction, SumFunctionOnSet, FoldFunctionOnSet, MapThenFoldSet, Total!Fold,
         Total!MapThenFoldSet, Plus, Any

LEMMA SumOfZeros ==
  ASSUME NEW A, IsFiniteSet(A)
  PROVE  SumFunction([a \in A |-> 0]) = 0
<1> DEFINE f == [a \in A |-> 0]
<1>1. Total!Fold(0, f, A) \in {0}
  <2>1. Total!Keeps(0, f, A, {0})
    BY DEF Plus, Total!Keeps
  <2> HIDE DEF f
  <2> QED
    BY <2>1, AnyIsElement, TotalOfFinite, Total!FoldType
<1> QED
  BY <1>1, SumIsFold

OneMore(f, g, A, w) == \A a \in A : g[a] = f[a] + (IF a = w THEN 1 ELSE 0)

(* Adding one to one of the numbers adds one to the sum.                   *)
LEMMA SumAddsOne ==
  ASSUME NEW A, IsFiniteSet(A), NEW f \in [A -> Nat], NEW g \in [A -> Nat], NEW w \in A,
         OneMore(f, g, A, w)
  PROVE  SumFunction(f) \in Nat /\ SumFunction(g) = SumFunction(f) + 1
<1> DEFINE B == A \ {w}
<1>1. IsFiniteSet(B) /\ Total!Chooses(A) /\ Total!Chooses(B)
  BY AnyIsElement, FS_Subset
<1>2. ASSUME NEW h \in [A -> Nat]
      PROVE  Total!Fold(0, h, A) = h[w] + Total!Fold(0, h, B)
  <2>1. Total!Keeps(0, h, A, Nat) /\ Total!Commutes(h, A, Nat)
    BY DEF Plus, Total!Keeps, Total!Commutes
  <2>2. Total!Fold(0, h, A) = Plus(h[w], Total!Fold(0, h, A \ {w}))
    BY <1>1, <2>1, TotalOfFinite, Total!FoldAnyFirst
  <2> QED
    BY <2>2 DEF Plus
<1> HIDE DEF B
<1>3. Total!Fold(0, f, B) = Total!Fold(0, g, B)
  <2>1. \A x \in B : f[x] = g[x]
    BY DEF B, OneMore
  <2> QED
    BY <1>1, <2>1, TotalOfFinite, Total!FoldSame
<1>4. Total!Fold(0, f, B) \in Nat
  <2>1. Total!Keeps(0, f, B, Nat)
    BY DEF Plus, B, Total!Keeps
  <2> QED
    BY <1>1, <2>1, TotalOfFinite, Total!FoldType
<1>5. SumFunction(f) = f[w] + Total!Fold(0, f, B) /\ SumFunction(g) = g[w] + Total!Fold(0, g, B)
  BY <1>2, SumIsFold
<1> QED
  BY <1>3, <1>4, <1>5 DEF OneMore

(* The metrics are merged, the winner credited and a game counted for both *)
(* actors, once for each completed game.                                   *)
LEMMA CompleteCallBalances ==
  ASSUME LadderInv, StatsBalance, NEW call \in calls, CompleteCall(call)
  PROVE  StatsBalance'
<1>1. /\ stats' = GameCompleted(stats, call) /\ appended' = appended + 1
      /\ games_completed' = games_completed + 1 /\ play' = play
  BY DEF CompleteCall
<1>2. TypeOK
  BY DEF LadderInv
<1>3. /\ stats \in [Actors -> [won : Nat, games : Nat]] /\ appended \in Nat
      /\ games_completed \in Nat /\ play \in Nat /\ call \in Call
  BY <1>2, SupervisorAssumption DEF TypeOK
<1> DEFINE W == Winner(call)
           L == Loser(call)
<1>4. W \in Actors /\ L \in Actors
  BY <1>3 DEF Winner, Loser, Call
<1> HIDE DEF W, L
<1>5. IsFiniteSet(Actors)
  BY FS_Interval, SupervisorAssumption DEF Actors
<1>6. \A a \in Actors :
        /\ stats'[a].won = stats[a].won + (IF a = W THEN 1 ELSE 0)
        /\ stats'[a].games
             = (stats[a].games + (IF a = W THEN 1 ELSE 0)) + (IF a = L THEN 1 ELSE 0)
  BY <1>1 DEF GameCompleted, W, L
<1>7. \A a \in Actors : stats[a].won \in Nat /\ stats[a].games \in Nat
  BY <1>3
<1> DEFINE wins == [a \in Actors |-> stats[a].won]
           games == [a \in Actors |-> stats[a].games]
           mid == [a \in Actors |-> stats[a].games + (IF a = W THEN 1 ELSE 0)]
           wins2 == [a \in Actors |-> stats'[a].won]
           games2 == [a \in Actors |-> stats'[a].games]
<1>8. /\ wins \in [Actors -> Nat] /\ wins2 \in [Actors -> Nat]
      /\ OneMore(wins, wins2, Actors, W)
  BY <1>6, <1>7 DEF OneMore
<1>9. /\ games \in [Actors -> Nat] /\ mid \in [Actors -> Nat]
      /\ OneMore(games, mid, Actors, W)
  BY <1>7 DEF OneMore
<1>10. /\ games2 \in [Actors -> Nat]
       /\ OneMore(mid, games2, Actors, L)
  BY <1>6, <1>7 DEF OneMore
<1> HIDE DEF mid
<1>11. SumFunction(wins) = appended /\ SumFunction(games) = 2 * appended
  BY DEF StatsBalance
<1> HIDE DEF wins, games, wins2, games2
<1>12. SumFunction(wins2) = SumFunction(wins) + 1
  BY <1>4, <1>5, <1>8, SumAddsOne
<1>13. SumFunction(mid) = SumFunction(games) + 1
  BY <1>4, <1>5, <1>9, SumAddsOne
<1>14. SumFunction(games2) = SumFunction(mid) + 1
  BY <1>4, <1>5, <1>9, <1>10, SumAddsOne
<1>15. SumFunction(wins2) = appended' /\ SumFunction(games2) = 2 * appended'
  BY <1>1, <1>3, <1>11, <1>12, <1>13, <1>14
<1>16. \A a \in Actors : stats'[a].won <= stats'[a].games
  BY <1>6, <1>7 DEF StatsBalance
<1>17. appended' = (play' - 1) * NumGames + games_completed'
  <2>1. appended = (play - 1) * NumGames + games_completed
    BY DEF StatsBalance
  <2>2. (play - 1) * NumGames \in Int
    BY <1>3, SupervisorAssumption
  <2> QED
    BY <1>1, <1>3, <2>1, <2>2
<1> QED
  BY <1>15, <1>16, <1>17 DEF StatsBalance, wins2, games2

LEMMA StatsBalanceNext == LadderInv /\ StatsBalance /\ [Next]_vars => StatsBalance'
<1> SUFFICES ASSUME LadderInv, StatsBalance, [Next]_vars PROVE StatsBalance'
  OBVIOUS
<1>1. CASE \E call \in calls : CompleteCall(call)
  BY <1>1, CompleteCallBalances
<1>2. CASE LogStats
  <2>1. stats' = stats /\ appended' = appended
    BY <1>2 DEF LogStats
  <2>2. CASE play' = play /\ games_completed' = games_completed
    BY <2>1, <2>2 DEF StatsBalance
  <2>3. CASE play' = play + 1 /\ games_completed' = 0
    <3>1. games_completed = NumGames
      BY <1>2 DEF LadderInv, ReturnsOnlyComplete, LogStats
    <3>2. play \in Int /\ NumGames \in Int
      BY SupervisorAssumption DEF LadderInv, TypeOK
    <3>3. (play' - 1) * NumGames + games_completed' = (play - 1) * NumGames + games_completed
      <4>1. (play' - 1) * NumGames = (play - 1) * NumGames + NumGames
        BY <2>3, <3>2
      <4> QED
        BY <2>3, <3>1, <3>2, <4>1
    <3> QED
      BY <2>1, <3>3 DEF StatsBalance
  <2> QED
    BY <1>2, <2>2, <2>3 DEF LogStats
<1>3. CASE UNCHANGED <<stats, appended, play, games_completed>>
  BY <1>3 DEF StatsBalance
<1> QED
  BY <1>1, <1>2, <1>3
     DEF Next, SupervisorStep, SendInitialGame, NextWorker, EnterLoop, DropCall, PlayReturns,
         SomeGameEnds, GameEnds, Failure, WorkerAborts, QueueFails, Stopped, vars

(* Over any number of calls of Play the ladder has one win and two players *)
(* for each completed game, and its metrics once; no actor has won more    *)
(* games than it played.                                                   *)
THEOREM StatsBalanceAlways == Spec => []StatsBalance
<1>1. Init => StatsBalance
  <2> SUFFICES ASSUME Init PROVE StatsBalance
    OBVIOUS
  <2>1. stats = NoStats /\ appended = 0 /\ play = 1 /\ games_completed = 0
    BY DEF Init
  <2>2. /\ [a \in Actors |-> stats[a].won] = [a \in Actors |-> 0]
        /\ [a \in Actors |-> stats[a].games] = [a \in Actors |-> 0]
    BY <2>1 DEF NoStats
  <2>3. SumFunction([a \in Actors |-> 0]) = 0
    BY SumOfZeros, FS_Interval, SupervisorAssumption DEF Actors
  <2>4. \A a \in Actors : stats[a].won <= stats[a].games
    BY <2>1 DEF NoStats
  <2>5. appended = (play - 1) * NumGames + games_completed
    BY <2>1, SupervisorAssumption
  <2> QED
    BY <2>1, <2>2, <2>3, <2>4, <2>5 DEF StatsBalance
<1> QED
  BY <1>1, StatsBalanceNext, LadderInvAlways, PTL DEF Spec
===============================================================================
