------------------------------ MODULE Supervisor ------------------------------
(***************************************************************************)
(* The ladder: Supervisor::Play (ladder/supervisor.cc) keeps a number of   *)
(* PlayGame RPCs running on every worker, handles their completions from a *)
(* grpc::CompletionQueue in whatever order they come, and reports each     *)
(* game to BasicLadder (ladder/ladder.cc).  test_ladder.cc calls Play      *)
(* several times and logs the statistics after each.                       *)
(*                                                                         *)
(* A call is a record from the moment it is sent until its event is taken  *)
(* from the queue: "running" at the worker, then waiting in the queue as   *)
(* "ok", as "failed" (an RPC status that is not OK) or as "not_ok" (an     *)
(* event whose ok flag is false).  A worker that aborts fails all the      *)
(* games it is playing.                                                    *)
(***************************************************************************)
EXTENDS Integers, FiniteSetsExt

CONSTANTS
  NumWorkers,        \* workers_.size()
  ConcurrentGames,   \* concurrent_games_
  NumGames,          \* the argument of Play
  NumActors,         \* ladder_spec_.actor_spec().size()
  NumPlays,          \* calls of Play, 100 in test_ladder.cc
  MaxFailures        \* bound: failures of workers and of the queue per run

ASSUME SupervisorAssumption ==
  /\ NumWorkers \in Nat \ {0}
  /\ ConcurrentGames \in Nat \ {0}
  /\ NumGames \in Nat
  /\ NumActors \in Nat \ {0, 1}
  /\ NumPlays \in Nat \ {0}
  /\ MaxFailures \in Nat

Workers == 1 .. NumWorkers

Actors == 0 .. (NumActors - 1)

CallStates == {"running", "ok", "failed", "not_ok"}

Call ==
  [id : Nat, worker : Workers, first : Actors, second : Actors,
   state : CallStates, score : {0, 1}]

VARIABLES
  pc,               \* "wave", "loop", "report", "done" or "fatal"
  play,             \* number of the current call of Play
  wave_worker,      \* the worker the initial wave has reached
  wave_sent,        \* the calls it has sent to that worker
  games_started,
  games_completed,
  calls,            \* the PlayGameCalls that are running or in the queue
  stats,            \* stats_ of the ladder; no entry is an entry with 0 games
  appended,         \* the responses merged into the metric collector
  lost,             \* history: the calls of this Play that brought no result
  failures          \* history: the failures so far

vars == <<pc, play, wave_worker, wave_sent, games_started, games_completed,
          calls, stats, appended, lost, failures>>

NoStats == [a \in Actors |-> [won |-> 0, games |-> 0]]

TypeOK ==
  /\ pc \in {"wave", "loop", "report", "done", "fatal"}
  /\ play \in 1 .. NumPlays
  /\ wave_worker \in 1 .. (NumWorkers + 1)
  /\ wave_sent \in 0 .. ConcurrentGames
  /\ games_started \in 0 .. NumGames
  /\ games_completed \in 0 .. NumGames
  /\ calls \subseteq Call
  /\ stats \in [Actors -> [won : Nat, games : Nat]]
  /\ appended \in Nat
  /\ lost \in Nat
  /\ failures \in 0 .. MaxFailures

Init ==
  /\ pc = "wave"
  /\ play = 1
  /\ wave_worker = 1
  /\ wave_sent = 0
  /\ games_started = 0
  /\ games_completed = 0
  /\ calls = {}
  /\ stats = NoStats
  /\ appended = 0
  /\ lost = 0
  /\ failures = 0

-------------------------------------------------------------------------------
(* PrepareGameRequest draws the second actor from one actor fewer and      *)
(* skips the first.                                                        *)
FirstDist == 0 .. (NumActors - 1)

SecondDist == 0 .. (NumActors - 2)

(* A bug: the skip is off by one.                                          *)
BugSkipFirst(first, second) == IF second > first THEN second + 1 ELSE second

SkipFirst(first, second) == IF second >= first THEN second + 1 ELSE second

(* Supervisor::PlayGame: a new call, running, with the request drawn.      *)
NewCall(id, worker, first, second) ==
  [id |-> id, worker |-> worker, first |-> first,
   second |-> SkipFirst(first, second), state |-> "running", score |-> 0]

(* The conditions of the two loops that send calls, with the bugs of      *)
(* counting one too many or one too few.                                   *)
BugMoreGames == games_started <= NumGames

BugFewerGames == games_started < NumGames - 1

MoreGames == games_started < NumGames

WaveHasRoom == wave_sent < ConcurrentGames

(* games_started++ after a call is sent, and the bug of leaving it out.    *)
BugStarted(n) == n

Started(n) == n + 1

(* The initial wave: up to concurrent_games_ calls to each worker.         *)
SendInitialGame ==
  /\ pc = "wave"
  /\ wave_worker <= NumWorkers
  /\ WaveHasRoom
  /\ MoreGames
  /\ \E first \in FirstDist, second \in SecondDist :
       calls' = calls \cup {NewCall(games_started, wave_worker, first, second)}
  /\ games_started' = Started(games_started)
  /\ wave_sent' = wave_sent + 1
  /\ UNCHANGED <<pc, play, wave_worker, games_completed, stats, appended, lost, failures>>

NextWorker ==
  /\ pc = "wave"
  /\ wave_worker <= NumWorkers
  /\ ~(WaveHasRoom /\ MoreGames)
  /\ wave_worker' = wave_worker + 1
  /\ wave_sent' = 0
  /\ UNCHANGED <<pc, play, games_started, games_completed, calls, stats, appended, lost,
                 failures>>

EnterLoop ==
  /\ pc = "wave"
  /\ wave_worker > NumWorkers
  /\ pc' = "loop"
  /\ UNCHANGED <<play, wave_worker, wave_sent, games_started, games_completed, calls,
                 stats, appended, lost, failures>>

-------------------------------------------------------------------------------
(* What happens to a running call, at any time.  The game ends: the        *)
(* response is put into the queue with the score of the game.              *)
SetState(call, state, score) ==
  (calls \ {call}) \cup {[call EXCEPT !.state = state, !.score = score]}

GameEnds(call) ==
  /\ call.state = "running"
  /\ \E score \in {0, 1} : calls' = SetState(call, "ok", score)
  /\ UNCHANGED <<pc, play, wave_worker, wave_sent, games_started, games_completed, stats,
                 appended, lost, failures>>

(* The worker process aborts, and every call it is serving fails.          *)
WorkerAborts(worker) ==
  /\ failures < MaxFailures
  /\ \E call \in calls : call.worker = worker /\ call.state = "running"
  /\ calls' = {IF call.worker = worker /\ call.state = "running"
               THEN [call EXCEPT !.state = "failed"] ELSE call : call \in calls}
  /\ failures' = failures + 1
  /\ UNCHANGED <<pc, play, wave_worker, wave_sent, games_started, games_completed, stats,
                 appended, lost>>

QueueFails(call) ==
  /\ failures < MaxFailures
  /\ call.state = "running"
  /\ calls' = SetState(call, "not_ok", call.score)
  /\ failures' = failures + 1
  /\ UNCHANGED <<pc, play, wave_worker, wave_sent, games_started, games_completed, stats,
                 appended, lost>>

-------------------------------------------------------------------------------
(* GameCompleted credits the winner, and a game to both.                   *)
Winner(call) == IF call.score = 1 THEN call.first ELSE call.second

Loser(call) == IF call.score = 1 THEN call.second ELSE call.first

(* A bug: the winner of a game is not credited with having played it.      *)
BugGameCompleted(s, call) ==
  [a \in Actors |->
     [won |-> s[a].won + (IF a = Winner(call) THEN 1 ELSE 0),
      games |-> s[a].games + (IF a = Loser(call) THEN 1 ELSE 0)]]

GameCompleted(s, call) ==
  [a \in Actors |->
     [won |-> s[a].won + (IF a = Winner(call) THEN 1 ELSE 0),
      games |-> s[a].games + (IF a = Winner(call) THEN 1 ELSE 0)
                  + (IF a = Loser(call) THEN 1 ELSE 0)]]

(* The condition of the queue.Next loop; a bug is to test the wrong        *)
(* counter.                                                                *)
BugAllCompleted == games_started >= NumGames

AllCompleted == games_completed >= NumGames

(* The queue.Next loop.  An event that is not ok, or a status that is not, *)
(* is logged and dropped.                                                  *)
DropCall(call) ==
  /\ pc = "loop"
  /\ ~AllCompleted
  /\ call.state \in {"failed", "not_ok"}
  /\ calls' = calls \ {call}
  /\ lost' = lost + 1
  /\ UNCHANGED <<pc, play, wave_worker, wave_sent, games_started, games_completed, stats,
                 appended, failures>>

(* A bug: the replacement is sent to the next worker, round robin.         *)
BugReplacementWorker(call) == (call.worker % NumWorkers) + 1

ReplacementWorker(call) == call.worker

(* A completed game is counted, and replaced by a new one on the same      *)
(* worker while there are games to start.                                  *)
CompleteCall(call) ==
  /\ pc = "loop"
  /\ ~AllCompleted
  /\ call.state = "ok"
  /\ appended' = appended + 1
  /\ stats' = GameCompleted(stats, call)
  /\ games_completed' = games_completed + 1
  /\ \/ /\ MoreGames
        /\ \E first \in FirstDist, second \in SecondDist :
             calls' = (calls \ {call})
                        \cup {NewCall(games_started, ReplacementWorker(call), first, second)}
        /\ games_started' = Started(games_started)
     \/ /\ ~MoreGames
        /\ calls' = calls \ {call}
        /\ UNCHANGED games_started
  /\ UNCHANGED <<pc, play, wave_worker, wave_sent, lost, failures>>

(* Play returns, which destroys its completion queue.                      *)
PlayReturns ==
  /\ pc = "loop"
  /\ AllCompleted
  /\ pc' = "report"
  /\ UNCHANGED <<play, wave_worker, wave_sent, games_started, games_completed, calls,
                 stats, appended, lost, failures>>

(* LogStats CHECKs that every actor of the ladder has an entry; then the   *)
(* next Play starts, or the program ends.                                  *)
EveryActorPlayed == \A a \in Actors : stats[a].games > 0

LogStats ==
  /\ pc = "report"
  /\ \/ /\ ~EveryActorPlayed
        /\ pc' = "fatal"
        /\ UNCHANGED <<play, wave_worker, wave_sent, games_started, games_completed, lost>>
     \/ /\ EveryActorPlayed
        /\ play = NumPlays
        /\ pc' = "done"
        /\ UNCHANGED <<play, wave_worker, wave_sent, games_started, games_completed, lost>>
     \/ /\ EveryActorPlayed
        /\ play < NumPlays
        /\ pc' = "wave"
        /\ play' = play + 1
        /\ wave_worker' = 1
        /\ wave_sent' = 0
        /\ games_started' = 0
        /\ games_completed' = 0
        /\ lost' = 0
  /\ UNCHANGED <<calls, stats, appended, failures>>

Stopped ==
  /\ pc \in {"done", "fatal"}
  /\ UNCHANGED vars

SupervisorStep ==
  \/ SendInitialGame
  \/ NextWorker
  \/ EnterLoop
  \/ \E call \in calls : DropCall(call) \/ CompleteCall(call)
  \/ PlayReturns
  \/ LogStats

SomeGameEnds == \E call \in calls : GameEnds(call)

Failure ==
  \/ \E worker \in Workers : WorkerAborts(worker)
  \/ \E call \in calls : QueueFails(call)

Next == SupervisorStep \/ SomeGameEnds \/ Failure \/ Stopped

(* The supervisor's thread runs, and the games of a live worker end: every *)
(* move has a time limit and every game at most one move per field.        *)
Spec ==
  /\ Init
  /\ [][Next]_vars
  /\ WF_vars(SupervisorStep)
  /\ WF_vars(SomeGameEnds)
-------------------------------------------------------------------------------
(***************************************************************************)
(* Properties.                                                             *)
(***************************************************************************)
(* Supervisor::Play: every game that was started is completed, or its call *)
(* is still running or queued, or it was lost.  No game is counted twice   *)
(* and none disappears, whatever the order of completions.                 *)
GamesAccounted == games_started = games_completed + Cardinality(calls) + lost

(* Supervisor::Play: while there are games left to start, a completed game *)
(* is always replaced, so the pool is full up to the calls it lost: a      *)
(* lost call takes its slot with it for the rest of the Play.              *)
SlotsConserved ==
  pc = "loop" /\ games_started < NumGames
    => Cardinality(calls) + lost = NumWorkers * ConcurrentGames

(* concurrent_games_ bounds the calls each worker has at any time, in the  *)
(* initial wave and after any sequence of replacements.                    *)
WorkerLoadBounded ==
  \A w \in Workers : Cardinality({c \in calls : c.worker = w}) <= ConcurrentGames

(* Play returns only when it has the result of each of its num_games games *)
(* and no call refers to the completion queue it destroys; so once a call  *)
(* is lost it cannot return.                                               *)
ReturnsOnlyComplete ==
  pc \in {"report", "done", "fatal"}
    => games_completed = NumGames /\ lost = 0 /\ calls = {}

(* BasicLadder::GameCompleted over all calls of Play: each completed game  *)
(* has one winner and two players, and its metrics are merged once.        *)
StatsBalance ==
  /\ appended = (play - 1) * NumGames + games_completed
  /\ SumFunction([a \in Actors |-> stats[a].won]) = appended
  /\ SumFunction([a \in Actors |-> stats[a].games]) = 2 * appended
  /\ \A a \in Actors : stats[a].won <= stats[a].games

(* The draws that end in a game of a against b.                            *)
Draws(a, b) ==
  {d \in FirstDist \X SecondDist : d[1] = a /\ SkipFirst(d[1], d[2]) = b}

(* BasicLadder::PrepareGameRequest: skipping the first actor turns the two *)
(* uniform draws into a uniform draw of an ordered pair of distinct actors *)
(* (every pair comes from exactly one pair of draws), so that no call that *)
(* is running or queued pits an actor against itself.                      *)
MatchupsAreUniform ==
  /\ \A a, b \in Actors : Cardinality(Draws(a, b)) = (IF a = b THEN 0 ELSE 1)
  /\ \A c \in calls : c.first # c.second

(* Supervisor::Play: a call of Play returns unless one of its games is     *)
(* lost, in any order of completions and however the failures fall.        *)
PlayEndsUnlessGamesLost == pc = "wave" ~> (pc = "report" \/ lost > 0)

(* "Playes 'num_games' games on the ladder" (supervisor.h): a call of Play *)
(* returns.                                                                *)
PlayEnds == pc = "wave" ~> pc = "report"
===============================================================================
