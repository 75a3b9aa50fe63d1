----------------------------- MODULE Scheduler -----------------------------
(***************************************************************************)
(* src/client/component/scheduler.cpp: four task pipelines, each a list of *)
(* tasks scanned by one thread (the async thread, or the hooked renderer,  *)
(* server and main frames) and a list of new tasks any thread appends to.  *)
(* The two mutexes make every action below one critical section; a handler *)
(* runs between Run and Return, with new_callbacks_ unlocked, so anything  *)
(* may be scheduled meanwhile. Handlers are assumed to return and not to   *)
(* run a frame of their own pipeline.                                      *)
(***************************************************************************)
EXTENDS Integers, SequencesExt

CONSTANTS
  Tasks,      \* task objects, each scheduled at most once
  Pipelines,  \* the pipelines in use; "async" has a thread of its own
  Home,       \* the pipeline a task is scheduled on
  Interval,   \* its delay, in clock ticks
  Kind,       \* "once", "loop", or "poll": the task of on_game_initialized
  Inner       \* the once a poll schedules when the game is ready

ASSUME HomeAssumption == Home \in [Tasks -> Pipelines]
ASSUME IntervalAssumption == Interval \in [Tasks -> Nat]
ASSUME KindAssumption == Kind \in [Tasks -> {"once", "loop", "poll"}]
ASSUME InnerAssumption ==
  /\ \A t \in Tasks : Kind[t] = "poll" => Inner[t] \in Tasks /\ Kind[Inner[t]] = "once"
  /\ \A t, u \in Tasks : Kind[t] = "poll" /\ Kind[u] = "poll" /\ Inner[t] = Inner[u] => t = u

VARIABLES
  newCallbacks,  \* new_callbacks_ of each pipeline
  callbacks,     \* callbacks_ of each pipeline
  elapsed,       \* clock - last_call of a task, not counted past its interval
  iter,          \* the iterator of execute, 0 outside it
  busy,          \* the pipelines whose handler at the iterator is running
  gameReady,     \* dw_init && Sys_IsDatabaseReady2()
  kill,          \* the flag pre_destroy sets
  thread,        \* the async thread: "none", "test" (of kill), "pass" or "exited"
  joined,        \* pre_destroy has joined it
  born, stamp,   \* history: how many tasks were scheduled, the place of each
  runs,          \* history: how often a handler started, counted to MaxRuns
  batch          \* history: the tasks a pass found after its merge

lists == <<newCallbacks, callbacks>>
asyncVars == <<kill, thread, joined>>
history == <<born, stamp, runs, batch>>
vars == <<lists, elapsed, iter, busy, gameReady, asyncVars, history>>

MaxRuns == 2

Queued(t) == \E p \in Pipelines : t \in ToSet(newCallbacks[p]) \cup ToSet(callbacks[p])
Current(p) == callbacks[p][iter[p]]
Running(t) == \E p \in busy : Current(p) = t
InPass(p) == iter[p] \in 1 .. Len(callbacks[p])

Init ==
  /\ newCallbacks = [p \in Pipelines |-> <<>>]
  /\ callbacks = [p \in Pipelines |-> <<>>]
  /\ elapsed = [t \in Tasks |-> 0]
  /\ iter = [p \in Pipelines |-> 0]
  /\ busy = {}
  /\ gameReady = FALSE
  /\ kill = FALSE /\ thread = "none" /\ joined = FALSE
  /\ born = 0
  /\ stamp = [t \in Tasks |-> 0]
  /\ runs = [t \in Tasks |-> 0]
  /\ batch = [p \in Pipelines |-> {}]

----------------------------------------------------------------------------
(* schedule, once, loop, on_game_initialized *)

\* Mutant: the new tasks are a stack.
AddInFront(t) ==
  /\ newCallbacks' = [newCallbacks EXCEPT ![Home[t]] = <<t>> \o @]
  /\ born' = born + 1
  /\ stamp' = [stamp EXCEPT ![t] = born + 1]

Add(t) ==
  /\ newCallbacks' = [newCallbacks EXCEPT ![Home[t]] = Append(@, t)]
  /\ born' = born + 1
  /\ stamp' = [stamp EXCEPT ![t] = born + 1]

\* A component, a command or a running handler schedules a new task object.
Schedule(t) ==
  /\ stamp[t] = 0
  /\ \A poll \in Tasks : Kind[poll] = "poll" => Inner[poll] # t
  /\ Add(t)
  /\ UNCHANGED <<callbacks, elapsed, iter, busy, gameReady, asyncVars, runs, batch>>

----------------------------------------------------------------------------
(* task_pipeline::execute *)

\* Mutant: assign instead of inserting.
MergeReplacing(p) ==
  /\ callbacks' = [callbacks EXCEPT ![p] = newCallbacks[p]]
  /\ newCallbacks' = [newCallbacks EXCEPT ![p] = <<>>]

Merge(p) ==
  /\ callbacks' = [callbacks EXCEPT ![p] = @ \o newCallbacks[p]]
  /\ newCallbacks' = [newCallbacks EXCEPT ![p] = <<>>]

\* A frame of the game, or the async thread past its test of kill, takes the
\* lock and merges; the scan starts at the first task.
BeginPass(p) ==
  /\ iter[p] = 0
  /\ p = "async" => thread = "pass"
  /\ Merge(p)
  /\ iter' = [iter EXCEPT ![p] = 1]
  /\ batch' = [batch EXCEPT ![p] = ToSet(callbacks'[p])]
  /\ UNCHANGED <<elapsed, busy, gameReady, asyncVars, born, stamp, runs>>

\* diff < interval: not due yet.
Skip(p) ==
  /\ InPass(p) /\ p \notin busy
  /\ elapsed[Current(p)] < Interval[Current(p)]
  /\ iter' = [iter EXCEPT ![p] = @ + 1]
  /\ UNCHANGED <<lists, elapsed, busy, gameReady, asyncVars, history>>

Run(p) ==
  /\ InPass(p) /\ p \notin busy
  /\ elapsed[Current(p)] >= Interval[Current(p)]
  /\ elapsed' = [elapsed EXCEPT ![Current(p)] = 0]
  /\ busy' = busy \cup {p}
  /\ runs' = [runs EXCEPT ![Current(p)] = IF @ < MaxRuns THEN @ + 1 ELSE @]
  /\ UNCHANGED <<lists, iter, gameReady, asyncVars, born, stamp, batch>>

\* cond_continue: the iterator moves on.
Continue(p) ==
  /\ iter' = [iter EXCEPT ![p] = @ + 1]
  /\ UNCHANGED <<lists, born, stamp>>

\* cond_end: the task is erased and the iterator stands on its successor.
Finish(p) ==
  /\ callbacks' = [callbacks EXCEPT ![p] = RemoveAt(@, iter[p])]
  /\ UNCHANGED iter

Return(p) ==
  /\ p \in busy
  /\ busy' = busy \ {p}
  /\ LET t == Current(p) IN
       \/ Kind[t] = "loop" /\ Continue(p)
       \/ Kind[t] = "once" /\ Finish(p) /\ UNCHANGED <<newCallbacks, born, stamp>>
       \/ Kind[t] = "poll" /\ ~gameReady /\ Continue(p)
       \/ Kind[t] = "poll" /\ gameReady /\ Add(Inner[t]) /\ Finish(p)
  /\ UNCHANGED <<elapsed, gameReady, asyncVars, runs, batch>>

\* Mutant: tasks added during the scan are scanned by it too.
EndPassMerging(p) ==
  /\ iter[p] = Len(callbacks[p]) + 1
  /\ Merge(p)
  /\ iter' = [iter EXCEPT ![p] = IF newCallbacks[p] = <<>> THEN 0 ELSE @]
  /\ thread' = IF p = "async" /\ newCallbacks[p] = <<>> THEN "test" ELSE thread
  /\ UNCHANGED <<elapsed, busy, gameReady, kill, joined, history>>

EndPass(p) ==
  /\ iter[p] = Len(callbacks[p]) + 1
  /\ iter' = [iter EXCEPT ![p] = 0]
  /\ thread' = IF p = "async" THEN "test" ELSE thread
  /\ batch' = [batch EXCEPT ![p] = {}]
  /\ UNCHANGED <<lists, elapsed, busy, gameReady, kill, joined, born, stamp, runs>>

----------------------------------------------------------------------------
(* The async thread and pre_destroy; time and the game *)

PostStart ==
  /\ thread = "none" /\ ~kill
  /\ thread' = "test"
  /\ UNCHANGED <<lists, elapsed, iter, busy, gameReady, kill, joined, history>>

\* Mutant: while (true).
TestNothing ==
  /\ thread = "test"
  /\ thread' = "pass"
  /\ UNCHANGED <<lists, elapsed, iter, busy, gameReady, kill, joined, history>>

TestKill ==
  /\ thread = "test"
  /\ thread' = IF kill THEN "exited" ELSE "pass"
  /\ UNCHANGED <<lists, elapsed, iter, busy, gameReady, kill, joined, history>>

PreDestroy ==
  /\ ~kill
  /\ kill' = TRUE
  /\ UNCHANGED <<lists, elapsed, iter, busy, gameReady, thread, joined, history>>

\* Mutant: thread.detach().
Detach ==
  /\ kill /\ ~joined
  /\ joined' = TRUE
  /\ UNCHANGED <<lists, elapsed, iter, busy, gameReady, kill, thread, history>>

\* thread.join() returns, or thread.joinable() was false.
Join ==
  /\ kill /\ ~joined /\ thread \in {"none", "exited"}
  /\ joined' = TRUE
  /\ UNCHANGED <<lists, elapsed, iter, busy, gameReady, kill, thread, history>>

\* high_resolution_clock
Tick ==
  /\ elapsed' = [t \in Tasks |-> IF Queued(t) /\ elapsed[t] < Interval[t]
                                 THEN elapsed[t] + 1 ELSE elapsed[t]]
  /\ UNCHANGED <<lists, iter, busy, gameReady, asyncVars, history>>

\* Live_SyncOnlineDataFlags and the database change under the scheduler.
GameChanges ==
  /\ gameReady' = ~gameReady
  /\ UNCHANGED <<lists, elapsed, iter, busy, asyncVars, history>>

----------------------------------------------------------------------------
PassStep(p) == BeginPass(p) \/ Skip(p) \/ Run(p) \/ Return(p) \/ EndPass(p)

Next ==
  \/ \E t \in Tasks : Schedule(t)
  \/ \E p \in Pipelines : PassStep(p)
  \/ PostStart \/ TestKill \/ PreDestroy \/ Join
  \/ Tick \/ GameChanges

Spec == Init /\ [][Next]_vars

\* Frames keep coming, handlers return, the async thread and the clock go on.
Fairness ==
  /\ \A p \in Pipelines : WF_vars(PassStep(p))
  /\ WF_vars(PostStart) /\ WF_vars(TestKill) /\ WF_vars(Join)
  /\ WF_vars(Tick)

FairSpec == Spec /\ Fairness
----------------------------------------------------------------------------
(* Properties *)

ListsOK ==
  /\ newCallbacks \in [Pipelines -> Seq(Tasks)]
  /\ callbacks \in [Pipelines -> Seq(Tasks)]

ScanOK ==
  /\ iter \in [Pipelines -> Nat]
  /\ \A p \in Pipelines : iter[p] <= Len(callbacks[p]) + 1
  /\ busy \subseteq Pipelines
  /\ \A p \in busy : InPass(p)
  /\ batch \in [Pipelines -> SUBSET Tasks]

TasksOK ==
  /\ elapsed \in [Tasks -> Nat]
  /\ \A t \in Tasks : elapsed[t] <= Interval[t]
  /\ born \in Nat
  /\ stamp \in [Tasks -> 0 .. born]
  /\ runs \in [Tasks -> 0 .. MaxRuns]

FlagsOK ==
  /\ gameReady \in BOOLEAN /\ kill \in BOOLEAN /\ joined \in BOOLEAN
  /\ thread \in {"none", "test", "pass", "exited"}

TypeOK == ListsOK /\ ScanOK /\ TasksOK /\ FlagsOK

\* A task scheduled without delay starts before everything scheduled after it
\* on its pipeline: nat.cpp:402, for one, registers the dvars that its loops
\* read this way. (With a delay it need not: the clock is read per task.)
UndelayedInOrder ==
  \A t, u \in Tasks :
    (Home[t] = Home[u] /\ Interval[u] = 0 /\ stamp[u] \in 1 .. stamp[t] - 1 /\ runs[t] > 0)
      => runs[u] > 0

\* What a handler schedules waits for the next pass: a pass runs only tasks it
\* found after its merge, so a task that reschedules itself cannot hold a frame.
PassRunsItsBatch == \A p \in busy : Current(p) \in batch[p]

\* The lists implement what scheduler.hpp promises.
PhaseOf(t) == IF stamp[t] = 0 THEN "unborn"
              ELSE IF Running(t) THEN "running"
              ELSE IF Queued(t) THEN "waiting" ELSE "ended"

Promise == INSTANCE TaskPromise WITH
  phase <- [t \in Tasks |-> PhaseOf(t)],
  age <- elapsed,
  started <- {t \in Tasks : runs[t] > 0},
  quiet <- joined

KeepsPromise == Promise!Spec

\* on_game_initialized: when the game gets and stays ready, the poll hands its
\* once over and it runs (on the async pipeline only if the thread lives on).
GameInitializedRuns ==
  <>[]gameReady =>
    \A t \in Tasks :
      (Kind[t] = "poll" /\ stamp[t] > 0)
        ~> (runs[Inner[t]] > 0 \/ (Home[Inner[t]] = "async" /\ kill))

\* pre_destroy gets its join: the thread sees kill after at most one more pass.
ShutdownJoins == kill ~> joined
=============================================================================
