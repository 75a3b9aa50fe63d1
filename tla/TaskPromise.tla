---------------------------- MODULE TaskPromise ----------------------------
(***************************************************************************)
(* What scheduler.hpp promises to the components that call schedule, once, *)
(* loop and on_game_initialized, with no word about lists or locks:        *)
(*   - a handler starts only when its delay has passed since it was        *)
(*     scheduled or last started;                                          *)
(*   - handlers of one pipeline never overlap;                             *)
(*   - a once never starts a second time, a loop never ends, and no task   *)
(*     is forgotten before it ends;                                        *)
(*   - an undelayed task starts before every task scheduled after it on    *)
(*     its pipeline: components register dvars this way before the loops   *)
(*     that read them;                                                     *)
(*   - nothing starts on the async pipeline once its thread is joined.     *)
(* Scheduler.tla implements it.                                            *)
(***************************************************************************)
EXTENDS Integers

CONSTANTS
  Tasks,      \* task objects, each scheduled at most once
  Home,       \* the pipeline of a task
  Interval,   \* its delay, in ticks
  Kind        \* "once", "loop" or "poll"

VARIABLES
  phase,      \* "unborn", "waiting", "running" or "ended"
  age,        \* ticks since it was scheduled or last started, up to its delay
  born,       \* how many tasks were scheduled
  stamp,      \* the place of a task in the order of scheduling, 0 while unborn
  started,    \* the tasks whose handler started at least once
  quiet       \* the async thread is joined

vars == <<phase, age, born, stamp, started, quiet>>

Init ==
  /\ phase = [t \in Tasks |-> "unborn"]
  /\ age = [t \in Tasks |-> 0]
  /\ born = 0
  /\ stamp = [t \in Tasks |-> 0]
  /\ started = {}
  /\ quiet = FALSE

Schedule(t) ==
  /\ phase[t] = "unborn"
  /\ phase' = [phase EXCEPT ![t] = "waiting"]
  /\ born' = born + 1
  /\ stamp' = [stamp EXCEPT ![t] = born + 1]
  /\ UNCHANGED <<age, started, quiet>>

Start(t) ==
  /\ phase[t] = "waiting"
  /\ age[t] = Interval[t]
  /\ \A u \in Tasks : Home[u] = Home[t] => phase[u] # "running"
  /\ \A u \in Tasks :
       (Home[u] = Home[t] /\ Interval[u] = 0 /\ stamp[u] \in 1 .. stamp[t] - 1)
         => u \in started
  /\ quiet => Home[t] # "async"
  /\ phase' = [phase EXCEPT ![t] = "running"]
  /\ age' = [age EXCEPT ![t] = 0]
  /\ started' = started \cup {t}
  /\ UNCHANGED <<born, stamp, quiet>>

Repeat(t) ==
  /\ phase[t] = "running"
  /\ Kind[t] # "once"
  /\ phase' = [phase EXCEPT ![t] = "waiting"]
  /\ UNCHANGED <<age, born, stamp, started, quiet>>

\* A once ends, or a poll ends and schedules the task it stood for.
End(t) ==
  /\ phase[t] = "running"
  /\ \/ /\ Kind[t] = "once"
        /\ phase' = [phase EXCEPT ![t] = "ended"]
        /\ UNCHANGED <<born, stamp>>
     \/ /\ Kind[t] = "poll"
        /\ \E u \in Tasks :
             /\ phase[u] = "unborn"
             /\ phase' = [phase EXCEPT ![t] = "ended", ![u] = "waiting"]
             /\ born' = born + 1
             /\ stamp' = [stamp EXCEPT ![u] = born + 1]
  /\ UNCHANGED <<age, started, quiet>>

Tick ==
  /\ age' = [t \in Tasks |-> IF phase[t] \in {"waiting", "running"} /\ age[t] < Interval[t]
                             THEN age[t] + 1 ELSE age[t]]
  /\ UNCHANGED <<phase, born, stamp, started, quiet>>

Quiesce ==
  /\ \A t \in Tasks : Home[t] = "async" => phase[t] # "running"
  /\ quiet' = TRUE
  /\ UNCHANGED <<phase, age, born, stamp, started>>

Next ==
  \/ \E t \in Tasks : Schedule(t) \/ Start(t) \/ Repeat(t) \/ End(t)
  \/ Tick
  \/ Quiesce

Spec == Init /\ [][Next]_vars
=============================================================================
