-------------------------- MODULE Scheduler_proofs --------------------------
(***************************************************************************)
(* Machine-checked proofs about Scheduler.tla, for every set of tasks and  *)
(* pipelines: its type invariant, the order in which tasks scheduled       *)
(* without delay start, that a pass runs only its batch, and that the      *)
(* lists, iterators and locks implement TaskPromise.tla.                   *)
(***************************************************************************)
EXTENDS Scheduler, SequenceTheorems, TLAPS

(***************************************************************************)
(* Sequences                                                               *)
(***************************************************************************)

\* RemoveAt drops one element and moves its successors down by one: what
\* vector::erase does to the task list.
LEMMA RemoveAtIndices ==
  ASSUME NEW S, NEW s \in Seq(S), NEW i \in 1 .. Len(s)
  PROVE  /\ RemoveAt(s, i) \in Seq(S)
         /\ Len(RemoveAt(s, i)) = Len(s) - 1
         /\ \A k \in 1 .. Len(s) - 1 :
              RemoveAt(s, i)[k] = IF k < i THEN s[k] ELSE s[k + 1]
<1> DEFINE a == SubSeq(s, 1, i - 1)
           b == SubSeq(s, i + 1, Len(s))
<1>1. a \in Seq(S) /\ Len(a) = i - 1 /\ \A k \in 1 .. i - 1 : a[k] = s[k]
  OBVIOUS
<1>2. b \in Seq(S) /\ Len(b) = Len(s) - i /\ \A k \in 1 .. Len(s) - i : b[k] = s[i + k]
  OBVIOUS
<1>3. RemoveAt(s, i) = a \o b
  BY DEF RemoveAt
<1> HIDE DEF a, b
<1>4. /\ a \o b \in Seq(S)
      /\ Len(a \o b) = Len(a) + Len(b)
      /\ \A k \in 1 .. Len(a) + Len(b) :
            (a \o b)[k] = IF k <= Len(a) THEN a[k] ELSE b[k - Len(a)]
  BY <1>1, <1>2, ConcatProperties, Zenon
<1>5. Len(s) \in Nat /\ i \in Nat /\ Len(a) + Len(b) = Len(s) - 1
  BY <1>1, <1>2
<1>6. ASSUME NEW k \in 1 .. Len(s) - 1
      PROVE  (a \o b)[k] = IF k < i THEN s[k] ELSE s[k + 1]
  <2>1. (a \o b)[k] = IF k <= Len(a) THEN a[k] ELSE b[k - Len(a)]
    BY <1>4, <1>5
  <2>2. CASE k < i
    BY <2>1, <2>2, <1>1, <1>5
  <2>3. CASE k >= i
    <3>1. k - Len(a) \in 1 .. Len(s) - i /\ i + (k - Len(a)) = k + 1
      BY <2>3, <1>1, <1>5
    <3> QED BY <3>1, <2>1, <2>3, <1>1, <1>2, <1>5
  <2> QED BY <2>2, <2>3, <1>5
<1> QED BY <1>3, <1>4, <1>5, <1>6

\* The same when other elements follow the sequence.
LEMMA RemoveAtConcat ==
  ASSUME NEW S, NEW s \in Seq(S), NEW w \in Seq(S), NEW k \in 1 .. Len(s)
  PROVE  /\ Len(RemoveAt(s, k) \o w) = Len(s \o w) - 1
         /\ \A i \in 1 .. Len(s \o w) - 1 :
              (RemoveAt(s, k) \o w)[i] = IF i < k THEN (s \o w)[i] ELSE (s \o w)[i + 1]
<1> DEFINE r == RemoveAt(s, k)
<1>1. /\ r \in Seq(S) /\ Len(r) = Len(s) - 1
      /\ \A i \in 1 .. Len(s) - 1 : r[i] = IF i < k THEN s[i] ELSE s[i + 1]
  BY RemoveAtIndices, Zenon
<1>2. Len(s) \in Nat /\ Len(w) \in Nat /\ Len(r) \in Nat /\ k \in Nat
  BY <1>1
<1> HIDE DEF r
<1>3. /\ Len(s \o w) = Len(s) + Len(w)
      /\ \A i \in 1 .. Len(s) + Len(w) :
            (s \o w)[i] = IF i <= Len(s) THEN s[i] ELSE w[i - Len(s)]
  BY ConcatProperties, Zenon
<1>4. /\ Len(r \o w) = Len(r) + Len(w)
      /\ \A i \in 1 .. Len(r) + Len(w) :
            (r \o w)[i] = IF i <= Len(r) THEN r[i] ELSE w[i - Len(r)]
  BY <1>1, ConcatProperties, Zenon
<1> DEFINE a == Len(s)
           m == Len(w)
           b == Len(r)
           x == s \o w
           y == r \o w
<1>5. /\ a \in Nat /\ m \in Nat /\ b = a - 1 /\ k \in 1 .. a
      /\ Len(x) = a + m /\ Len(y) = b + m
      /\ \A i \in 1 .. a - 1 : r[i] = IF i < k THEN s[i] ELSE s[i + 1]
      /\ \A i \in 1 .. a + m : x[i] = IF i <= a THEN s[i] ELSE w[i - a]
      /\ \A i \in 1 .. b + m : y[i] = IF i <= b THEN r[i] ELSE w[i - b]
  BY <1>1, <1>2, <1>3, <1>4, Zenon
<1> HIDE DEF a, m, b, x, y
<1>6. Len(y) = Len(x) - 1 /\ Len(x) - 1 = a + m - 1
  BY <1>5
<1>7. \A i \in 1 .. a + m - 1 : y[i] = IF i < k THEN x[i] ELSE x[i + 1]
  <2> SUFFICES ASSUME NEW i \in 1 .. a + m - 1
               PROVE  y[i] = IF i < k THEN x[i] ELSE x[i + 1]
    OBVIOUS
  <2>1. i \in 1 .. b + m /\ i \in 1 .. a + m /\ i + 1 \in 1 .. a + m
    BY <1>5
  <2>2. CASE i <= b
    <3>1. i \in 1 .. a - 1 /\ i <= a /\ i + 1 <= a
      BY <1>5, <2>1, <2>2
    <3> QED BY <1>5, <2>1, <2>2, <3>1
  <2>3. CASE ~(i <= b)
    <3>1. ~(i < k) /\ ~(i + 1 <= a) /\ (i + 1) - a = i - b
      BY <1>5, <2>1, <2>3
    <3> QED BY <1>5, <2>1, <2>3, <3>1
  <2> QED BY <2>2, <2>3
<1> QED BY <1>6, <1>7, Zenon DEF r, x, y

\* A function that differs from another at one point is its EXCEPT.
LEMMA UpdatedAt ==
  ASSUME NEW P, NEW f, NEW g, NEW p \in P, NEW v,
         f = [q \in P |-> f[q]], g = [q \in P |-> g[q]],
         \A q \in P : f[q] = IF q = p THEN v ELSE g[q]
  PROVE  f = [g EXCEPT ![p] = v]
OBVIOUS

(***************************************************************************)
(* Type correctness                                                        *)
(***************************************************************************)

\* Lists of tasks stay lists of tasks when a task is added, when the new
\* tasks are merged and when the task at the iterator is erased.
LEMMA ListTypes ==
  ASSUME ListsOK, NEW p \in Pipelines
  PROVE  /\ callbacks[p] \o newCallbacks[p] \in Seq(Tasks)
         /\ Len(callbacks[p] \o newCallbacks[p]) >= Len(callbacks[p])
         /\ Len(callbacks[p]) \in Nat
         /\ \A t \in Tasks : Append(newCallbacks[p], t) \in Seq(Tasks)
         /\ InPass(p) => /\ Current(p) \in Tasks
                         /\ RemoveAt(callbacks[p], iter[p]) \in Seq(Tasks)
                         /\ Len(RemoveAt(callbacks[p], iter[p])) = Len(callbacks[p]) - 1
<1>1. newCallbacks[p] \in Seq(Tasks) /\ callbacks[p] \in Seq(Tasks)
  BY DEF ListsOK
<1>2. ASSUME InPass(p)
      PROVE  /\ Current(p) \in Tasks
             /\ RemoveAt(callbacks[p], iter[p]) \in Seq(Tasks)
             /\ Len(RemoveAt(callbacks[p], iter[p])) = Len(callbacks[p]) - 1
  <2>1. iter[p] \in 1 .. Len(callbacks[p])
    BY <1>2 DEF InPass
  <2>2. Current(p) \in Tasks
    BY <1>1, <2>1 DEF Current
  <2> QED BY <1>1, <2>1, <2>2, RemoveAtIndices, Zenon
<1>3. ASSUME NEW t \in Tasks
      PROVE  Append(newCallbacks[p], t) \in Seq(Tasks)
  BY <1>1
<1>4. /\ callbacks[p] \o newCallbacks[p] \in Seq(Tasks)
      /\ Len(callbacks[p] \o newCallbacks[p]) >= Len(callbacks[p])
      /\ Len(callbacks[p]) \in Nat
  <2>1. /\ callbacks[p] \o newCallbacks[p] \in Seq(Tasks)
        /\ Len(callbacks[p] \o newCallbacks[p]) = Len(callbacks[p]) + Len(newCallbacks[p])
    BY <1>1, ConcatProperties, Zenon
  <2>2. Len(callbacks[p]) \in Nat /\ Len(newCallbacks[p]) \in Nat
    BY <1>1
  <2>3. \A x, y \in Nat : x + y >= x
    OBVIOUS
  <2> QED BY <2>1, <2>2, <2>3, Zenon
<1> QED BY <1>2, <1>3, <1>4

LEMMA TypeInit == Init => TypeOK
<1> SUFFICES ASSUME Init PROVE TypeOK
  OBVIOUS
<1>1. <<>> \in Seq(Tasks) /\ Len(<<>>) = 0
  OBVIOUS
<1>2. ListsOK
  BY <1>1 DEF Init, ListsOK
<1>3. ScanOK
  BY <1>1 DEF Init, ScanOK
<1>4. TasksOK
  BY IntervalAssumption DEF Init, TasksOK, MaxRuns
<1>5. FlagsOK
  BY DEF Init, FlagsOK
<1> QED BY <1>2, <1>3, <1>4, <1>5 DEF TypeOK

\* The actions of one pipeline's scan, and those that leave the lists alone.
OtherStep == PostStart \/ TestKill \/ PreDestroy \/ Join \/ Tick \/ GameChanges \/ UNCHANGED vars

LEMMA NextCases ==
  ASSUME [Next]_vars
  PROVE  \/ \E t \in Tasks : Schedule(t)
         \/ \E p \in Pipelines : PassStep(p)
         \/ OtherStep
BY DEF Next, OtherStep

LEMMA ListsStep == TypeOK /\ [Next]_vars => ListsOK'
<1> SUFFICES ASSUME TypeOK, [Next]_vars PROVE ListsOK'
  OBVIOUS
<1>0. ListsOK
  BY DEF TypeOK
<1>1. ASSUME NEW t \in Tasks, Add(t)
      PROVE  newCallbacks' \in [Pipelines -> Seq(Tasks)]
  <2>1. Append(newCallbacks[Home[t]], t) \in Seq(Tasks)
    BY <1>0, HomeAssumption, ListTypes
  <2> QED BY <1>0, <1>1, <2>1 DEF Add, ListsOK
<1>2. ASSUME NEW t \in Tasks, Schedule(t) PROVE ListsOK'
  BY <1>0, <1>1, <1>2 DEF Schedule, ListsOK
<1>3. ASSUME NEW p \in Pipelines, BeginPass(p) PROVE ListsOK'
  <2>1. callbacks[p] \o newCallbacks[p] \in Seq(Tasks)
    BY <1>0, ListTypes
  <2>2. <<>> \in Seq(Tasks)
    OBVIOUS
  <2> QED BY <1>0, <1>3, <2>1, <2>2 DEF BeginPass, Merge, ListsOK
<1>4. ASSUME NEW p \in Pipelines, Return(p) PROVE ListsOK'
  <2>1. p \in busy /\ InPass(p) /\ Current(p) \in Tasks
    BY <1>0, <1>4, ListTypes DEF Return, TypeOK, ScanOK
  <2>2. ASSUME Finish(p)
        PROVE  callbacks' \in [Pipelines -> Seq(Tasks)]
    <3>1. RemoveAt(callbacks[p], iter[p]) \in Seq(Tasks)
      BY <1>0, <2>1, ListTypes
    <3> QED BY <1>0, <2>2, <3>1 DEF Finish, ListsOK
  <2>3. CASE Continue(p)
    BY <1>0, <2>3 DEF Continue, lists, ListsOK
  <2>4. CASE Finish(p) /\ UNCHANGED newCallbacks
    BY <1>0, <2>2, <2>4 DEF ListsOK
  <2>5. CASE Kind[Current(p)] = "poll" /\ Add(Inner[Current(p)]) /\ Finish(p)
    <3>1. Inner[Current(p)] \in Tasks
      BY <2>1, <2>5, InnerAssumption
    <3> QED BY <1>1, <2>2, <2>5, <3>1 DEF ListsOK
  <2> QED BY <1>4, <2>3, <2>4, <2>5 DEF Return
<1>5. ASSUME NEW p \in Pipelines, Skip(p) \/ Run(p) \/ EndPass(p) PROVE ListsOK'
  BY <1>0, <1>5 DEF Skip, Run, EndPass, lists, ListsOK
<1>6. CASE OtherStep
  BY <1>0, <1>6 DEF OtherStep, PostStart, TestKill, PreDestroy, Join, Tick, GameChanges,
     vars, lists, ListsOK
<1> QED BY <1>2, <1>3, <1>4, <1>5, <1>6, NextCases DEF PassStep

LEMMA ScanStep == TypeOK /\ [Next]_vars => ScanOK'
<1> SUFFICES ASSUME TypeOK, [Next]_vars PROVE ScanOK'
  OBVIOUS
<1>0. ListsOK /\ ScanOK /\ ListsOK'
  BY ListsStep DEF TypeOK
<1> DEFINE n(q) == Len(callbacks[q])
<1>1. \A q \in Pipelines : n(q) \in Nat
  BY <1>0, ListTypes
<1> HIDE DEF n
<1>2. /\ iter \in [Pipelines -> Nat] /\ batch \in [Pipelines -> SUBSET Tasks]
      /\ busy \subseteq Pipelines
      /\ \A q \in Pipelines : iter[q] <= n(q) + 1
      /\ \A q \in busy : iter[q] \in 1 .. n(q)
  BY <1>0 DEF ScanOK, InPass, n
<1>3. (/\ iter' \in [Pipelines -> Nat] /\ batch' \in [Pipelines -> SUBSET Tasks]
       /\ busy' \subseteq Pipelines
       /\ \A q \in Pipelines : iter'[q] <= n(q)' + 1
       /\ \A q \in busy' : iter'[q] \in 1 .. n(q)') => ScanOK'
  BY DEF ScanOK, InPass, n
<1>4. ASSUME UNCHANGED callbacks PROVE \A q : n(q)' = n(q)
  BY <1>4 DEF n
<1>5. ASSUME NEW t \in Tasks, Schedule(t) PROVE ScanOK'
  <2>1. UNCHANGED <<callbacks, iter, busy, batch>>
    BY <1>5 DEF Schedule
  <2> QED BY <1>0, <2>1 DEF ScanOK, InPass
<1>6. ASSUME NEW p \in Pipelines, BeginPass(p) PROVE ScanOK'
  <2>1. \A q \in Pipelines : n(q)' \in Nat /\ n(q)' >= n(q)
    BY <1>0, <1>6, ListTypes DEF BeginPass, Merge, ListsOK, n
  <2>2. ToSet(callbacks'[p]) \subseteq Tasks
    BY <1>0 DEF ListsOK, ToSet
  <2>3. /\ iter[p] = 0 /\ iter' = [iter EXCEPT ![p] = 1] /\ busy' = busy
        /\ batch' = [batch EXCEPT ![p] = ToSet(callbacks'[p])]
    BY <1>6 DEF BeginPass
  <2> QED BY <1>1, <1>2, <1>3, <2>1, <2>2, <2>3
<1>7. ASSUME NEW p \in Pipelines, Skip(p) PROVE ScanOK'
  <2>1. /\ iter[p] \in 1 .. n(p) /\ p \notin busy /\ busy' = busy /\ batch' = batch
        /\ iter' = [iter EXCEPT ![p] = @ + 1] /\ UNCHANGED callbacks
    BY <1>7 DEF Skip, InPass, lists, history, n
  <2> QED BY <1>1, <1>2, <1>3, <1>4, <2>1
<1>8. ASSUME NEW p \in Pipelines, Run(p) PROVE ScanOK'
  <2>1. /\ iter[p] \in 1 .. n(p) /\ busy' = busy \cup {p} /\ batch' = batch
        /\ iter' = iter /\ UNCHANGED callbacks
    BY <1>8 DEF Run, InPass, lists, n
  <2> QED BY <1>1, <1>2, <1>3, <1>4, <2>1
<1>9. ASSUME NEW p \in Pipelines, Return(p) PROVE ScanOK'
  <2>1. /\ p \in busy /\ busy' = busy \ {p} /\ batch' = batch /\ iter[p] \in 1 .. n(p)
    BY <1>2, <1>9 DEF Return
  <2>2. CASE Continue(p)
    <3>1. iter' = [iter EXCEPT ![p] = @ + 1] /\ UNCHANGED callbacks
      BY <2>2 DEF Continue, lists
    <3> QED BY <1>1, <1>2, <1>3, <1>4, <2>1, <3>1
  <2>3. CASE Finish(p)
    <3>1. iter' = iter
      BY <2>3 DEF Finish
    <3>2. \A q \in Pipelines : n(q)' = IF q = p THEN n(q) - 1 ELSE n(q)
      <4>1. InPass(p)
        BY <2>1 DEF InPass, n
      <4>2. Len(RemoveAt(callbacks[p], iter[p])) = Len(callbacks[p]) - 1
        BY <1>0, <4>1, ListTypes
      <4> QED BY <1>0, <2>3, <4>2 DEF Finish, ListsOK, n
    <3> QED BY <1>1, <1>2, <1>3, <2>1, <3>1, <3>2
  <2> QED BY <1>9, <2>2, <2>3 DEF Return
<1>10. ASSUME NEW p \in Pipelines, EndPass(p) PROVE ScanOK'
  <2>1. /\ iter[p] = n(p) + 1 /\ busy' = busy /\ UNCHANGED callbacks
        /\ batch' = [batch EXCEPT ![p] = {}] /\ iter' = [iter EXCEPT ![p] = 0]
    BY <1>10 DEF EndPass, lists, n
  <2> QED BY <1>1, <1>2, <1>3, <1>4, <2>1
<1>11. CASE OtherStep
  <2>1. UNCHANGED <<callbacks, iter, busy, batch>>
    BY <1>11 DEF OtherStep, PostStart, TestKill, PreDestroy, Join, Tick, GameChanges,
       vars, lists, history
  <2> QED BY <1>0, <2>1 DEF ScanOK, InPass
<1> QED BY <1>5, <1>6, <1>7, <1>8, <1>9, <1>10, <1>11, NextCases DEF PassStep

LEMMA TasksStep == TypeOK /\ [Next]_vars => TasksOK'
<1> SUFFICES ASSUME TypeOK, [Next]_vars PROVE TasksOK'
  OBVIOUS
<1>0. ListsOK /\ ScanOK /\ TasksOK
  BY DEF TypeOK
<1>1. ASSUME NEW t \in Tasks, Add(t)
      PROVE  born' \in Nat /\ stamp' \in [Tasks -> 0 .. born']
  BY <1>0, <1>1 DEF Add, TasksOK
<1>2. ASSUME NEW t \in Tasks, Schedule(t) PROVE TasksOK'
  BY <1>0, <1>1, <1>2 DEF Schedule, TasksOK
<1>3. ASSUME NEW p \in Pipelines, BeginPass(p) \/ Skip(p) \/ EndPass(p) PROVE TasksOK'
  BY <1>0, <1>3 DEF BeginPass, Skip, EndPass, history, TasksOK
<1>4. ASSUME NEW p \in Pipelines, Run(p) PROVE TasksOK'
  <2>1. Current(p) \in Tasks
    BY <1>0, <1>4, ListTypes DEF Run
  <2>2. /\ elapsed' = [elapsed EXCEPT ![Current(p)] = 0]
        /\ runs' = [runs EXCEPT ![Current(p)] = IF @ < MaxRuns THEN @ + 1 ELSE @]
        /\ UNCHANGED <<born, stamp>>
    BY <1>4 DEF Run
  <2>3. elapsed' \in [Tasks -> Nat] /\ \A t \in Tasks : elapsed'[t] <= Interval[t]
    <3>1. elapsed \in [Tasks -> Nat] /\ \A t \in Tasks : elapsed[t] <= Interval[t]
      BY <1>0 DEF TasksOK
    <3>2. \A t \in Tasks : elapsed'[t] = IF t = Current(p) THEN 0 ELSE elapsed[t]
      BY <2>2, <3>1
    <3>3. elapsed' \in [Tasks -> Nat]
      BY <2>1, <2>2, <3>1
    <3>4. \A t \in Tasks : Interval[t] >= 0
      BY IntervalAssumption
    <3> QED BY <3>1, <3>2, <3>3, <3>4
  <2>4. runs' \in [Tasks -> 0 .. MaxRuns]
    BY <1>0, <2>1, <2>2 DEF TasksOK, MaxRuns
  <2> QED BY <1>0, <2>2, <2>3, <2>4 DEF TasksOK
<1>5. ASSUME NEW p \in Pipelines, Return(p) PROVE TasksOK'
  <2>1. Current(p) \in Tasks
    BY <1>0, <1>5, ListTypes DEF Return, ScanOK
  <2>2. UNCHANGED <<elapsed, runs>>
    BY <1>5 DEF Return
  <2>3. CASE UNCHANGED <<born, stamp>>
    BY <1>0, <2>2, <2>3 DEF TasksOK
  <2>4. CASE Kind[Current(p)] = "poll" /\ Add(Inner[Current(p)])
    <3>1. Inner[Current(p)] \in Tasks
      BY <2>1, <2>4, InnerAssumption
    <3> QED BY <1>0, <1>1, <2>2, <2>4, <3>1 DEF TasksOK
  <2> QED BY <1>5, <2>3, <2>4 DEF Return, Continue
<1>6. CASE Tick
  <2>1. elapsed' \in [Tasks -> Nat] /\ \A t \in Tasks : elapsed'[t] <= Interval[t]
    BY <1>0, <1>6, IntervalAssumption DEF Tick, TasksOK
  <2> QED BY <1>0, <1>6, <2>1 DEF Tick, history, TasksOK
<1>7. CASE OtherStep /\ ~Tick
  <2>1. UNCHANGED <<elapsed, born, stamp, runs>>
    BY <1>7 DEF OtherStep, PostStart, TestKill, PreDestroy, Join, GameChanges, vars, history
  <2> QED BY <1>0, <2>1 DEF TasksOK
<1> QED BY <1>2, <1>3, <1>4, <1>5, <1>6, <1>7, NextCases DEF PassStep

LEMMA FlagsStep == TypeOK /\ [Next]_vars => FlagsOK'
<1> SUFFICES ASSUME FlagsOK, [Next]_vars PROVE FlagsOK'
  BY DEF TypeOK
<1>1. ASSUME NEW t \in Tasks, Schedule(t) PROVE FlagsOK'
  BY <1>1 DEF Schedule, asyncVars, FlagsOK
<1>2. ASSUME NEW p \in Pipelines, PassStep(p) PROVE FlagsOK'
  BY <1>2 DEF PassStep, BeginPass, Skip, Run, Return, EndPass, asyncVars, FlagsOK
<1>3. CASE OtherStep
  BY <1>3 DEF OtherStep, PostStart, TestKill, PreDestroy, Join, Tick, GameChanges,
     asyncVars, vars, FlagsOK
<1> QED BY <1>1, <1>2, <1>3, NextCases

LEMMA TypeStep == TypeOK /\ [Next]_vars => TypeOK'
BY ListsStep, ScanStep, TasksStep, FlagsStep DEF TypeOK

\* The lists, iterators and flags of the four pipelines keep their types.
THEOREM SchedulerTypeCorrect == Spec => []TypeOK
BY TypeInit, TypeStep, PTL DEF Spec

(***************************************************************************)
(* The order of undelayed tasks                                            *)
(*                                                                         *)
(* What the merge leaves alone is the line of a pipeline: its tasks        *)
(* followed by its new ones. Adding appends to the line, erasing removes   *)
(* at the iterator. The invariant is stated of a line, its size, the       *)
(* iterators, the running pipelines and the two histories as parameters,   *)
(* so that a poll's last step, which erases the poll and adds its once, is *)
(* the composition of two lemmas.                                          *)
(***************************************************************************)
LineOf(c) == [p \in Pipelines |-> c[p] \o newCallbacks[p]]
SizeOf(c) == [p \in Pipelines |-> Len(LineOf(c)[p])]
Line == LineOf(callbacks)
Size == SizeOf(callbacks)

\* The tasks of the pipelines with the one at p's iterator erased.
Erased(p) == [callbacks EXCEPT ![p] = RemoveAt(@, iter[p])]

MembersOK(l, n, st) ==
  \A p \in Pipelines : \A i \in 1 .. n[p] :
    l[p][i] \in Tasks /\ Home[l[p][i]] = p /\ st[l[p][i]] > 0

\* In particular no task is in a line twice.
SortedOK(l, n, st) ==
  \A p \in Pipelines : \A i, j \in 1 .. n[p] : i < j => st[l[p][i]] < st[l[p][j]]

\* What the iterator has passed has run, unless it had a delay.
ScannedOK(l, n, it, rn) ==
  \A p \in Pipelines : \A i \in 1 .. n[p] :
    i < it[p] /\ Interval[l[p][i]] = 0 => rn[l[p][i]] > 0

RunningOK(l, n, it, bz, rn) == \A p \in bz : it[p] \in 1 .. n[p] /\ rn[l[p][it[p]]] > 0

Listed(t, l, n) == \E i \in 1 .. n[Home[t]] : l[Home[t]][i] = t

\* Only a task that has run leaves the line.
EndedOK(l, n, st, rn) == \A t \in Tasks : st[t] > 0 /\ ~Listed(t, l, n) => rn[t] > 0

BornOK(st, rn) == \A t \in Tasks : rn[t] > 0 => st[t] > 0

\* A poll that has not ended has not scheduled its once.
PollsOK(l, n, st) ==
  \A t \in Tasks : Kind[t] = "poll" /\ (st[t] = 0 \/ Listed(t, l, n)) => st[Inner[t]] = 0

InOrder(st, rn) ==
  \A t, u \in Tasks :
    (Home[t] = Home[u] /\ Interval[u] = 0 /\ st[u] > 0 /\ st[u] < st[t] /\ rn[t] > 0) => rn[u] > 0

OrderOK(l, n, it, bz, st, rn) ==
  /\ MembersOK(l, n, st) /\ SortedOK(l, n, st)
  /\ ScannedOK(l, n, it, rn) /\ RunningOK(l, n, it, bz, rn)
  /\ EndedOK(l, n, st, rn) /\ BornOK(st, rn) /\ PollsOK(l, n, st) /\ InOrder(st, rn)

OrderInv == OrderOK(Line, Size, iter, busy, stamp, runs)

ParamsOK(n, it, bz, st, rn) ==
  /\ n \in [Pipelines -> Nat] /\ it \in [Pipelines -> Nat] /\ bz \subseteq Pipelines
  /\ st \in [Tasks -> Nat] /\ rn \in [Tasks -> Nat]

\* The line l2 is l with t put at its end.
Appended(l, n, t, l2, n2) ==
  /\ n2 = [n EXCEPT ![Home[t]] = n[Home[t]] + 1]
  /\ \A p \in Pipelines : \A i \in 1 .. n[p] : l2[p][i] = l[p][i]
  /\ l2[Home[t]][n[Home[t]] + 1] = t

\* A task that was never scheduled, and whose poll, if it is a poll's once,
\* has left the line, can be put at the end of the line.
LEMMA AddKeepsOrder ==
  ASSUME NEW l, NEW n, NEW it, NEW bz, NEW st, NEW rn, ParamsOK(n, it, bz, st, rn),
         OrderOK(l, n, it, bz, st, rn),
         NEW t \in Tasks, NEW b \in Nat, st[t] = 0, \A u \in Tasks : st[u] <= b,
         \A q \in Tasks : Kind[q] = "poll" /\ Inner[q] = t => st[q] > 0 /\ ~Listed(q, l, n),
         NEW l2, NEW n2, Appended(l, n, t, l2, n2),
         it[Home[t]] <= n[Home[t]] + 1
  PROVE  OrderOK(l2, n2, it, bz, [st EXCEPT ![t] = b + 1], rn)
<1> DEFINE st2 == [st EXCEPT ![t] = b + 1]
<1>0. /\ n \in [Pipelines -> Nat] /\ it \in [Pipelines -> Nat] /\ bz \subseteq Pipelines
      /\ st \in [Tasks -> Nat] /\ rn \in [Tasks -> Nat] /\ Home[t] \in Pipelines
  BY HomeAssumption DEF ParamsOK
<1>1. /\ MembersOK(l, n, st) /\ SortedOK(l, n, st)
      /\ ScannedOK(l, n, it, rn) /\ RunningOK(l, n, it, bz, rn)
      /\ EndedOK(l, n, st, rn) /\ BornOK(st, rn) /\ PollsOK(l, n, st) /\ InOrder(st, rn)
  BY DEF OrderOK
<1>2. \A u \in Tasks : st2[u] = IF u = t THEN b + 1 ELSE st[u]
  BY <1>0
<1>3. \A p \in Pipelines : n[p] \in Nat /\ n2[p] = IF p = Home[t] THEN n[p] + 1 ELSE n[p]
  BY <1>0 DEF Appended
<1>4. \A p \in Pipelines : \A i \in 1 .. n2[p] :
        \/ i \in 1 .. n[p] /\ l2[p][i] = l[p][i] /\ l[p][i] # t
        \/ p = Home[t] /\ i = n[p] + 1 /\ l2[p][i] = t
  BY <1>1, <1>3 DEF MembersOK, Appended
<1> HIDE DEF st2
<1>5. MembersOK(l2, n2, st2)
  BY <1>1, <1>2, <1>4 DEF MembersOK
<1>6. SortedOK(l2, n2, st2)
  <2> SUFFICES ASSUME NEW p \in Pipelines, NEW i \in 1 .. n2[p], NEW j \in 1 .. n2[p], i < j
               PROVE  st2[l2[p][i]] < st2[l2[p][j]]
    BY DEF SortedOK
  <2>1. i \in 1 .. n[p] /\ l2[p][i] = l[p][i] /\ l[p][i] \in Tasks /\ st2[l[p][i]] = st[l[p][i]]
    BY <1>1, <1>2, <1>3, <1>4 DEF MembersOK
  <2>2. CASE j \in 1 .. n[p] /\ l2[p][j] = l[p][j] /\ l[p][j] # t
    <3>1. st2[l[p][j]] = st[l[p][j]] /\ st[l[p][i]] < st[l[p][j]]
      BY <1>1, <1>2, <2>1, <2>2 DEF MembersOK, SortedOK
    <3> QED BY <2>1, <2>2, <3>1
  <2>3. CASE l2[p][j] = t
    BY <1>0, <1>2, <2>1, <2>3
  <2> QED BY <1>4, <2>2, <2>3
<1>7. ScannedOK(l2, n2, it, rn)
  BY <1>0, <1>1, <1>4 DEF ScannedOK
<1>8. RunningOK(l2, n2, it, bz, rn)
  BY <1>0, <1>1, <1>3 DEF RunningOK, Appended
<1>9. \A u \in Tasks : u # t => (Listed(u, l2, n2) <=> Listed(u, l, n))
  BY <1>3, <1>4, HomeAssumption DEF Listed
<1>10. EndedOK(l2, n2, st2, rn)
  <2>1. Listed(t, l2, n2)
    BY <1>0, <1>3 DEF Listed, Appended
  <2> QED BY <1>1, <1>2, <1>9, <2>1 DEF EndedOK
<1>11. BornOK(st2, rn)
  BY <1>0, <1>1, <1>2 DEF BornOK
<1>12. PollsOK(l2, n2, st2)
  BY <1>0, <1>1, <1>2, <1>9, InnerAssumption DEF PollsOK
<1>13. InOrder(st2, rn)
  BY <1>0, <1>1, <1>2 DEF InOrder, BornOK
<1> QED BY <1>5, <1>6, <1>7, <1>8, <1>10, <1>11, <1>12, <1>13 DEF OrderOK, st2

\* The iterator may pass a task that has a delay or has run, and may start or
\* end a scan; the pipeline is not running afterwards.
LEMMA MoveKeepsOrder ==
  ASSUME NEW l, NEW n, NEW it, NEW bz, NEW st, NEW rn, ParamsOK(n, it, bz, st, rn),
         OrderOK(l, n, it, bz, st, rn),
         NEW p \in Pipelines, NEW k \in Nat,
         \/ k <= 1
         \/ /\ it[p] \in 1 .. n[p] /\ k = it[p] + 1
            /\ Interval[l[p][it[p]]] # 0 \/ rn[l[p][it[p]]] > 0
  PROVE  OrderOK(l, n, [it EXCEPT ![p] = k], bz \ {p}, st, rn)
<1> DEFINE it2 == [it EXCEPT ![p] = k]
<1>0. it \in [Pipelines -> Nat] /\ bz \subseteq Pipelines /\ n \in [Pipelines -> Nat]
  BY DEF ParamsOK
<1>1. \A q \in Pipelines : it2[q] = IF q = p THEN k ELSE it[q]
  BY <1>0
<1> HIDE DEF it2
<1>2. ScannedOK(l, n, it, rn) /\ RunningOK(l, n, it, bz, rn)
  BY DEF OrderOK
<1>3. ScannedOK(l, n, it2, rn)
  BY <1>0, <1>1, <1>2 DEF ScannedOK
<1>4. RunningOK(l, n, it2, bz \ {p}, rn)
  BY <1>0, <1>1, <1>2 DEF RunningOK
<1> QED BY <1>3, <1>4 DEF OrderOK, it2

\* A handler starts: whatever undelayed task came before it in the line has
\* been passed by the iterator, and what is no longer in the line has run.
LEMMA RunKeepsOrder ==
  ASSUME NEW l, NEW n, NEW it, NEW bz, NEW st, NEW rn, ParamsOK(n, it, bz, st, rn),
         OrderOK(l, n, it, bz, st, rn),
         NEW p \in Pipelines, it[p] \in 1 .. n[p],
         NEW rn2, \A t \in Tasks : rn2[t] >= rn[t], rn2 \in [Tasks -> Nat],
         rn2[l[p][it[p]]] > 0, \A t \in Tasks : t # l[p][it[p]] => rn2[t] = rn[t]
  PROVE  OrderOK(l, n, it, bz \cup {p}, st, rn2)
<1>0. /\ n \in [Pipelines -> Nat] /\ it \in [Pipelines -> Nat] /\ bz \subseteq Pipelines
      /\ st \in [Tasks -> Nat] /\ rn \in [Tasks -> Nat]
  BY DEF ParamsOK
<1>1. /\ MembersOK(l, n, st) /\ SortedOK(l, n, st)
      /\ ScannedOK(l, n, it, rn) /\ RunningOK(l, n, it, bz, rn)
      /\ EndedOK(l, n, st, rn) /\ BornOK(st, rn) /\ PollsOK(l, n, st) /\ InOrder(st, rn)
  BY DEF OrderOK
<1>2. \A t \in Tasks : rn[t] > 0 => rn2[t] > 0
  BY <1>0
<1>3. ScannedOK(l, n, it, rn2)
  BY <1>1, <1>2 DEF ScannedOK, MembersOK
<1>4. RunningOK(l, n, it, bz \cup {p}, rn2)
  BY <1>0, <1>1, <1>2 DEF RunningOK, MembersOK
<1>5. EndedOK(l, n, st, rn2)
  BY <1>1, <1>2 DEF EndedOK
<1>6. BornOK(st, rn2)
  BY <1>0, <1>1 DEF BornOK, MembersOK
<1>7. InOrder(st, rn2)
  <2> SUFFICES ASSUME NEW t \in Tasks, NEW u \in Tasks, Home[t] = Home[u], Interval[u] = 0,
                      st[u] > 0, st[u] < st[t], rn2[t] > 0
               PROVE  rn2[u] > 0
    BY DEF InOrder
  <2>1. CASE t # l[p][it[p]]
    BY <1>1, <1>2, <2>1 DEF InOrder
  <2>2. CASE t = l[p][it[p]]
    <3>1. Home[u] = p
      BY <1>1, <2>2 DEF MembersOK
    <3>2. CASE ~Listed(u, l, n)
      BY <1>1, <1>2, <3>2 DEF EndedOK
    <3>3. CASE Listed(u, l, n)
      <4>1. PICK j \in 1 .. n[p] : l[p][j] = u
        BY <3>1, <3>3 DEF Listed
      <4>2. ~(st[t] < st[u]) /\ st[u] # st[t]
        BY <1>0
      <4>3. ~(it[p] < j) /\ j # it[p]
        BY <1>1, <2>2, <4>1, <4>2 DEF SortedOK
      <4>4. j < it[p]
        BY <1>0, <4>3
      <4> QED BY <1>1, <1>2, <4>1, <4>4 DEF ScannedOK
    <3> QED BY <3>2, <3>3
  <2> QED BY <2>1, <2>2
<1> QED BY <1>1, <1>3, <1>4, <1>5, <1>6, <1>7 DEF OrderOK

\* The line l2 of p is l without the element at k; the others are the same.
Without(l, n, p, k, l2, n2) ==
  /\ n2 = [n EXCEPT ![p] = n[p] - 1]
  /\ \A q \in Pipelines : q # p => l2[q] = l[q]
  /\ \A i \in 1 .. n[p] - 1 : l2[p][i] = IF i < k THEN l[p][i] ELSE l[p][i + 1]

OthersListed(c, l, n, l2, n2) ==
  \A u \in Tasks : u # c => (Listed(u, l2, n2) <=> Listed(u, l, n))

\* A task that has run is erased, and is not in the line afterwards; the others
\* are where they were.
LEMMA EraseKeepsOrder ==
  ASSUME NEW l, NEW n, NEW it, NEW bz, NEW st, NEW rn, ParamsOK(n, it, bz, st, rn),
         OrderOK(l, n, it, bz, st, rn),
         NEW p \in bz,
         NEW l2, NEW n2, Without(l, n, p, it[p], l2, n2)
  PROVE  /\ OrderOK(l2, n2, it, bz \ {p}, st, rn)
         /\ ~Listed(l[p][it[p]], l2, n2)
         /\ OthersListed(l[p][it[p]], l, n, l2, n2)
<1> DEFINE c == l[p][it[p]]
<1>0. /\ n \in [Pipelines -> Nat] /\ it \in [Pipelines -> Nat] /\ bz \subseteq Pipelines
      /\ st \in [Tasks -> Nat] /\ rn \in [Tasks -> Nat] /\ p \in Pipelines
  BY DEF ParamsOK
<1>1. /\ MembersOK(l, n, st) /\ SortedOK(l, n, st)
      /\ ScannedOK(l, n, it, rn) /\ RunningOK(l, n, it, bz, rn)
      /\ EndedOK(l, n, st, rn) /\ BornOK(st, rn) /\ PollsOK(l, n, st) /\ InOrder(st, rn)
  BY DEF OrderOK
<1>2. it[p] \in 1 .. n[p] /\ rn[c] > 0 /\ c \in Tasks /\ Home[c] = p
  BY <1>1, <1>0 DEF RunningOK, MembersOK
<1>3. \A q \in Pipelines : n[q] \in Nat /\ n2[q] = IF q = p THEN n[q] - 1 ELSE n[q]
  BY <1>0 DEF Without
<1> DEFINE old(q, i) == IF q = p /\ i >= it[p] THEN i + 1 ELSE i
<1>4. \A q \in Pipelines : \A i \in 1 .. n2[q] :
        /\ old(q, i) \in 1 .. n[q] /\ l2[q][i] = l[q][old(q, i)]
        /\ old(q, i) # it[p] \/ q # p
        /\ i < it[q] => old(q, i) = i
  BY <1>0, <1>2, <1>3 DEF Without
<1>5. \A q \in Pipelines : \A i, j \in 1 .. n2[q] : i < j => old(q, i) < old(q, j)
  BY <1>0, <1>3
<1>6. \A q \in Pipelines : \A k \in 1 .. n[q] :
        (q = p /\ k = it[p]) \/ \E i \in 1 .. n2[q] : old(q, i) = k
  <2> SUFFICES ASSUME NEW q \in Pipelines, NEW k \in 1 .. n[q], ~(q = p /\ k = it[p])
               PROVE  \E i \in 1 .. n2[q] : old(q, i) = k
    OBVIOUS
  <2>1. CASE q = p /\ k > it[p]
    <3>1. k - 1 \in 1 .. n2[q] /\ old(q, k - 1) = k
      BY <1>0, <1>2, <1>3, <2>1
    <3> QED BY <3>1
  <2>2. CASE ~(q = p /\ k > it[p])
    <3>1. k \in 1 .. n2[q] /\ old(q, k) = k
      BY <1>0, <1>2, <1>3, <2>2
    <3> QED BY <3>1
  <2> QED BY <2>1, <2>2
<1> HIDE DEF old, c
<1>7. MembersOK(l2, n2, st)
  BY <1>1, <1>4 DEF MembersOK
<1>8. SortedOK(l2, n2, st)
  BY <1>1, <1>4, <1>5 DEF SortedOK
<1>9. ScannedOK(l2, n2, it, rn)
  BY <1>1, <1>4 DEF ScannedOK
<1>10. RunningOK(l2, n2, it, bz \ {p}, rn)
  BY <1>0, <1>1, <1>3 DEF RunningOK, Without
<1>11. ~Listed(c, l2, n2)
  <2> SUFFICES ASSUME NEW i \in 1 .. n2[p], l2[p][i] = c
               PROVE  FALSE
    BY <1>2 DEF Listed
  <2>1. old(p, i) \in 1 .. n[p] /\ l[p][old(p, i)] = c /\ old(p, i) # it[p]
    BY <1>0, <1>4
  <2>2. ~(old(p, i) < it[p]) /\ ~(it[p] < old(p, i))
    <3>1. ~(st[c] < st[c])
      BY <1>0, <1>2
    <3> QED BY <1>0, <1>1, <1>2, <2>1, <3>1 DEF SortedOK, c
  <2> QED BY <1>0, <1>2, <2>1, <2>2
<1>12. \A u \in Tasks : Listed(u, l2, n2) => Listed(u, l, n)
  BY <1>4, HomeAssumption DEF Listed
<1>13. \A u \in Tasks : Listed(u, l, n) => u = c \/ Listed(u, l2, n2)
  BY <1>4, <1>6, HomeAssumption DEF Listed, c
<1>14. EndedOK(l2, n2, st, rn)
  BY <1>1, <1>2, <1>13 DEF EndedOK
<1>15. PollsOK(l2, n2, st)
  BY <1>1, <1>12 DEF PollsOK
<1> QED BY <1>1, <1>7, <1>8, <1>9, <1>10, <1>11, <1>12, <1>13, <1>14, <1>15
       DEF OrderOK, OthersListed, c

\* What adding, merging and erasing do to the line of a pipeline.
LEMMA LineTypes ==
  ASSUME ListsOK
  PROVE  /\ \A p \in Pipelines : Line[p] \in Seq(Tasks) /\ Len(Line[p]) = Size[p]
         /\ Size \in [Pipelines -> Nat]
         /\ \A p \in Pipelines : Size[p] >= Len(callbacks[p]) /\ Len(callbacks[p]) \in Nat
         /\ \A p \in Pipelines :
              \A i \in 1 .. Len(callbacks[p]) : Line[p][i] = callbacks[p][i]
<1>1. ASSUME NEW p \in Pipelines
      PROVE  /\ Line[p] \in Seq(Tasks) /\ Len(Line[p]) \in Nat
             /\ Len(callbacks[p]) \in Nat /\ Len(Line[p]) >= Len(callbacks[p])
             /\ \A i \in 1 .. Len(callbacks[p]) : Line[p][i] = callbacks[p][i]
  <2> DEFINE c == callbacks[p]
             w == newCallbacks[p]
  <2>1. c \in Seq(Tasks) /\ w \in Seq(Tasks) /\ Line[p] = c \o w
    BY DEF ListsOK, Line, LineOf
  <2>2. Len(c) \in Nat /\ Len(w) \in Nat
    BY <2>1
  <2> HIDE DEF c, w
  <2>3. /\ c \o w \in Seq(Tasks) /\ Len(c \o w) = Len(c) + Len(w)
        /\ \A i \in 1 .. Len(c) + Len(w) :
             (c \o w)[i] = IF i <= Len(c) THEN c[i] ELSE w[i - Len(c)]
    BY <2>1, ConcatProperties, Zenon
  <2>4. \A i \in 1 .. Len(c) : i \in 1 .. Len(c) + Len(w) /\ i <= Len(c)
    BY <2>2
  <2>5. \A i \in 1 .. Len(c) : (c \o w)[i] = c[i]
    BY <2>3, <2>4, Zenon
  <2>6. Len(c) + Len(w) \in Nat /\ Len(c) + Len(w) >= Len(c)
    BY <2>2
  <2> QED BY <2>1, <2>2, <2>3, <2>5, <2>6, Zenon DEF c
<1>2. \A p \in Pipelines : Size[p] = Len(Line[p])
  BY DEF Size, SizeOf, Line
<1>3. Size \in [Pipelines -> Nat]
  BY <1>1 DEF Size, SizeOf, Line
<1> QED BY <1>1, <1>2, <1>3, Zenon

LEMMA LineAdd ==
  ASSUME ListsOK, NEW t \in Tasks, Add(t), NEW c \in [Pipelines -> Seq(Tasks)], callbacks' = c
  PROVE  /\ SizeOf(c) \in [Pipelines -> Nat]
         /\ Appended(LineOf(c), SizeOf(c), t, Line', Size')
<1> DEFINE l == LineOf(c)
           n == SizeOf(c)
<1>1. ASSUME NEW p \in Pipelines
      PROVE  /\ l[p] \in Seq(Tasks) /\ n[p] = Len(l[p]) /\ n[p] \in Nat
             /\ Line'[p] = IF p = Home[t] THEN Append(l[p], t) ELSE l[p]
  <2>1. newCallbacks[p] \in Seq(Tasks) /\ c[p] \in Seq(Tasks)
    BY DEF ListsOK
  <2>2. newCallbacks'[p] = IF p = Home[t] THEN Append(newCallbacks[p], t) ELSE newCallbacks[p]
    BY DEF ListsOK, Add
  <2>3. Line'[p] = c[p] \o newCallbacks'[p] /\ l[p] = c[p] \o newCallbacks[p]
    BY DEF Line, LineOf
  <2>4. c[p] \o Append(newCallbacks[p], t) = Append(c[p] \o newCallbacks[p], t)
    BY <2>1
  <2>5. l[p] \in Seq(Tasks) /\ n[p] = Len(l[p])
    <3>1. l[p] \in Seq(Tasks)
      BY <2>1, <2>3
    <3>2. n[p] = Len(l[p])
      BY DEF SizeOf
    <3> QED BY <3>1, <3>2
  <2> HIDE DEF l, n
  <2>6. n[p] \in Nat
    BY <2>5
  <2>7. Line'[p] = IF p = Home[t] THEN Append(l[p], t) ELSE l[p]
    BY <2>2, <2>3, <2>4, Zenon
  <2> QED BY <2>5, <2>6, <2>7
<1>2. n = [q \in Pipelines |-> n[q]] /\ Size' = [q \in Pipelines |-> Size'[q]]
      /\ \A q \in Pipelines : Size'[q] = Len(Line'[q])
  BY DEF SizeOf, Size, Line
<1> HIDE DEF l, n
<1>3. ASSUME NEW p \in Pipelines
      PROVE  /\ Size'[p] = IF p = Home[t] THEN n[Home[t]] + 1 ELSE n[p]
             /\ \A i \in 1 .. n[p] : Line'[p][i] = l[p][i]
             /\ p = Home[t] => Line'[p][n[p] + 1] = t
  <2>1. Size'[p] = Len(Line'[p])
    BY <1>2
  <2>2. CASE p = Home[t]
    <3>1. /\ Len(Append(l[p], t)) = Len(l[p]) + 1 /\ Append(l[p], t)[Len(l[p]) + 1] = t
          /\ \A i \in 1 .. Len(l[p]) : Append(l[p], t)[i] = l[p][i]
      BY <1>1, AppendProperties
    <3>2. Line'[p] = Append(l[p], t) /\ n[p] = Len(l[p])
      BY <1>1, <2>2
    <3>3. Size'[p] = n[p] + 1
      BY <2>1, <3>1, <3>2, Zenon
    <3>4. \A i \in 1 .. n[p] : Line'[p][i] = l[p][i]
      BY <3>1, <3>2, Zenon
    <3>5. Line'[p][n[p] + 1] = t
      BY <3>1, <3>2, Zenon
    <3> QED BY <2>2, <3>3, <3>4, <3>5
  <2>3. CASE p # Home[t]
    BY <1>1, <2>1, <2>3, Zenon
  <2> QED BY <2>2, <2>3
<1>4. n \in [Pipelines -> Nat]
  BY <1>1, <1>2
<1>5. Size' = [n EXCEPT ![Home[t]] = n[Home[t]] + 1]
  BY <1>2, <1>3, HomeAssumption, UpdatedAt
<1> QED BY <1>3, <1>4, <1>5, HomeAssumption DEF l, n, Appended

LEMMA LineErase ==
  ASSUME ListsOK, NEW p \in Pipelines, InPass(p)
  PROVE  /\ Erased(p) \in [Pipelines -> Seq(Tasks)]
         /\ Without(Line, Size, p, iter[p], LineOf(Erased(p)), SizeOf(Erased(p)))
<1> DEFINE c == Erased(p)
           l == LineOf(c)
           n == SizeOf(c)
           s == callbacks[p]
           w == newCallbacks[p]
           k == iter[p]
<1>1. s \in Seq(Tasks) /\ w \in Seq(Tasks) /\ k \in 1 .. Len(s)
  BY DEF ListsOK, InPass
<1>2. c \in [Pipelines -> Seq(Tasks)] /\ c[p] = RemoveAt(s, k)
      /\ \A q \in Pipelines : q # p => c[q] = callbacks[q]
  BY ListTypes DEF ListsOK, Erased
<1>3. /\ l[p] = RemoveAt(s, k) \o w /\ Line[p] = s \o w
      /\ \A q \in Pipelines : q # p => l[q] = Line[q]
  BY <1>2 DEF Line, LineOf
<1>4. /\ \A q \in Pipelines : n[q] = Len(l[q]) /\ Size[q] = Len(Line[q])
      /\ n = [q \in Pipelines |-> n[q]] /\ Size = [q \in Pipelines |-> Size[q]]
  BY DEF Size, SizeOf, Line
<1> HIDE DEF c, l, n, s, w, k
<1>5. /\ Len(RemoveAt(s, k) \o w) = Len(s \o w) - 1
      /\ \A i \in 1 .. Len(s \o w) - 1 :
           (RemoveAt(s, k) \o w)[i] = IF i < k THEN (s \o w)[i] ELSE (s \o w)[i + 1]
  BY <1>1, RemoveAtConcat, Zenon
<1>6. /\ Len(l[p]) = Len(Line[p]) - 1
      /\ \A i \in 1 .. Len(Line[p]) - 1 :
           l[p][i] = IF i < k THEN Line[p][i] ELSE Line[p][i + 1]
  BY <1>3, <1>5, Zenon
<1>7. \A q \in Pipelines : n[q] = IF q = p THEN Size[p] - 1 ELSE Size[q]
  <2> SUFFICES ASSUME NEW q \in Pipelines
               PROVE  n[q] = IF q = p THEN Size[p] - 1 ELSE Size[q]
    OBVIOUS
  <2>1. n[q] = Len(l[q]) /\ Size[q] = Len(Line[q])
    BY <1>4, Zenon
  <2>2. CASE q = p
    BY <1>6, <2>1, <2>2, Zenon
  <2>3. CASE q # p
    BY <1>3, <2>1, <2>3, Zenon
  <2> QED BY <2>2, <2>3
<1>8. n = [Size EXCEPT ![p] = Size[p] - 1]
  BY <1>4, <1>7, UpdatedAt
<1>9. \A i \in 1 .. Size[p] - 1 : l[p][i] = IF i < k THEN Line[p][i] ELSE Line[p][i + 1]
  BY <1>4, <1>6, Zenon
<1> QED BY <1>2, <1>3, <1>8, <1>9, Zenon DEF c, l, n, k, Without

LEMMA LineMerge ==
  ASSUME ListsOK, NEW p \in Pipelines, Merge(p)
  PROVE  Line' = Line /\ Size' = Size
<1>1. ASSUME NEW q \in Pipelines
      PROVE  callbacks'[q] \o newCallbacks'[q] = callbacks[q] \o newCallbacks[q]
  <2>1. callbacks[q] \in Seq(Tasks) /\ newCallbacks[q] \in Seq(Tasks)
    BY DEF ListsOK
  <2>2. CASE q = p
    <3>1. callbacks'[q] = callbacks[q] \o newCallbacks[q] /\ newCallbacks'[q] = <<>>
      BY <2>2 DEF Merge, ListsOK
    <3>2. (callbacks[q] \o newCallbacks[q]) \o <<>> = callbacks[q] \o newCallbacks[q]
      BY <2>1
    <3> QED BY <3>1, <3>2, Zenon
  <2>3. CASE q # p
    BY <2>3 DEF Merge, ListsOK
  <2> QED BY <2>2, <2>3
<1>2. Line' = Line
  BY <1>1, Zenon DEF Line, LineOf
<1> QED BY <1>2, Zenon DEF Size, SizeOf, Line

LEMMA LineKept ==
  ASSUME UNCHANGED lists
  PROVE  Line' = Line /\ Size' = Size
BY DEF lists, Line, Size, LineOf, SizeOf

LEMMA ParamsHold == TypeOK => ParamsOK(Size, iter, busy, stamp, runs)
<1> SUFFICES ASSUME TypeOK PROVE ParamsOK(Size, iter, busy, stamp, runs)
  OBVIOUS
<1>1. Size \in [Pipelines -> Nat]
  BY LineTypes DEF TypeOK
<1>2. iter \in [Pipelines -> Nat] /\ busy \subseteq Pipelines
  BY DEF TypeOK, ScanOK
<1>3. stamp \in [Tasks -> Nat] /\ runs \in [Tasks -> Nat]
  BY DEF TypeOK, TasksOK, MaxRuns
<1> QED BY <1>1, <1>2, <1>3 DEF ParamsOK

LEMMA IterInLine ==
  ASSUME TypeOK, NEW p \in Pipelines
  PROVE  iter[p] <= Size[p] + 1
<1>1. Size[p] \in Nat /\ Size[p] >= Len(callbacks[p]) /\ Len(callbacks[p]) \in Nat
  BY LineTypes DEF TypeOK
<1>2. iter[p] \in Nat /\ iter[p] <= Len(callbacks[p]) + 1
  BY DEF TypeOK, ScanOK
<1> DEFINE n == Len(callbacks[p])
<1> HIDE DEF n
<1>3. Size[p] \in Nat /\ Size[p] >= n /\ n \in Nat /\ iter[p] \in Nat /\ iter[p] <= n + 1
  BY <1>1, <1>2 DEF n
<1> QED BY <1>3

LEMMA OrderInit == Init => OrderInv
<1> SUFFICES ASSUME Init PROVE OrderInv
  OBVIOUS
<1>1. \A p \in Pipelines : Size[p] = 0
  <2>1. \A p \in Pipelines : callbacks[p] \o newCallbacks[p] = <<>>
    BY DEF Init
  <2>2. \A p \in Pipelines : Size[p] = Len(callbacks[p] \o newCallbacks[p])
    BY DEF Size, SizeOf, LineOf
  <2>3. \A p \in Pipelines : Size[p] = Len(<<>>)
    BY <2>1, <2>2, Zenon
  <2> QED BY <2>3
<1>2. busy = {} /\ \A t \in Tasks : stamp[t] = 0 /\ runs[t] = 0
  BY DEF Init
<1>3. MembersOK(Line, Size, stamp) /\ SortedOK(Line, Size, stamp)
      /\ ScannedOK(Line, Size, iter, runs)
  BY <1>1 DEF MembersOK, SortedOK, ScannedOK
<1>4. RunningOK(Line, Size, iter, busy, runs) /\ EndedOK(Line, Size, stamp, runs)
      /\ BornOK(stamp, runs) /\ InOrder(stamp, runs)
  BY <1>2 DEF RunningOK, EndedOK, BornOK, InOrder
<1>5. PollsOK(Line, Size, stamp)
  BY <1>2, InnerAssumption DEF PollsOK
<1> QED BY <1>3, <1>4, <1>5 DEF OrderInv, OrderOK

\* The handler at the iterator returns: a poll whose game is ready leaves the
\* line and puts its once, which it has not scheduled before, at the end.
LEMMA OrderReturn ==
  ASSUME TypeOK, OrderInv, NEW p \in Pipelines, Return(p)
  PROVE  OrderInv'
<1> DEFINE c == Current(p)
<1>1. ParamsOK(Size, iter, busy, stamp, runs) /\ OrderOK(Line, Size, iter, busy, stamp, runs)
      /\ ListsOK /\ iter \in [Pipelines -> Nat] /\ born \in Nat
  BY ParamsHold DEF OrderInv, TypeOK, ScanOK, TasksOK
<1>2. p \in busy /\ InPass(p) /\ busy' = busy \ {p} /\ runs' = runs
  BY DEF Return, TypeOK, ScanOK
<1>3. c = Line[p][iter[p]] /\ iter[p] \in 1 .. Size[p] /\ runs[c] > 0 /\ c \in Tasks /\ stamp[c] > 0
      /\ Home[c] = p
  <2>1. c = Line[p][iter[p]]
    BY <1>1, <1>2, LineTypes DEF InPass, Current
  <2>2. iter[p] \in 1 .. Size[p] /\ runs[Line[p][iter[p]]] > 0
    BY <1>1, <1>2 DEF OrderOK, RunningOK
  <2>3. Line[p][iter[p]] \in Tasks /\ stamp[Line[p][iter[p]]] > 0 /\ Home[Line[p][iter[p]]] = p
    BY <1>1, <2>2 DEF OrderOK, MembersOK
  <2> QED BY <2>1, <2>2, <2>3
<1> HIDE DEF c
<1>4. CASE Continue(p)
  <2>1. /\ iter' = [iter EXCEPT ![p] = iter[p] + 1] /\ UNCHANGED <<lists, stamp>>
        /\ iter[p] + 1 \in Nat
    BY <1>1, <1>4 DEF Continue
  <2>2. OrderOK(Line, Size, [iter EXCEPT ![p] = iter[p] + 1], busy \ {p}, stamp, runs)
    BY <1>1, <1>3, <2>1, MoveKeepsOrder
  <2> QED BY <1>2, <2>1, <2>2, LineKept DEF OrderInv
<1> DEFINE l == LineOf(Erased(p))
           n == SizeOf(Erased(p))
<1>5. /\ OrderOK(l, n, iter, busy \ {p}, stamp, runs) /\ ~Listed(c, l, n)
      /\ Erased(p) \in [Pipelines -> Seq(Tasks)]
      /\ n = [Size EXCEPT ![p] = Size[p] - 1]
  <2>1. /\ Erased(p) \in [Pipelines -> Seq(Tasks)]
        /\ Without(Line, Size, p, iter[p], l, n)
    BY <1>1, <1>2, LineErase
  <2> HIDE DEF l, n
  <2>2. /\ OrderOK(l, n, iter, busy \ {p}, stamp, runs)
        /\ ~Listed(Line[p][iter[p]], l, n)
        /\ OthersListed(Line[p][iter[p]], Line, Size, l, n)
    BY <1>1, <1>2, <2>1, EraseKeepsOrder, Zenon
  <2>3. n = [Size EXCEPT ![p] = Size[p] - 1]
    BY <2>1 DEF Without
  <2> QED BY <1>3, <2>1, <2>2, <2>3
<1>6. Finish(p) => callbacks' = Erased(p) /\ iter' = iter
  BY DEF Finish, Erased
<1>7. CASE Finish(p) /\ UNCHANGED <<newCallbacks, born, stamp>>
  <2>1. Line' = l /\ Size' = n
    BY <1>6, <1>7 DEF Line, Size, LineOf, SizeOf
  <2> QED BY <1>2, <1>5, <1>6, <1>7, <2>1 DEF OrderInv
<1>8. CASE Kind[c] = "poll" /\ Add(Inner[c]) /\ Finish(p)
  <2> DEFINE t == Inner[c]
  <2>1. t \in Tasks /\ Home[t] \in Pipelines
    BY <1>3, <1>8, InnerAssumption, HomeAssumption
  <2>2. stamp' = [stamp EXCEPT ![t] = born + 1] /\ \A u \in Tasks : stamp[u] <= born
    BY <1>8 DEF Add, TypeOK, TasksOK
  <2>3. stamp[t] = 0
    <3>1. Listed(c, Line, Size)
      BY <1>3 DEF Listed
    <3> QED BY <1>1, <1>3, <1>8, <3>1 DEF OrderOK, PollsOK
  <2>4. \A q \in Tasks : Kind[q] = "poll" /\ Inner[q] = t => stamp[q] > 0 /\ ~Listed(q, l, n)
    BY <1>3, <1>5, <1>8, InnerAssumption
  <2>5. /\ n \in [Pipelines -> Nat]
        /\ Appended(l, n, t, Line', Size')
    BY <1>1, <1>5, <1>6, <1>8, <2>1, LineAdd
  <2>6. iter[Home[t]] <= n[Home[t]] + 1
    <3> HIDE DEF l, n, t
    <3>1. iter[Home[t]] <= Size[Home[t]] + 1 /\ Size \in [Pipelines -> Nat]
      BY <1>1, <2>1, IterInLine DEF ParamsOK
    <3>2. iter[p] <= Size[p]
      BY <1>1, <1>3, <3>1
    <3>3. CASE Home[t] = p
      BY <1>1, <1>3, <1>5, <2>1, <3>1, <3>2, <3>3
    <3>4. CASE Home[t] # p
      BY <1>1, <1>5, <2>1, <3>1, <3>4
    <3> QED BY <3>3, <3>4
  <2>7. ParamsOK(n, iter, busy \ {p}, stamp, runs)
    BY <1>1, <2>5 DEF ParamsOK
  <2> HIDE DEF l, n, t
  <2>8. OrderOK(Line', Size', iter, busy \ {p}, [stamp EXCEPT ![t] = born + 1], runs)
    BY <1>1, <1>5, <2>1, <2>2, <2>3, <2>4, <2>5, <2>6, <2>7, AddKeepsOrder, Zenon
  <2> QED BY <1>2, <1>6, <1>8, <2>2, <2>8 DEF OrderInv
<1> QED BY <1>4, <1>7, <1>8 DEF Return, c

LEMMA OrderStep == TypeOK /\ OrderInv /\ [Next]_vars => OrderInv'
<1> SUFFICES ASSUME TypeOK, OrderInv, [Next]_vars PROVE OrderInv'
  OBVIOUS
<1>0. ParamsOK(Size, iter, busy, stamp, runs) /\ OrderOK(Line, Size, iter, busy, stamp, runs)
      /\ ListsOK /\ iter \in [Pipelines -> Nat] /\ born \in Nat /\ busy \subseteq Pipelines
      /\ \A q \in busy : InPass(q)
  BY ParamsHold DEF OrderInv, TypeOK, ScanOK, TasksOK
<1>1. ASSUME NEW t \in Tasks, Schedule(t) PROVE OrderInv'
  <2>1. /\ stamp[t] = 0 /\ Add(t) /\ UNCHANGED <<callbacks, iter, busy, runs>>
        /\ \A q \in Tasks : Kind[q] = "poll" => Inner[q] # t
    BY <1>1 DEF Schedule
  <2>2. stamp' = [stamp EXCEPT ![t] = born + 1] /\ \A u \in Tasks : stamp[u] <= born
    BY <2>1 DEF Add, TypeOK, TasksOK
  <2>3. Appended(Line, Size, t, Line', Size')
    BY <1>0, <2>1, LineAdd DEF Line, Size, ListsOK
  <2>4. iter[Home[t]] <= Size[Home[t]] + 1
    BY HomeAssumption, IterInLine
  <2>5. OrderOK(Line', Size', iter, busy, [stamp EXCEPT ![t] = born + 1], runs)
    BY <1>0, <2>1, <2>2, <2>3, <2>4, AddKeepsOrder, Zenon
  <2> QED BY <2>1, <2>2, <2>5 DEF OrderInv
<1>2. ASSUME NEW p \in Pipelines, BeginPass(p) PROVE OrderInv'
  <2>1. /\ iter[p] = 0 /\ Merge(p) /\ iter' = [iter EXCEPT ![p] = 1]
        /\ UNCHANGED <<busy, stamp, runs>>
    BY <1>2 DEF BeginPass
  <2>2. busy \ {p} = busy
    BY <1>0, <2>1 DEF InPass
  <2>3. OrderOK(Line, Size, [iter EXCEPT ![p] = 1], busy \ {p}, stamp, runs)
    <3>1. 0 \in Nat /\ 1 \in Nat /\ 0 <= 1 /\ 1 <= 1
      OBVIOUS
    <3> QED BY <1>0, <3>1, MoveKeepsOrder, Zenon
  <2> QED BY <1>0, <2>1, <2>2, <2>3, LineMerge DEF OrderInv
<1>3. ASSUME NEW p \in Pipelines, Skip(p) PROVE OrderInv'
  <2>1. /\ InPass(p) /\ busy \ {p} = busy /\ elapsed[Current(p)] < Interval[Current(p)]
        /\ iter' = [iter EXCEPT ![p] = iter[p] + 1] /\ UNCHANGED <<lists, busy, stamp, runs>>
    BY <1>3 DEF Skip, history
  <2>2. iter[p] \in 1 .. Size[p] /\ Current(p) = Line[p][iter[p]] /\ iter[p] + 1 \in Nat
    BY <1>0, <2>1, LineTypes DEF InPass, Current
  <2>3. Interval[Line[p][iter[p]]] # 0
    <3>1. Current(p) \in Tasks
      BY <1>0, <2>1, ListTypes
    <3>2. elapsed[Current(p)] \in Nat
      BY <3>1 DEF TypeOK, TasksOK
    <3> QED BY <2>1, <2>2, <3>2
  <2>4. OrderOK(Line, Size, [iter EXCEPT ![p] = iter[p] + 1], busy \ {p}, stamp, runs)
    BY <1>0, <2>2, <2>3, MoveKeepsOrder
  <2> QED BY <2>1, <2>4, LineKept DEF OrderInv
<1>4. ASSUME NEW p \in Pipelines, Run(p) PROVE OrderInv'
  <2>1. /\ InPass(p) /\ busy' = busy \cup {p} /\ UNCHANGED <<lists, iter, stamp>>
        /\ runs' = [runs EXCEPT ![Current(p)] = IF @ < MaxRuns THEN @ + 1 ELSE @]
    BY <1>4 DEF Run
  <2>2. iter[p] \in 1 .. Size[p] /\ Current(p) = Line[p][iter[p]]
    BY <1>0, <2>1, LineTypes DEF InPass, Current
  <2>3. Current(p) \in Tasks /\ runs \in [Tasks -> 0 .. MaxRuns]
    BY <1>0, <2>1, ListTypes DEF TypeOK, TasksOK
  <2>4. /\ runs' \in [Tasks -> Nat] /\ runs'[Current(p)] > 0
        /\ \A t \in Tasks : runs'[t] >= runs[t]
        /\ \A t \in Tasks : t # Current(p) => runs'[t] = runs[t]
    BY <2>1, <2>3 DEF MaxRuns
  <2>5. OrderOK(Line, Size, iter, busy \cup {p}, stamp, runs')
    BY <1>0, <2>2, <2>4, RunKeepsOrder
  <2> QED BY <2>1, <2>5, LineKept DEF OrderInv
<1>5. ASSUME NEW p \in Pipelines, Return(p) PROVE OrderInv'
  BY <1>5, OrderReturn
<1>6. ASSUME NEW p \in Pipelines, EndPass(p) PROVE OrderInv'
  <2>1. /\ iter[p] = Len(callbacks[p]) + 1 /\ iter' = [iter EXCEPT ![p] = 0]
        /\ UNCHANGED <<lists, busy, stamp, runs>>
    BY <1>6 DEF EndPass
  <2>2. busy \ {p} = busy
    <3>1. Len(callbacks[p]) \in Nat
      BY <1>0, ListTypes
    <3> QED BY <1>0, <2>1, <3>1 DEF InPass
  <2>3. OrderOK(Line, Size, [iter EXCEPT ![p] = 0], busy \ {p}, stamp, runs)
    <3>1. 0 \in Nat /\ 1 \in Nat /\ 0 <= 1 /\ 1 <= 1
      OBVIOUS
    <3> QED BY <1>0, <3>1, MoveKeepsOrder, Zenon
  <2> QED BY <2>1, <2>2, <2>3, LineKept DEF OrderInv
<1>7. CASE OtherStep
  <2>1. UNCHANGED <<lists, iter, busy, stamp, runs>>
    BY <1>7 DEF OtherStep, PostStart, TestKill, PreDestroy, Join, Tick, GameChanges,
       vars, history
  <2> QED BY <1>0, <2>1, LineKept DEF OrderInv
<1> QED BY <1>1, <1>2, <1>3, <1>4, <1>5, <1>6, <1>7, NextCases DEF PassStep

LEMMA OrderImplies == TypeOK /\ OrderInv => UndelayedInOrder
<1> SUFFICES ASSUME TypeOK, OrderInv, NEW t \in Tasks, NEW u \in Tasks,
                    Home[t] = Home[u], Interval[u] = 0, stamp[u] \in 1 .. stamp[t] - 1,
                    runs[t] > 0
             PROVE  runs[u] > 0
  BY DEF UndelayedInOrder
<1>1. stamp \in [Tasks -> 0 .. born] /\ born \in Nat
  BY DEF TypeOK, TasksOK
<1>2. stamp[u] > 0 /\ stamp[u] < stamp[t]
  BY <1>1
<1> QED BY <1>2 DEF OrderInv, OrderOK, InOrder

\* A task scheduled without delay starts before everything that is scheduled
\* after it on its pipeline, whatever the other threads and the delays do.
THEOREM UndelayedTasksInOrder == Spec => []UndelayedInOrder
<1>1. Init => TypeOK /\ OrderInv
  BY TypeInit, OrderInit
<1>2. TypeOK /\ OrderInv /\ [Next]_vars => (TypeOK /\ OrderInv)'
  BY TypeStep, OrderStep
<1> QED BY <1>1, <1>2, OrderImplies, PTL DEF Spec

(***************************************************************************)
(* A pass runs its batch                                                   *)
(***************************************************************************)

\* The merge happens once a pass, so the tasks scanned are those it found.
BatchInv ==
  \A p \in Pipelines : iter[p] > 0 =>
    \A i \in 1 .. Len(callbacks[p]) : callbacks[p][i] \in batch[p]

LEMMA BatchStep == TypeOK /\ BatchInv /\ [Next]_vars => BatchInv'
<1> SUFFICES ASSUME TypeOK, BatchInv, [Next]_vars PROVE BatchInv'
  OBVIOUS
<1>0. /\ ListsOK /\ iter \in [Pipelines -> Nat] /\ batch \in [Pipelines -> SUBSET Tasks]
      /\ \A q \in busy : InPass(q)
  BY DEF TypeOK, ScanOK
<1>1. ASSUME UNCHANGED <<callbacks, batch>>,
             \A q \in Pipelines : iter'[q] > 0 => iter[q] > 0
      PROVE  BatchInv'
  BY <1>1 DEF BatchInv
<1>2. ASSUME NEW t \in Tasks, Schedule(t) PROVE BatchInv'
  BY <1>1, <1>2 DEF Schedule
<1>3. ASSUME NEW p \in Pipelines, BeginPass(p) PROVE BatchInv'
  <2>1. /\ iter' = [iter EXCEPT ![p] = 1]
        /\ batch' = [batch EXCEPT ![p] = ToSet(callbacks'[p])]
        /\ \A q \in Pipelines : q # p => callbacks'[q] = callbacks[q]
    BY <1>0, <1>3 DEF BeginPass, Merge, ListsOK
  <2>2. \A i \in 1 .. Len(callbacks'[p]) : callbacks'[p][i] \in ToSet(callbacks'[p])
    BY DEF ToSet
  <2>3. batch'[p] = ToSet(callbacks'[p])
    BY <1>0, <2>1
  <2>4. \A q \in Pipelines : q # p => iter'[q] = iter[q] /\ batch'[q] = batch[q]
    BY <1>0, <2>1
  <2> SUFFICES ASSUME NEW q \in Pipelines, iter'[q] > 0,
                      NEW i \in 1 .. Len(callbacks'[q])
               PROVE  callbacks'[q][i] \in batch'[q]
    BY DEF BatchInv
  <2>5. CASE q = p
    BY <2>2, <2>3, <2>5
  <2>6. CASE q # p
    <3>1. iter[q] > 0 /\ i \in 1 .. Len(callbacks[q])
      BY <2>1, <2>4, <2>6
    <3> QED BY <2>1, <2>4, <2>6, <3>1 DEF BatchInv
  <2> QED BY <2>5, <2>6
<1>4. ASSUME NEW p \in Pipelines, Skip(p) PROVE BatchInv'
  <2>1. iter' = [iter EXCEPT ![p] = @ + 1] /\ iter[p] > 0 /\ UNCHANGED <<callbacks, batch>>
    BY <1>0, <1>4 DEF Skip, InPass, lists, history
  <2> QED BY <1>0, <1>1, <2>1
<1>5. ASSUME NEW p \in Pipelines, Run(p) PROVE BatchInv'
  BY <1>1, <1>5 DEF Run, lists
<1>6. ASSUME NEW p \in Pipelines, Return(p) PROVE BatchInv'
  <2>1. InPass(p) /\ iter[p] > 0 /\ batch' = batch
    BY <1>0, <1>6 DEF Return, InPass
  <2>2. CASE Continue(p)
    <3>1. iter' = [iter EXCEPT ![p] = @ + 1] /\ UNCHANGED callbacks
      BY <2>2 DEF Continue, lists
    <3> QED BY <1>0, <1>1, <2>1, <3>1
  <2>3. CASE Finish(p)
    <3> DEFINE k == iter[p]
               s == callbacks[p]
    <3>1. s \in Seq(Tasks) /\ k \in 1 .. Len(s) /\ iter' = iter
          /\ callbacks' = [callbacks EXCEPT ![p] = RemoveAt(s, k)]
      BY <1>0, <2>1, <2>3 DEF Finish, ListsOK, InPass
    <3>2. \A i \in 1 .. Len(s) : s[i] \in batch[p]
      BY <2>1 DEF BatchInv
    <3>3. callbacks'[p] = RemoveAt(s, k)
          /\ \A q \in Pipelines : q # p => callbacks'[q] = callbacks[q]
      BY <1>0, <3>1 DEF ListsOK
    <3>4. Len(s) \in Nat
      BY <3>1
    <3> HIDE DEF s, k
    <3>5. \A i \in 1 .. Len(RemoveAt(s, k)) : RemoveAt(s, k)[i] \in batch[p]
      <4>1. /\ Len(RemoveAt(s, k)) = Len(s) - 1
            /\ \A i \in 1 .. Len(s) - 1 :
                 RemoveAt(s, k)[i] = IF i < k THEN s[i] ELSE s[i + 1]
        BY <3>1, RemoveAtIndices, Zenon
      <4> DEFINE n == Len(s)
                 r == RemoveAt(s, k)
      <4>2. \A i \in 1 .. n - 1 : r[i] = IF i < k THEN s[i] ELSE s[i + 1]
        BY <4>1
      <4>3. Len(r) = n - 1 /\ n \in Nat /\ \A i \in 1 .. n : s[i] \in batch[p]
        BY <3>2, <3>4, <4>1
      <4> HIDE DEF n, r
      <4>4. \A i \in 1 .. Len(r) : r[i] \in batch[p]
        BY <4>2, <4>3
      <4> QED BY <4>4 DEF r
    <3> SUFFICES ASSUME NEW q \in Pipelines, iter'[q] > 0,
                        NEW i \in 1 .. Len(callbacks'[q])
                 PROVE  callbacks'[q][i] \in batch'[q]
      BY DEF BatchInv
    <3>6. CASE q = p
      BY <2>1, <3>3, <3>5, <3>6
    <3>7. CASE q # p
      <4>1. iter[q] > 0 /\ i \in 1 .. Len(callbacks[q])
        BY <3>1, <3>3, <3>7
      <4> QED BY <2>1, <3>3, <3>7, <4>1 DEF BatchInv
    <3> QED BY <3>6, <3>7
  <2> QED BY <1>6, <2>2, <2>3 DEF Return
<1>7. ASSUME NEW p \in Pipelines, EndPass(p) PROVE BatchInv'
  <2>1. /\ UNCHANGED callbacks /\ iter' = [iter EXCEPT ![p] = 0]
        /\ batch' = [batch EXCEPT ![p] = {}]
    BY <1>7 DEF EndPass, lists
  <2>2. \A q \in Pipelines : IF q = p THEN iter'[q] = 0
                             ELSE iter'[q] = iter[q] /\ batch'[q] = batch[q]
    BY <1>0, <2>1
  <2> QED BY <2>1, <2>2 DEF BatchInv
<1>8. CASE OtherStep
  <2>1. UNCHANGED <<callbacks, iter, batch>>
    BY <1>8 DEF OtherStep, PostStart, TestKill, PreDestroy, Join, Tick, GameChanges,
       vars, lists, history
  <2> QED BY <1>1, <2>1
<1> QED BY <1>2, <1>3, <1>4, <1>5, <1>6, <1>7, <1>8, NextCases DEF PassStep

\* A pass runs only tasks it found after its merge: what a handler schedules
\* waits for the next one, however often it schedules itself again.
THEOREM PassRunsOnlyItsBatch == Spec => []PassRunsItsBatch
<1>1. Init => TypeOK /\ BatchInv
  BY TypeInit DEF Init, BatchInv
<1>2. TypeOK /\ BatchInv /\ [Next]_vars => (TypeOK /\ BatchInv)'
  BY TypeStep, BatchStep
<1>3. TypeOK /\ BatchInv => PassRunsItsBatch
  <2> SUFFICES ASSUME TypeOK, BatchInv, NEW p \in busy PROVE Current(p) \in batch[p]
    BY DEF PassRunsItsBatch
  <2>1. iter[p] > 0 /\ iter[p] \in 1 .. Len(callbacks[p]) /\ p \in Pipelines
    BY DEF TypeOK, ScanOK, InPass
  <2> QED BY <2>1 DEF BatchInv, Current
<1> QED BY <1>1, <1>2, <1>3, PTL DEF Spec

(***************************************************************************)
(* The scheduler keeps its promise                                         *)
(*                                                                         *)
(* The phase of a task is a function of the line of its pipeline, the      *)
(* iterator and the running pipelines. Each step of the scheduler changes  *)
(* the phase of at most one task (of two when a poll ends), which is the   *)
(* step of the promise; a merge, a skipped task and the end of a pass      *)
(* change none.                                                            *)
(***************************************************************************)
Phase == [t \in Tasks |-> PhaseOf(t)]
Started == {t \in Tasks : runs[t] > 0}

RunningIn(t, l, it, bz) == \E p \in bz : l[p][it[p]] = t

PhaseIn(t, l, n, it, bz, st) ==
  IF st[t] = 0 THEN "unborn"
  ELSE IF RunningIn(t, l, it, bz) THEN "running"
  ELSE IF Listed(t, l, n) THEN "waiting" ELSE "ended"

LinePhase(t) == PhaseIn(t, Line, Size, iter, busy, stamp)

\* Between two states the phase of t becomes v and the others stay.
OnlyChange(t, v, l, n, it, bz, st, l2, n2, it2, bz2, st2) ==
  \A u \in Tasks : PhaseIn(u, l2, n2, it2, bz2, st2)
                     = IF u = t THEN v ELSE PhaseIn(u, l, n, it, bz, st)

NoChange(l, n, it, bz, st, l2, n2, it2, bz2, st2) ==
  \A u \in Tasks : PhaseIn(u, l2, n2, it2, bz2, st2) = PhaseIn(u, l, n, it, bz, st)

PhaseIsLine == \A t \in Tasks : PhaseOf(t) = LinePhase(t)

\* The async thread holds its lists only in a pass, and once joined it has no
\* pass any more: no thread is started after kill.
AsyncInv ==
  /\ "async" \in Pipelines /\ iter["async"] > 0 => thread = "pass"
  /\ joined => kill /\ thread \in {"none", "exited"}

LEMMA AsyncStep == TypeOK /\ AsyncInv /\ [Next]_vars => AsyncInv'
<1> SUFFICES ASSUME TypeOK, AsyncInv, [Next]_vars PROVE AsyncInv'
  OBVIOUS
<1>0. iter \in [Pipelines -> Nat] /\ \A p \in busy : InPass(p)
  BY DEF TypeOK, ScanOK
<1>1. ASSUME UNCHANGED <<kill, thread, joined>>, \A p \in Pipelines : iter[p] = 0 => iter'[p] = 0
      PROVE  AsyncInv'
  BY <1>0, <1>1 DEF AsyncInv
<1>2. ASSUME NEW t \in Tasks, Schedule(t) PROVE AsyncInv'
  BY <1>1, <1>2 DEF Schedule, asyncVars
<1>3. ASSUME NEW p \in Pipelines, BeginPass(p) PROVE AsyncInv'
  <2>1. /\ p = "async" => thread = "pass"
        /\ iter' = [iter EXCEPT ![p] = 1] /\ UNCHANGED <<kill, thread, joined>>
    BY <1>3 DEF BeginPass, asyncVars
  <2> QED BY <1>0, <2>1 DEF AsyncInv
<1>4. ASSUME NEW p \in Pipelines, Skip(p) \/ Run(p) \/ Return(p) PROVE AsyncInv'
  <2>1. UNCHANGED <<kill, thread, joined>> /\ InPass(p)
    BY <1>0, <1>4 DEF Skip, Run, Return, asyncVars
  <2>2. iter[p] # 0
    BY <2>1 DEF InPass
  <2>3. \A q \in Pipelines : q # p => iter'[q] = iter[q]
    BY <1>0, <1>4 DEF Skip, Run, Return, Continue, Finish
  <2> QED BY <1>1, <2>1, <2>2, <2>3
<1>5. ASSUME NEW p \in Pipelines, EndPass(p) PROVE AsyncInv'
  <2>1. /\ iter[p] = Len(callbacks[p]) + 1 /\ iter' = [iter EXCEPT ![p] = 0]
        /\ thread' = IF p = "async" THEN "test" ELSE thread
        /\ UNCHANGED <<kill, joined>>
    BY <1>5 DEF EndPass
  <2>2. iter[p] > 0
    <3>1. Len(callbacks[p]) \in Nat
      BY ListTypes DEF TypeOK
    <3> QED BY <2>1, <3>1
  <2> QED BY <1>0, <2>1, <2>2 DEF AsyncInv
<1>6. CASE OtherStep
  <2>1. UNCHANGED iter
    BY <1>6 DEF OtherStep, PostStart, TestKill, PreDestroy, Join, Tick, GameChanges, vars
  <2>2. CASE PostStart \/ TestKill
    BY <2>1, <2>2 DEF PostStart, TestKill, AsyncInv
  <2>3. CASE PreDestroy \/ Join
    BY <2>1, <2>3 DEF PreDestroy, Join, AsyncInv
  <2>4. CASE Tick \/ GameChanges \/ UNCHANGED vars
    BY <2>1, <2>4 DEF Tick, GameChanges, vars, asyncVars, AsyncInv
  <2> QED BY <1>6, <2>2, <2>3, <2>4 DEF OtherStep
<1> QED BY <1>2, <1>3, <1>4, <1>5, <1>6, NextCases DEF PassStep

\* A task is in a list of some pipeline exactly when it is in the line of its
\* own.
LEMMA QueuedIsListed ==
  ASSUME TypeOK, OrderInv, NEW t \in Tasks
  PROVE  Queued(t) <=> Listed(t, Line, Size)
<1>0. ListsOK
  BY DEF TypeOK
<1>1. ASSUME NEW p \in Pipelines
      PROVE  t \in ToSet(newCallbacks[p]) \cup ToSet(callbacks[p])
               <=> \E i \in 1 .. Size[p] : Line[p][i] = t
  <2> DEFINE c == callbacks[p]
             w == newCallbacks[p]
             a == Len(c)
             m == Len(w)
  <2>1. c \in Seq(Tasks) /\ w \in Seq(Tasks) /\ Line[p] = c \o w
    BY <1>0 DEF ListsOK, Line, LineOf
  <2>2. a \in Nat /\ m \in Nat
    BY <2>1
  <2>3. Len(c \o w) = a + m
        /\ \A i \in 1 .. a + m : (c \o w)[i] = IF i <= a THEN c[i] ELSE w[i - a]
    <3> HIDE DEF c, w
    <3> QED BY <2>1, ConcatProperties, Zenon
  <2>4. Size[p] = a + m
    <3>1. Size[p] = Len(Line[p])
      BY DEF Size, SizeOf, Line
    <3> HIDE DEF c, w, a, m
    <3> QED BY <2>1, <2>3, <3>1
  <2>5. /\ t \in ToSet(c) <=> \E i \in 1 .. a : c[i] = t
        /\ t \in ToSet(w) <=> \E i \in 1 .. m : w[i] = t
    BY DEF ToSet
  <2> DEFINE x == c \o w
  <2>6. Line[p] = x /\ \A i \in 1 .. a + m : x[i] = IF i <= a THEN c[i] ELSE w[i - a]
    BY <2>1, <2>3
  <2> HIDE DEF c, w, a, m, x
  <2>7. ASSUME NEW i \in 1 .. a, c[i] = t PROVE \E j \in 1 .. a + m : x[j] = t
    <3>1. i \in 1 .. a + m /\ i <= a
      BY <2>2
    <3> QED BY <2>6, <2>7, <3>1
  <2>8. ASSUME NEW i \in 1 .. m, w[i] = t PROVE \E j \in 1 .. a + m : x[j] = t
    <3>1. i + a \in 1 .. a + m /\ ~(i + a <= a) /\ (i + a) - a = i
      BY <2>2
    <3> QED BY <2>6, <2>8, <3>1
  <2>9. ASSUME NEW j \in 1 .. a + m, x[j] = t
        PROVE  (\E i \in 1 .. a : c[i] = t) \/ \E i \in 1 .. m : w[i] = t
    <3>1. CASE j <= a
      <4>1. j \in 1 .. a
        BY <2>2, <3>1
      <4> QED BY <2>6, <2>9, <3>1, <4>1
    <3>2. CASE ~(j <= a)
      <4>1. j - a \in 1 .. m
        BY <2>2, <3>2
      <4> QED BY <2>6, <2>9, <3>2, <4>1
    <3> QED BY <3>1, <3>2
  <2> QED BY <2>4, <2>5, <2>6, <2>7, <2>8, <2>9 DEF c, w
<1>2. MembersOK(Line, Size, stamp) /\ Home[t] \in Pipelines
  BY HomeAssumption DEF OrderInv, OrderOK
<1> QED BY <1>1, <1>2 DEF Queued, Listed, MembersOK

\* It runs exactly when it stands at the iterator of its line.
LEMMA PhaseByLine == TypeOK /\ OrderInv => PhaseIsLine
<1> SUFFICES ASSUME TypeOK, OrderInv, NEW t \in Tasks PROVE PhaseOf(t) = LinePhase(t)
  BY DEF PhaseIsLine
<1>0. ListsOK /\ busy \subseteq Pipelines /\ \A p \in busy : InPass(p)
  BY DEF TypeOK, ScanOK
<1>1. \A p \in busy : Current(p) = Line[p][iter[p]]
  BY <1>0, LineTypes DEF InPass, Current
<1>2. Running(t) <=> RunningIn(t, Line, iter, busy)
  BY <1>1 DEF Running, RunningIn
<1>3. Queued(t) <=> Listed(t, Line, Size)
  BY QueuedIsListed
<1> QED BY <1>2, <1>3 DEF PhaseOf, LinePhase, PhaseIn

LEMMA PhaseByLineNext == TypeOK' /\ OrderInv' => PhaseIsLine'
BY PhaseByLine, PTL

\* A task put at the end of the line waits, and no other task changes phase.
LEMMA PhaseAdd ==
  ASSUME NEW l, NEW n, NEW it, NEW bz, NEW st, NEW rn, ParamsOK(n, it, bz, st, rn),
         OrderOK(l, n, it, bz, st, rn),
         NEW t \in Tasks, NEW b \in Nat, st[t] = 0,
         NEW l2, NEW n2, Appended(l, n, t, l2, n2)
  PROVE  OnlyChange(t, "waiting", l, n, it, bz, st, l2, n2, it, bz, [st EXCEPT ![t] = b + 1])
<1> DEFINE st2 == [st EXCEPT ![t] = b + 1]
<1>0. /\ n \in [Pipelines -> Nat] /\ bz \subseteq Pipelines /\ st \in [Tasks -> Nat]
      /\ Home[t] \in Pipelines
  BY HomeAssumption DEF ParamsOK
<1>1. MembersOK(l, n, st) /\ RunningOK(l, n, it, bz, rn)
  BY DEF OrderOK
<1>2. \A u \in Tasks : st2[u] = IF u = t THEN b + 1 ELSE st[u]
  BY <1>0
<1> HIDE DEF st2
<1>3. \A p \in bz : l2[p][it[p]] = l[p][it[p]] /\ l[p][it[p]] # t
  BY <1>0, <1>1 DEF RunningOK, MembersOK, Appended
<1>4. \A u \in Tasks : RunningIn(u, l2, it, bz) <=> RunningIn(u, l, it, bz)
  BY <1>3 DEF RunningIn
<1>5. ~RunningIn(t, l2, it, bz)
  BY <1>3 DEF RunningIn
<1>6. \A p \in Pipelines : n2[p] = IF p = Home[t] THEN n[p] + 1 ELSE n[p]
  BY <1>0 DEF Appended
<1>7. Listed(t, l2, n2)
  BY <1>0, <1>6 DEF Listed, Appended
<1>8. \A p \in Pipelines : \A i \in 1 .. n2[p] :
        \/ i \in 1 .. n[p] /\ l2[p][i] = l[p][i]
        \/ p = Home[t] /\ l2[p][i] = t
  BY <1>0, <1>6 DEF Appended
<1>9. \A u \in Tasks : u # t => (Listed(u, l2, n2) <=> Listed(u, l, n))
  <2> SUFFICES ASSUME NEW u \in Tasks, u # t
               PROVE  Listed(u, l2, n2) <=> Listed(u, l, n)
    OBVIOUS
  <2>1. Home[u] \in Pipelines
    BY HomeAssumption
  <2>2. Listed(u, l2, n2) => Listed(u, l, n)
    BY <1>8, <2>1 DEF Listed
  <2>3. \A i \in 1 .. n[Home[u]] : i \in 1 .. n2[Home[u]] /\ l2[Home[u]][i] = l[Home[u]][i]
    BY <1>0, <1>6, <2>1 DEF Appended
  <2>4. Listed(u, l, n) => Listed(u, l2, n2)
    BY <2>3 DEF Listed
  <2> QED BY <2>2, <2>4
<1>10. OnlyChange(t, "waiting", l, n, it, bz, st, l2, n2, it, bz, st2)
  BY <1>2, <1>4, <1>5, <1>7, <1>9 DEF PhaseIn, OnlyChange
<1> QED BY <1>10 DEF st2

\* The iterator moves: the task that ran at it waits, the others are as before.
LEMMA PhaseMove ==
  ASSUME NEW l, NEW n, NEW it, NEW bz, NEW st, NEW rn, ParamsOK(n, it, bz, st, rn),
         OrderOK(l, n, it, bz, st, rn), NEW p \in Pipelines, NEW k
  PROVE  IF p \in bz
         THEN OnlyChange(l[p][it[p]], "waiting", l, n, it, bz, st,
                         l, n, [it EXCEPT ![p] = k], bz \ {p}, st)
         ELSE NoChange(l, n, it, bz, st, l, n, [it EXCEPT ![p] = k], bz \ {p}, st)
<1> DEFINE it2 == [it EXCEPT ![p] = k]
<1>0. /\ it \in [Pipelines -> Nat] /\ bz \subseteq Pipelines
      /\ \A q \in Pipelines : q # p => it2[q] = it[q]
  BY DEF ParamsOK
<1> HIDE DEF it2
<1>1. MembersOK(l, n, st) /\ RunningOK(l, n, it, bz, rn) /\ st \in [Tasks -> Nat]
  BY DEF OrderOK, ParamsOK
<1>2. \A q \in bz : /\ it[q] \in 1 .. n[q] /\ Home[l[q][it[q]]] = q
                    /\ l[q][it[q]] \in Tasks /\ st[l[q][it[q]]] > 0
  BY <1>0, <1>1 DEF RunningOK, MembersOK
<1>3. ASSUME NEW u \in Tasks
      PROVE  PhaseIn(u, l, n, it2, bz \ {p}, st)
               = IF p \in bz /\ u = l[p][it[p]] THEN "waiting"
                 ELSE PhaseIn(u, l, n, it, bz, st)
  <2>1. CASE p \in bz /\ u = l[p][it[p]]
    <3>1. st[u] # 0 /\ Listed(u, l, n)
      BY <1>1, <1>2, <2>1 DEF Listed
    <3>2. ~RunningIn(u, l, it2, bz \ {p})
      BY <1>0, <1>2, <2>1 DEF RunningIn
    <3> QED BY <2>1, <3>1, <3>2 DEF PhaseIn
  <2>2. CASE ~(p \in bz /\ u = l[p][it[p]])
    <3>1. RunningIn(u, l, it2, bz \ {p}) <=> RunningIn(u, l, it, bz)
      BY <1>0, <2>2 DEF RunningIn
    <3> QED BY <2>2, <3>1 DEF PhaseIn
  <2> QED BY <2>1, <2>2
<1> QED BY <1>3 DEF it2, OnlyChange, NoChange

\* A handler starts: its task waited, and it alone changes phase.
LEMMA PhaseRun ==
  ASSUME NEW l, NEW n, NEW it, NEW bz, NEW st, NEW rn, ParamsOK(n, it, bz, st, rn),
         OrderOK(l, n, it, bz, st, rn), NEW p \in Pipelines, p \notin bz, it[p] \in 1 .. n[p]
  PROVE  /\ PhaseIn(l[p][it[p]], l, n, it, bz, st) = "waiting"
         /\ OnlyChange(l[p][it[p]], "running", l, n, it, bz, st, l, n, it, bz \cup {p}, st)
         /\ \A u \in Tasks : Home[u] = p => PhaseIn(u, l, n, it, bz, st) # "running"
<1>1. MembersOK(l, n, st) /\ RunningOK(l, n, it, bz, rn) /\ bz \subseteq Pipelines
      /\ st \in [Tasks -> Nat]
  BY DEF OrderOK, ParamsOK
<1>2. \A q \in bz : Home[l[q][it[q]]] = q
  BY <1>1 DEF RunningOK, MembersOK
<1>3. /\ l[p][it[p]] \in Tasks /\ Home[l[p][it[p]]] = p /\ st[l[p][it[p]]] # 0
      /\ Listed(l[p][it[p]], l, n)
  BY <1>1 DEF MembersOK, Listed
<1>4. \A u \in Tasks : Home[u] = p => ~RunningIn(u, l, it, bz)
  BY <1>2 DEF RunningIn
<1>5. \A u \in Tasks : RunningIn(u, l, it, bz \cup {p})
                         <=> u = l[p][it[p]] \/ RunningIn(u, l, it, bz)
  BY DEF RunningIn
<1> QED BY <1>3, <1>4, <1>5 DEF PhaseIn, OnlyChange

\* The task at the iterator is erased: it ended, the others are as before.
LEMMA PhaseErase ==
  ASSUME NEW l, NEW n, NEW it, NEW bz, NEW st, NEW rn, ParamsOK(n, it, bz, st, rn),
         OrderOK(l, n, it, bz, st, rn), NEW p \in bz,
         NEW l2, NEW n2, Without(l, n, p, it[p], l2, n2)
  PROVE  OnlyChange(l[p][it[p]], "ended", l, n, it, bz, st, l2, n2, it, bz \ {p}, st)
<1> DEFINE c == l[p][it[p]]
<1>1. MembersOK(l, n, st) /\ RunningOK(l, n, it, bz, rn) /\ bz \subseteq Pipelines
      /\ st \in [Tasks -> Nat]
  BY DEF OrderOK, ParamsOK
<1>2. \A q \in bz : Home[l[q][it[q]]] = q
  BY <1>1 DEF RunningOK, MembersOK
<1>3. c \in Tasks /\ Home[c] = p /\ st[c] # 0
  BY <1>1 DEF RunningOK, MembersOK
<1>4. /\ OrderOK(l2, n2, it, bz \ {p}, st, rn)
      /\ ~Listed(c, l2, n2)
      /\ OthersListed(c, l, n, l2, n2)
  BY EraseKeepsOrder, Zenon
<1>5. \A q \in bz \ {p} : l2[q][it[q]] = l[q][it[q]]
  BY <1>1 DEF Without
<1>6. ~RunningIn(c, l2, it, bz \ {p})
  BY <1>2, <1>3, <1>5 DEF RunningIn
<1>7. \A u \in Tasks : u # c => (RunningIn(u, l2, it, bz \ {p}) <=> RunningIn(u, l, it, bz))
  BY <1>5 DEF RunningIn
<1> HIDE DEF c
<1>8. OnlyChange(c, "ended", l, n, it, bz, st, l2, n2, it, bz \ {p}, st)
  BY <1>3, <1>4, <1>6, <1>7 DEF PhaseIn, OnlyChange, OthersListed
<1> QED BY <1>8 DEF c

\* What the steps below have in common: the invariants before and after, and
\* the phase of each task read off its line.
Kept == TypeOK /\ OrderInv /\ AsyncInv /\ TypeOK' /\ OrderInv'

LEMMA PhasesAre ==
  ASSUME Kept
  PROVE  /\ ParamsOK(Size, iter, busy, stamp, runs) /\ OrderOK(Line, Size, iter, busy, stamp, runs)
         /\ ListsOK /\ iter \in [Pipelines -> Nat] /\ busy \subseteq Pipelines
         /\ \A q \in busy : InPass(q)
         /\ \A t \in Tasks : Phase[t] = PhaseIn(t, Line, Size, iter, busy, stamp)
         /\ \A t \in Tasks : Phase'[t] = PhaseIn(t, Line', Size', iter', busy', stamp')
<1>1. PhaseIsLine /\ PhaseIsLine'
  BY PhaseByLine, PhaseByLineNext DEF Kept
<1>2. \A t \in Tasks : Phase[t] = PhaseIn(t, Line, Size, iter, busy, stamp)
  BY <1>1 DEF Phase, PhaseIsLine, LinePhase
<1>3. \A t \in Tasks : Phase'[t] = PhaseIn(t, Line', Size', iter', busy', stamp')
  BY <1>1 DEF Phase, PhaseIsLine, LinePhase
<1> QED BY <1>2, <1>3, ParamsHold DEF Kept, OrderInv, TypeOK, ScanOK

\* A function of the tasks is told by its values.
LEMMA PhaseUnchanged ==
  ASSUME \A u \in Tasks : Phase'[u] = Phase[u]
  PROVE  Phase' = Phase
BY DEF Phase

LEMMA PhaseUpdated ==
  ASSUME NEW t \in Tasks, NEW v,
         \A u \in Tasks : Phase'[u] = IF u = t THEN v ELSE Phase[u]
  PROVE  Phase' = [Phase EXCEPT ![t] = v]
BY DEF Phase

\* The steps that change no phase, no age, no order and no start.
LEMMA KeepsStutter ==
  ASSUME Phase' = Phase, UNCHANGED <<elapsed, born, stamp, runs, joined>>
  PROVE  UNCHANGED Promise!vars
BY DEF Promise!vars, Phase

LEMMA KeepsSchedule ==
  ASSUME Kept, NEW t \in Tasks, Schedule(t)
  PROVE  Promise!Schedule(t)
<1>1. /\ stamp[t] = 0 /\ Add(t)
      /\ UNCHANGED <<callbacks, elapsed, iter, busy, joined, runs>>
  BY DEF Schedule, asyncVars
<1>2. /\ ParamsOK(Size, iter, busy, stamp, runs)
      /\ OrderOK(Line, Size, iter, busy, stamp, runs) /\ ListsOK
  BY PhasesAre
<1>3. Appended(Line, Size, t, Line', Size')
  BY <1>1, <1>2, LineAdd DEF Line, Size, ListsOK
<1>4. stamp' = [stamp EXCEPT ![t] = born + 1] /\ born' = born + 1 /\ born \in Nat
  BY <1>1 DEF Add, Kept, TypeOK, TasksOK
<1>5. OnlyChange(t, "waiting", Line, Size, iter, busy, stamp,
                 Line', Size', iter, busy, [stamp EXCEPT ![t] = born + 1])
  BY <1>1, <1>2, <1>3, <1>4, PhaseAdd
<1>6. \A u \in Tasks : Phase'[u] = IF u = t THEN "waiting" ELSE Phase[u]
  BY <1>1, <1>4, <1>5, PhasesAre DEF OnlyChange
<1>7. Phase' = [Phase EXCEPT ![t] = "waiting"]
  BY <1>6, PhaseUpdated
<1>8. Phase[t] = "unborn"
  BY <1>1 DEF Phase, PhaseOf
<1> QED BY <1>1, <1>4, <1>7, <1>8 DEF Promise!Schedule, Phase

LEMMA KeepsRun ==
  ASSUME Kept, NEW p \in Pipelines, Run(p)
  PROVE  \E t \in Tasks : Promise!Start(t)
<1>0. PICK c \in Tasks : c = Current(p)
  BY PhasesAre, ListTypes DEF Run
<1>1. /\ InPass(p) /\ p \notin busy /\ busy' = busy \cup {p}
      /\ elapsed[c] >= Interval[c] /\ elapsed' = [elapsed EXCEPT ![c] = 0]
      /\ runs' = [runs EXCEPT ![c] = IF @ < MaxRuns THEN @ + 1 ELSE @]
      /\ UNCHANGED <<lists, iter, joined, born, stamp>>
  BY <1>0 DEF Run, asyncVars
<1>2. /\ ParamsOK(Size, iter, busy, stamp, runs)
      /\ OrderOK(Line, Size, iter, busy, stamp, runs) /\ ListsOK
  BY PhasesAre
<1>3. iter[p] \in 1 .. Size[p] /\ c = Line[p][iter[p]] /\ c \in Tasks /\ Home[c] = p
  <2>1. iter[p] \in 1 .. Size[p] /\ c = Line[p][iter[p]]
    BY <1>0, <1>1, <1>2, LineTypes DEF InPass, Current
  <2> QED BY <1>2, <2>1 DEF OrderOK, MembersOK
<1>4. /\ PhaseIn(c, Line, Size, iter, busy, stamp) = "waiting"
      /\ OnlyChange(c, "running", Line, Size, iter, busy, stamp,
                    Line, Size, iter, busy \cup {p}, stamp)
      /\ \A u \in Tasks : Home[u] = p => PhaseIn(u, Line, Size, iter, busy, stamp) # "running"
  BY <1>1, <1>2, <1>3, PhaseRun
<1>5. Phase[c] = "waiting" /\ \A u \in Tasks : Home[u] = Home[c] => Phase[u] # "running"
  BY <1>3, <1>4, PhasesAre
<1>6. Phase' = [Phase EXCEPT ![c] = "running"]
  <2>1. \A u \in Tasks : Phase'[u] = IF u = c THEN "running" ELSE Phase[u]
    BY <1>1, <1>4, LineKept, PhasesAre DEF OnlyChange
  <2> QED BY <1>3, <2>1, PhaseUpdated
<1>7. elapsed[c] = Interval[c]
  <2>1. elapsed[c] \in Nat /\ elapsed[c] <= Interval[c] /\ Interval[c] \in Nat
    BY <1>3, IntervalAssumption DEF Kept, TypeOK, TasksOK
  <2> QED BY <1>1, <2>1
<1>8. runs \in [Tasks -> 0 .. 2] /\ \A u \in Tasks : runs'[u] > 0 <=> u = c \/ runs[u] > 0
  <2>1. runs \in [Tasks -> 0 .. 2]
    BY DEF Kept, TypeOK, TasksOK, MaxRuns
  <2> QED BY <1>1, <1>3, <2>1 DEF MaxRuns
<1>9. Started' = Started \cup {c}
  BY <1>3, <1>8 DEF Started
<1>10. ASSUME NEW u \in Tasks, Home[u] = Home[c], Interval[u] = 0, stamp[u] \in 1 .. stamp[c] - 1
       PROVE  u \in Started
  <2>1. stamp \in [Tasks -> 0 .. born] /\ born \in Nat /\ UndelayedInOrder'
    <3>1. TypeOK' /\ OrderInv' => UndelayedInOrder'
      BY OrderImplies, PTL
    <3> QED BY <3>1 DEF Kept, TypeOK, TasksOK
  <2>2. u # c
    BY <1>3, <1>10, <2>1
  <2>3. runs'[c] > 0 /\ stamp' = stamp
    BY <1>1, <1>3, <1>8
  <2>4. runs'[u] > 0
    BY <1>3, <1>10, <2>1, <2>3 DEF UndelayedInOrder
  <2> QED BY <1>8, <2>2, <2>4 DEF Started
<1>11. joined => Home[c] # "async"
  <2>1. iter[p] > 0
    BY <1>1, <1>2, PhasesAre DEF InPass
  <2> QED BY <1>3, <2>1 DEF Kept, AsyncInv
<1>12. Promise!Start(c)
  BY <1>1, <1>3, <1>5, <1>6, <1>7, <1>9, <1>10, <1>11 DEF Promise!Start, Phase, Started
<1> QED BY <1>12

LEMMA KeepsReturn ==
  ASSUME Kept, NEW p \in Pipelines, Return(p)
  PROVE  Promise!Repeat(Current(p)) \/ Promise!End(Current(p))
<1> DEFINE c == Current(p)
<1>1. /\ p \in busy /\ busy' = busy \ {p} /\ UNCHANGED <<elapsed, runs, joined>>
  BY DEF Return, asyncVars
<1>2. /\ ParamsOK(Size, iter, busy, stamp, runs)
      /\ OrderOK(Line, Size, iter, busy, stamp, runs) /\ ListsOK /\ InPass(p)
      /\ iter \in [Pipelines -> Nat]
  BY <1>1, PhasesAre
<1>3. /\ iter[p] \in 1 .. Size[p] /\ c = Line[p][iter[p]] /\ c \in Tasks /\ Home[c] = p
      /\ stamp[c] > 0
  <2>1. iter[p] \in 1 .. Size[p] /\ c = Line[p][iter[p]]
    BY <1>2, LineTypes DEF InPass, Current
  <2> QED BY <1>2, <2>1 DEF OrderOK, MembersOK
<1> HIDE DEF c
<1>4. Phase[c] = "running"
  <2>1. PhaseIn(c, Line, Size, iter, busy, stamp) = "running"
    BY <1>1, <1>3 DEF PhaseIn, RunningIn
  <2> QED BY <1>3, <2>1, PhasesAre
<1>5. CASE Kind[c] # "once" /\ Continue(p)
  <2>1. iter' = [iter EXCEPT ![p] = iter[p] + 1] /\ UNCHANGED <<lists, born, stamp>>
    BY <1>5 DEF Continue
  <2>2. OnlyChange(c, "waiting", Line, Size, iter, busy, stamp,
                   Line, Size, [iter EXCEPT ![p] = iter[p] + 1], busy \ {p}, stamp)
    BY <1>1, <1>2, <1>3, PhaseMove
  <2>3. \A u \in Tasks : Phase'[u] = IF u = c THEN "waiting" ELSE Phase[u]
    BY <1>1, <2>1, <2>2, LineKept, PhasesAre DEF OnlyChange
  <2>4. Phase' = [Phase EXCEPT ![c] = "waiting"]
    BY <1>3, <2>3, PhaseUpdated
  <2> QED BY <1>1, <1>4, <1>5, <2>1, <2>4 DEF Promise!Repeat, Phase, c
<1> DEFINE l == LineOf(Erased(p))
           n == SizeOf(Erased(p))
<1>6. /\ Erased(p) \in [Pipelines -> Seq(Tasks)]
      /\ Without(Line, Size, p, iter[p], l, n)
  BY <1>2, LineErase
<1>7. Finish(p) => callbacks' = Erased(p) /\ iter' = iter
  BY DEF Finish, Erased
<1>8. OnlyChange(c, "ended", Line, Size, iter, busy, stamp, l, n, iter, busy \ {p}, stamp)
  <2> HIDE DEF l, n
  <2> QED BY <1>1, <1>2, <1>3, <1>6, PhaseErase
<1>9. CASE Kind[c] = "once" /\ Finish(p) /\ UNCHANGED <<newCallbacks, born, stamp>>
  <2>1. Line' = l /\ Size' = n
    BY <1>7, <1>9 DEF Line, Size, LineOf, SizeOf
  <2> HIDE DEF l, n
  <2>2. \A u \in Tasks : Phase'[u] = IF u = c THEN "ended" ELSE Phase[u]
    BY <1>1, <1>7, <1>8, <1>9, <2>1, PhasesAre DEF OnlyChange
  <2>3. Phase' = [Phase EXCEPT ![c] = "ended"]
    BY <1>3, <2>2, PhaseUpdated
  <2> QED BY <1>1, <1>4, <1>9, <2>3 DEF Promise!End, Phase, c
<1>10. CASE Kind[c] = "poll" /\ Add(Inner[c]) /\ Finish(p)
  <2> DEFINE t == Inner[c]
  <2>1. t \in Tasks /\ Home[t] \in Pipelines /\ Kind[t] = "once"
    BY <1>3, <1>10, InnerAssumption, HomeAssumption
  <2>2. stamp' = [stamp EXCEPT ![t] = born + 1] /\ born' = born + 1 /\ born \in Nat
    BY <1>10 DEF Add, Kept, TypeOK, TasksOK
  <2>3. stamp[t] = 0
    <3>1. Listed(c, Line, Size)
      BY <1>3 DEF Listed
    <3> QED BY <1>2, <1>3, <1>10, <3>1 DEF OrderOK, PollsOK
  <2>4. Appended(l, n, t, Line', Size')
    BY <1>2, <1>6, <1>7, <1>10, <2>1, LineAdd
  <2>5. n \in [Pipelines -> Nat]
    BY <1>2, <1>6, <1>7, <1>10, <2>1, LineAdd
  <2> HIDE DEF l, n, t
  <2>6. ParamsOK(n, iter, busy \ {p}, stamp, runs)
    BY <1>2, <2>5 DEF ParamsOK
  <2>7. /\ OrderOK(l, n, iter, busy \ {p}, stamp, runs)
        /\ ~Listed(Line[p][iter[p]], l, n)
        /\ OthersListed(Line[p][iter[p]], Line, Size, l, n)
    BY <1>1, <1>2, <1>6, EraseKeepsOrder, Zenon
  <2>8. OnlyChange(t, "waiting", l, n, iter, busy \ {p}, stamp,
                   Line', Size', iter, busy \ {p}, [stamp EXCEPT ![t] = born + 1])
    BY <2>1, <2>2, <2>3, <2>4, <2>6, <2>7, PhaseAdd
  <2>9. \A u \in Tasks : Phase'[u] = IF u = t THEN "waiting"
                                     ELSE IF u = c THEN "ended" ELSE Phase[u]
    BY <1>1, <1>7, <1>8, <1>10, <2>2, <2>8, PhasesAre DEF OnlyChange
  <2>10. Phase' = [Phase EXCEPT ![c] = "ended", ![t] = "waiting"]
    BY <1>3, <2>1, <2>9 DEF Phase
  <2>11. Phase[t] = "unborn"
    BY <2>1, <2>3 DEF Phase, PhaseOf
  <2> QED BY <1>1, <1>4, <1>10, <2>1, <2>2, <2>10, <2>11 DEF Promise!End, Phase, c
<1>11. \/ Kind[c] # "once" /\ Continue(p)
       \/ Kind[c] = "once" /\ Finish(p) /\ UNCHANGED <<newCallbacks, born, stamp>>
       \/ Kind[c] = "poll" /\ Add(Inner[c]) /\ Finish(p)
  BY DEF Return, c
<1> QED BY <1>5, <1>9, <1>10, <1>11 DEF c

\* A merge, a skipped task and the end of a pass: the iterator of a pipeline
\* that runs nothing moves, and the line is the same.
LEMMA KeepsScan ==
  ASSUME Kept, NEW p \in Pipelines, BeginPass(p) \/ Skip(p) \/ EndPass(p)
  PROVE  UNCHANGED Promise!vars
<1>0. /\ ParamsOK(Size, iter, busy, stamp, runs)
      /\ OrderOK(Line, Size, iter, busy, stamp, runs) /\ ListsOK
      /\ iter \in [Pipelines -> Nat] /\ \A q \in busy : InPass(q)
  BY PhasesAre
<1>1. UNCHANGED <<elapsed, born, stamp, runs, joined, busy>>
  BY DEF BeginPass, Skip, EndPass, asyncVars, history
<1>2. Line' = Line /\ Size' = Size
  <2>1. CASE BeginPass(p)
    BY <1>0, <2>1, LineMerge DEF BeginPass
  <2>2. CASE Skip(p) \/ EndPass(p)
    BY <2>2, LineKept DEF Skip, EndPass
  <2> QED BY <2>1, <2>2
<1>3. p \notin busy
  <2>1. CASE BeginPass(p)
    BY <1>0, <2>1 DEF BeginPass, InPass
  <2>2. CASE Skip(p)
    BY <2>2 DEF Skip
  <2>3. CASE EndPass(p)
    <3>1. Len(callbacks[p]) \in Nat
      BY <1>0, ListTypes
    <3> QED BY <1>0, <2>3, <3>1 DEF EndPass, InPass
  <2> QED BY <2>1, <2>2, <2>3
<1>4. iter' = [iter EXCEPT ![p] = iter'[p]]
  BY <1>0 DEF BeginPass, Skip, EndPass
<1>5. NoChange(Line, Size, iter, busy, stamp,
               Line, Size, [iter EXCEPT ![p] = iter'[p]], busy \ {p}, stamp)
  BY <1>0, <1>3, PhaseMove
<1>6. busy' = busy \ {p}
  BY <1>1, <1>3
<1>7. \A u \in Tasks : Phase'[u] = Phase[u]
  <2>1. \A u \in Tasks : Phase'[u] = PhaseIn(u, Line, Size, [iter EXCEPT ![p] = iter'[p]],
                                             busy \ {p}, stamp)
    <3>1. \A u \in Tasks : Phase'[u] = PhaseIn(u, Line', Size', iter', busy', stamp')
      BY PhasesAre
    <3> HIDE DEF Phase
    <3> QED BY <1>1, <1>2, <1>4, <1>6, <3>1, Zenon
  <2> QED BY <1>5, <2>1, PhasesAre DEF NoChange
<1> QED BY <1>1, <1>7, PhaseUnchanged, KeepsStutter

LEMMA KeepsOther ==
  ASSUME Kept, OtherStep
  PROVE  Promise!Tick \/ Promise!Quiesce \/ UNCHANGED Promise!vars
<1>0. /\ iter \in [Pipelines -> Nat] /\ \A q \in busy : InPass(q)
      /\ busy \subseteq Pipelines
      /\ OrderOK(Line, Size, iter, busy, stamp, runs)
      /\ \A t \in Tasks : Phase[t] = PhaseIn(t, Line, Size, iter, busy, stamp)
  BY PhasesAre
<1>1. Phase' = Phase /\ UNCHANGED <<born, stamp, runs>>
  <2>1. UNCHANGED <<lists, iter, busy, stamp, born, runs>>
    BY DEF OtherStep, PostStart, TestKill, PreDestroy, Join, Tick, GameChanges, vars, history
  <2>2. \A t \in Tasks : Phase'[t] = Phase[t]
    BY <2>1, LineKept, PhasesAre
  <2> QED BY <2>1, <2>2, PhaseUnchanged
<1>2. CASE PostStart \/ TestKill \/ PreDestroy \/ GameChanges \/ UNCHANGED vars
  <2>1. UNCHANGED <<elapsed, joined>>
    BY <1>2 DEF PostStart, TestKill, PreDestroy, GameChanges, vars, asyncVars
  <2> QED BY <1>1, <2>1, KeepsStutter
<1>3. CASE Join
  <2>1. /\ joined' = TRUE /\ elapsed' = elapsed /\ thread \in {"none", "exited"}
    BY <1>3 DEF Join
  <2>2. ASSUME NEW t \in Tasks, Home[t] = "async" PROVE Phase[t] # "running"
    <3>1. "async" \in Pipelines => "async" \notin busy
      BY <1>0, <2>1 DEF Kept, AsyncInv, InPass
    <3>2. ~RunningIn(t, Line, iter, busy)
      BY <1>0, <2>2, <3>1 DEF RunningIn, OrderOK, RunningOK, MembersOK
    <3>3. PhaseIn(t, Line, Size, iter, busy, stamp) # "running"
      BY <3>2 DEF PhaseIn
    <3> QED BY <1>0, <3>3
  <2> QED BY <1>1, <2>1, <2>2 DEF Promise!Quiesce, Phase
<1>4. CASE Tick
  <2>1. /\ elapsed' = [t \in Tasks |-> IF Queued(t) /\ elapsed[t] < Interval[t]
                                       THEN elapsed[t] + 1 ELSE elapsed[t]]
        /\ joined' = joined
    BY <1>4 DEF Tick, asyncVars
  <2>2. ASSUME NEW t \in Tasks
        PROVE  Phase[t] \in {"waiting", "running"} <=> Queued(t)
    <3>1. stamp[t] = 0 => ~Queued(t)
      <4>1. Queued(t) <=> Listed(t, Line, Size)
        BY QueuedIsListed DEF Kept
      <4>2. Listed(t, Line, Size) => stamp[t] > 0
        BY <1>0, HomeAssumption DEF Listed, OrderOK, MembersOK
      <4>3. 0 # 1 /\ ~(0 > 0)
        OBVIOUS
      <4> QED BY <4>1, <4>2, <4>3
    <3>2. Running(t) => Queued(t)
      BY <1>0 DEF Running, Queued, Current, InPass, ToSet
    <3> QED BY <3>1, <3>2 DEF Phase, PhaseOf
  <2>3. elapsed' = [t \in Tasks |->
                      IF Phase[t] \in {"waiting", "running"} /\ elapsed[t] < Interval[t]
                      THEN elapsed[t] + 1 ELSE elapsed[t]]
    BY <2>1, <2>2
  <2> QED BY <1>1, <2>1, <2>3 DEF Promise!Tick, Phase
<1> QED BY <1>2, <1>3, <1>4 DEF OtherStep

LEMMA KeepsInit == Init => Promise!Init
BY DEF Init, Promise!Init, PhaseOf

LEMMA KeepsStep == Kept /\ [Next]_vars => [Promise!Next]_(Promise!vars)
<1> SUFFICES ASSUME Kept, [Next]_vars PROVE Promise!Next \/ UNCHANGED Promise!vars
  OBVIOUS
<1>1. ASSUME NEW t \in Tasks, Schedule(t) PROVE Promise!Next
  BY <1>1, KeepsSchedule DEF Promise!Next
<1>2. ASSUME NEW p \in Pipelines, Run(p) \/ Return(p) PROVE Promise!Next
  <2>1. CASE Run(p)
    BY <2>1, KeepsRun DEF Promise!Next
  <2>2. CASE Return(p)
    <3>1. Current(p) \in Tasks
      BY <2>2, PhasesAre, ListTypes DEF Return
    <3> QED BY <2>2, <3>1, KeepsReturn DEF Promise!Next
  <2> QED BY <1>2, <2>1, <2>2
<1>3. ASSUME NEW p \in Pipelines, BeginPass(p) \/ Skip(p) \/ EndPass(p)
      PROVE  UNCHANGED Promise!vars
  BY <1>3, KeepsScan
<1>4. CASE OtherStep
  BY <1>4, KeepsOther DEF Promise!Next
<1> QED BY <1>1, <1>2, <1>3, <1>4, NextCases DEF PassStep

\* The lists, iterators and locks of scheduler.cpp implement what its header
\* promises: no handler early, twice at once, out of order or after the join,
\* no once twice, no loop ended and no task forgotten.
THEOREM SchedulerKeepsPromise == Spec => KeepsPromise
<1>1. Init => TypeOK /\ OrderInv /\ AsyncInv
  <2>1. Init => AsyncInv
    BY DEF Init, AsyncInv
  <2> QED BY <2>1, TypeInit, OrderInit
<1>2. TypeOK /\ OrderInv /\ AsyncInv /\ [Next]_vars => (TypeOK /\ OrderInv /\ AsyncInv)'
  BY TypeStep, OrderStep, AsyncStep
<1>3. TypeOK /\ OrderInv /\ AsyncInv /\ TypeOK' /\ OrderInv' /\ [Next]_vars
        => [Promise!Next]_(Promise!vars)
  BY KeepsStep DEF Kept
<1> QED BY <1>1, <1>2, <1>3, KeepsInit, PTL DEF Spec, KeepsPromise, Promise!Spec
=============================================================================
