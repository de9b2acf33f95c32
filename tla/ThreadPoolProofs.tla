-------------------------- MODULE ThreadPoolProofs --------------------------
(* Theorems about ThreadPool, for any finite set of workers and any tasks. *)
EXTENDS ThreadPool, FiniteSetTheorems, TLAPS

(* Every step of the pool is well typed. *)
LEMMA TypeInductive == TypeOK /\ [Next]_vars => TypeOK'
<1> SUFFICES ASSUME TypeOK, [Next]_vars PROVE TypeOK'
  OBVIOUS
<1> USE OwnerAssumption, TasksAssumption DEF TypeOK, WorkerPC, Threads
<1>1. ASSUME NEW w \in Workers, Worker(w) PROVE TypeOK'
  <2>1. CASE Test(w) \/ Quit(w) \/ Sleep(w)
    BY <2>1 DEF Test, Quit, Sleep
  <2>2. CASE Take(w)
    <3>1. Head(tasks) \in Tasks /\ Tail(tasks) \in Seq(Tasks)
      BY <2>2 DEF Take
    <3> QED
      BY <2>2, <3>1 DEF Take
  <2> QED
    BY <1>1, <2>1, <2>2 DEF Worker
<1>2. ASSUME NEW w \in Workers, Finish(w) PROVE TypeOK'
  BY <1>2 DEF Finish
<1>3. ASSUME NEW w \in Workers, SpuriousWakeup(w) PROVE TypeOK'
  BY <1>3 DEF SpuriousWakeup
<1>4. ASSUME NEW p \in Threads, NotifyOne(p) PROVE TypeOK'
  BY <1>4 DEF NotifyOne, Sleepers
<1>5. ASSUME NEW p \in Threads, NEW t \in Tasks, Push(p, t) PROVE TypeOK'
  BY <1>5 DEF Push
<1>6. ASSUME SetStop \/ NotifyAll \/ JoinAll PROVE TypeOK'
  BY <1>6 DEF SetStop, NotifyAll, JoinAll
<1>7. ASSUME UNCHANGED vars PROVE TypeOK'
  BY <1>7 DEF vars
<1> QED
  BY <1>1, <1>2, <1>3, <1>4, <1>5, <1>6, <1>7 DEF Next

(* Every reachable state of a pool of any size is well typed, and a worker *)
(* that runs holds a task it took from the queue.                          *)
THEOREM TypeCorrect == Spec => []TypeOK
<1>1. Init => TypeOK
  <2> SUFFICES ASSUME Init PROVE TypeOK
    OBVIOUS
  <2>1. tasks \in Seq(Tasks)
    BY DEF Init
  <2>2. pc \in [Workers -> WorkerPC] /\ \A w \in Workers : pc[w] # "run"
    BY DEF Init, WorkerPC
  <2> QED
    BY <2>1, <2>2 DEF Init, TypeOK, Threads
<1> QED
  BY <1>1, TypeInductive, PTL DEF Spec

-----------------------------------------------------------------------------
(* What the queue operations do to the set of queued tasks. *)

(* pushTask: appending a task adds it and nothing else *)
LEMMA QueuedAfterPush ==
  ASSUME NEW s \in Seq(Tasks), NEW t \in Tasks
  PROVE  { Append(s, t)[i] : i \in DOMAIN Append(s, t) } = { s[i] : i \in DOMAIN s } \cup {t}
<1> DEFINE a == Append(s, t)
<1>1. /\ DOMAIN s = 1..Len(s) /\ DOMAIN a = 1..(Len(s) + 1)
      /\ Len(s) \in Nat /\ a[Len(s) + 1] = t
      /\ \A i \in 1..Len(s) : a[i] = s[i]
  OBVIOUS
<1>2. ASSUME NEW x \in { a[i] : i \in DOMAIN a } PROVE x \in { s[i] : i \in DOMAIN s } \cup {t}
  BY <1>1
<1>3. ASSUME NEW x \in { s[i] : i \in DOMAIN s } \cup {t} PROVE x \in { a[i] : i \in DOMAIN a }
  <2>1. CASE x = t
    BY <2>1, <1>1
  <2>2. CASE x # t
    BY <2>2, <1>1
  <2> QED
    BY <2>1, <2>2
<1> QED
  BY <1>2, <1>3

(* tasks.front and tasks.pop: without duplicates, taking the head removes  *)
(* it from the set and leaves a queue without duplicates                   *)
LEMMA QueuedAfterPop ==
  ASSUME NEW s \in Seq(Tasks), s # <<>>,
         \A i, j \in DOMAIN s : s[i] = s[j] => i = j
  PROVE  /\ { Tail(s)[i] : i \in DOMAIN Tail(s) } = { s[i] : i \in DOMAIN s } \ {Head(s)}
         /\ \A i, j \in DOMAIN Tail(s) : Tail(s)[i] = Tail(s)[j] => i = j
         /\ Head(s) \in { s[i] : i \in DOMAIN s }
<1> DEFINE r == Tail(s)
<1>1. /\ Len(s) \in Nat /\ Len(s) >= 1
      /\ DOMAIN s = 1..Len(s) /\ DOMAIN r = 1..(Len(s) - 1)
      /\ \A i \in 1..(Len(s) - 1) : r[i] = s[i + 1]
      /\ Head(s) = s[1]
  OBVIOUS
<1>2. ASSUME NEW x \in { r[i] : i \in DOMAIN r } PROVE x \in { s[i] : i \in DOMAIN s } \ {Head(s)}
  BY <1>1
<1>3. ASSUME NEW x \in { s[i] : i \in DOMAIN s } \ {Head(s)} PROVE x \in { r[i] : i \in DOMAIN r }
  <2>1. PICK i \in 2..Len(s) : x = s[i]
    BY <1>1
  <2>2. i - 1 \in DOMAIN r /\ r[i - 1] = x
    BY <2>1, <1>1
  <2> QED
    BY <2>2
<1>4. \A i, j \in DOMAIN r : r[i] = r[j] => i = j
  BY <1>1
<1>5. Head(s) \in { s[i] : i \in DOMAIN s }
  BY <1>1
<1> QED
  BY <1>2, <1>3, <1>4, <1>5

(* Which workers run, and what, after each kind of step.  An action that   *)
(* touches neither the queue nor a running worker changes nothing here.    *)
LEMMA IdleEffect ==
  ASSUME TypeOK,
         \/ \E w \in Workers : Test(w) \/ Quit(w) \/ Sleep(w) \/ SpuriousWakeup(w)
         \/ \E p \in Threads : NotifyOne(p)
         \/ SetStop \/ NotifyAll \/ JoinAll \/ UNCHANGED vars
  PROVE  /\ UNCHANGED <<tasks, running, pushed, done, Queued, Running, InProgress>>
         /\ stop => stop'
<1> USE DEF TypeOK, WorkerPC
<1>1. /\ \A v \in Workers : pc'[v] = "run" <=> pc[v] = "run"
      /\ UNCHANGED <<tasks, running, pushed, done>>
      /\ stop => stop'
  BY DEF Test, Quit, Sleep, SpuriousWakeup, NotifyOne, SetStop, NotifyAll, JoinAll, vars, Sleepers
<1>2. Running' = Running
  BY <1>1 DEF Running
<1> QED
  BY <1>1, <1>2 DEF Queued, InProgress

(* getTask takes the oldest task from the queue to the worker. *)
LEMMA TakeEffect ==
  ASSUME TypeOK, EachTaskInOnePlace, NEW w \in Workers, Take(w)
  PROVE  /\ Queued' = Queued \ {Head(tasks)} /\ Head(tasks) \in Queued
         /\ (\A i, j \in DOMAIN tasks : tasks[i] = tasks[j] => i = j)'
         /\ Running' = Running \cup {w} /\ w \notin Running
         /\ running'[w] = Head(tasks) /\ \A v \in Running : running'[v] = running[v]
         /\ InProgress' = InProgress \cup {Head(tasks)}
         /\ UNCHANGED <<pushed, done, stop>>
<1> DEFINE t == Head(tasks)
<1>1. /\ Queued' = Queued \ {t} /\ t \in Queued
      /\ (\A i, j \in DOMAIN tasks : tasks[i] = tasks[j] => i = j)'
  <2>1. /\ tasks \in Seq(Tasks) /\ tasks # <<>> /\ tasks' = Tail(tasks)
        /\ \A i, j \in DOMAIN tasks : tasks[i] = tasks[j] => i = j
    BY DEF Take, TypeOK, EachTaskInOnePlace
  <2>2. /\ { Tail(tasks)[i] : i \in DOMAIN Tail(tasks) } = Queued \ {t}
        /\ \A i, j \in DOMAIN Tail(tasks) : Tail(tasks)[i] = Tail(tasks)[j] => i = j
        /\ t \in Queued
    BY ONLY <2>1, QueuedAfterPop, Zenon DEF Queued
  <2> QED
    BY <2>1, <2>2, ZenonT(40) DEF Queued
<1>2. Running' = Running \cup {w} /\ w \notin Running
  BY DEF Take, Running, TypeOK
<1>3. running'[w] = t /\ \A v \in Running : running'[v] = running[v]
  BY <1>2 DEF Take, TypeOK, Running
<1>4. InProgress' = InProgress \cup {t}
  <2>1. ASSUME NEW x \in InProgress' PROVE x \in InProgress \cup {t}
    BY <1>2, <1>3 DEF InProgress
  <2>2. ASSUME NEW x \in InProgress \cup {t} PROVE x \in InProgress'
    BY <1>2, <1>3 DEF InProgress
  <2> QED
    BY <2>1, <2>2
<1> QED
  BY <1>1, <1>2, <1>3, <1>4 DEF Take

(* A task that returns leaves its worker, and only that task is done. *)
LEMMA FinishEffect ==
  ASSUME TypeOK, EachTaskInOnePlace, NEW w \in Workers, Finish(w)
  PROVE  /\ Running' = Running \ {w} /\ w \in Running
         /\ \A v \in Running' : running'[v] = running[v]
         /\ running[w] \in InProgress
         /\ InProgress' = InProgress \ {running[w]}
         /\ done' = done \cup {running[w]}
         /\ UNCHANGED <<tasks, Queued, pushed, stop>>
<1>1. Running' = Running \ {w} /\ w \in Running
  BY DEF Finish, Running, TypeOK
<1>2. \A v \in Running' : running'[v] = running[v]
  BY <1>1 DEF Finish, TypeOK, Running
<1>3. InProgress' = InProgress \ {running[w]}
  <2>1. \A u, v \in Running : running[u] = running[v] => u = v
    BY DEF EachTaskInOnePlace
  <2>2. ASSUME NEW x \in InProgress' PROVE x \in InProgress \ {running[w]}
    BY <1>1, <1>2, <2>1 DEF InProgress
  <2>3. ASSUME NEW x \in InProgress \ {running[w]} PROVE x \in InProgress'
    BY <1>1, <1>2 DEF InProgress
  <2> QED
    BY <2>2, <2>3
<1> QED
  BY <1>1, <1>2, <1>3 DEF Finish, InProgress, Queued

(* pushTask queues the task and marks it as pushed. *)
LEMMA PushEffect ==
  ASSUME TypeOK, NEW p \in Threads, NEW t \in Tasks, Push(p, t)
  PROVE  /\ Queued' = Queued \cup {t} /\ t \notin pushed
         /\ pushed' = pushed \cup {t}
         /\ UNCHANGED <<pc, running, done, stop, Running, InProgress>>
<1>1. Queued' = Queued \cup {t}
  <2>1. tasks \in Seq(Tasks) /\ tasks' = Append(tasks, t)
    BY DEF Push, TypeOK
  <2>2. { Append(tasks, t)[i] : i \in DOMAIN Append(tasks, t) } = Queued \cup {t}
    BY ONLY <2>1, t \in Tasks, QueuedAfterPush, Zenon DEF Queued
  <2> QED
    BY ONLY <2>1, <2>2, Zenon DEF Queued
<1> QED
  BY <1>1 DEF Push, Running, InProgress

(* No step loses, doubles or repeats a task. *)
LEMMA OnePlaceInductive == TypeOK /\ EachTaskInOnePlace /\ [Next]_vars => EachTaskInOnePlace'
<1> SUFFICES ASSUME TypeOK, EachTaskInOnePlace, [Next]_vars PROVE EachTaskInOnePlace'
  OBVIOUS
<1>1. ASSUME NEW w \in Workers, Take(w) PROVE EachTaskInOnePlace'
  <2>1. Head(tasks) \notin InProgress \cup done
    BY <1>1, TakeEffect DEF EachTaskInOnePlace, InProgress
  <2>2. \A u, v \in Running' : running'[u] = running'[v] => u = v
    BY <1>1, <2>1, TakeEffect DEF EachTaskInOnePlace, InProgress
  <2>3. \A v \in Running' : running'[v] \notin Queued' \cup done'
    BY <1>1, <2>1, TakeEffect DEF EachTaskInOnePlace
  <2> QED
    BY <1>1, <2>1, <2>2, <2>3, TakeEffect DEF EachTaskInOnePlace
<1>2. ASSUME NEW w \in Workers, Finish(w) PROVE EachTaskInOnePlace'
  <2>1. (\A i, j \in DOMAIN tasks : tasks[i] = tasks[j] => i = j)'
    BY <1>2, FinishEffect DEF EachTaskInOnePlace
  <2>2. \A v \in Running' : running'[v] \notin Queued' \cup done'
    BY <1>2, FinishEffect DEF EachTaskInOnePlace
  <2> QED
    BY <1>2, <2>1, <2>2, FinishEffect DEF EachTaskInOnePlace
<1>3. ASSUME NEW p \in Threads, NEW t \in Tasks, Push(p, t) PROVE EachTaskInOnePlace'
  <2>1. (\A i, j \in DOMAIN tasks : tasks[i] = tasks[j] => i = j)'
    <3>1. tasks' = Append(tasks, t) /\ \A i \in DOMAIN tasks : tasks[i] # t
      BY <1>3, PushEffect DEF Push, EachTaskInOnePlace, Queued
    <3>2. \A i, j \in DOMAIN tasks : tasks[i] = tasks[j] => i = j
      BY DEF EachTaskInOnePlace
    <3> QED
      BY <3>1, <3>2 DEF TypeOK
  <2>2. \A v \in Running : running[v] \in InProgress
    BY DEF InProgress
  <2> QED
    BY <1>3, <2>1, <2>2, PushEffect DEF EachTaskInOnePlace
<1>4. ASSUME \/ \E w \in Workers : Test(w) \/ Quit(w) \/ Sleep(w) \/ SpuriousWakeup(w)
             \/ \E p \in Threads : NotifyOne(p)
             \/ SetStop \/ NotifyAll \/ JoinAll \/ UNCHANGED vars
      PROVE  EachTaskInOnePlace'
  BY <1>4, IdleEffect DEF EachTaskInOnePlace
<1> QED
  BY <1>1, <1>2, <1>3, <1>4 DEF Next, Worker

(* A task given to the pool is queued once, run by one worker or finished: *)
(* no interleaving of pushes and pops loses a task or runs it twice.       *)
THEOREM OnePlace == Spec => []EachTaskInOnePlace
<1>1. Init => EachTaskInOnePlace
  BY DEF Init, EachTaskInOnePlace, Queued, Running, InProgress
<1> QED
  BY <1>1, OnePlaceInductive, TypeCorrect, PTL DEF Spec

-----------------------------------------------------------------------------
(* Wake-ups. *)

(* The notifications owed can be counted. *)
LEMMA FiniteSets == TypeOK => /\ IsFiniteSet(owed) /\ Cardinality(owed) \in Nat
                              /\ IsFiniteSet(Bound) /\ Cardinality(Bound) \in Nat
<1> SUFFICES ASSUME TypeOK PROVE /\ IsFiniteSet(owed) /\ Cardinality(owed) \in Nat
                                 /\ IsFiniteSet(Bound) /\ Cardinality(Bound) \in Nat
  OBVIOUS
<1>1. IsFiniteSet(Workers) /\ IsFiniteSet(Threads)
  BY WorkersAssumption, FS_AddElement DEF Threads
<1>2. IsFiniteSet(owed) /\ IsFiniteSet(Bound)
  BY <1>1, FS_Subset DEF TypeOK, Bound
<1> QED
  BY <1>2, FS_CardinalityType

(* The counting invariant: notify_one after the unlock loses no wake-up.   *)
LEMMA WakeupInductive == TypeOK /\ NoLostWakeup /\ [Next]_vars => NoLostWakeup'
<1> SUFFICES ASSUME TypeOK, NoLostWakeup, [Next]_vars, ~stop', Sleepers' # {}
             PROVE  Len(tasks') <= Cardinality(owed') + Cardinality(Bound')
  BY DEF NoLostWakeup
<1> DEFINE o == Cardinality(owed)
           b == Cardinality(Bound)
<1>1. IsFiniteSet(owed) /\ o \in Nat /\ IsFiniteSet(Bound) /\ b \in Nat /\ Len(tasks) \in Nat
  BY FiniteSets DEF TypeOK
<1>2. ~stop
  BY DEF Next, Worker, Test, Quit, Sleep, Take, Finish, SpuriousWakeup, NotifyOne, Push,
         SetStop, NotifyAll, JoinAll, vars
<1>3. Sleepers # {} => Len(tasks) <= o + b
  BY <1>2 DEF NoLostWakeup
<1>4. ASSUME NEW w \in Workers, Sleep(w) PROVE Len(tasks') <= Cardinality(owed') + Cardinality(Bound')
  <2>1. Len(tasks') = 0 /\ owed' = owed /\ Bound' = Bound \ {w}
    BY <1>4 DEF Sleep, Bound, TypeOK
  <2>2. Cardinality(Bound') \in Nat
    BY <2>1, <1>1, FS_RemoveElement, FS_CardinalityType
  <2> QED
    BY <1>1, <2>1, <2>2
<1>5. ASSUME NEW w \in Workers, Take(w) PROVE Len(tasks') <= Cardinality(owed') + Cardinality(Bound')
  <2>1. Len(tasks') = Len(tasks) - 1 /\ owed' = owed /\ Bound' = Bound \ {w} /\ w \in Bound
    BY <1>5 DEF Take, Bound, TypeOK
  <2>2. Sleepers # {}
    BY <1>5 DEF Take, Sleepers, TypeOK
  <2>3. Cardinality(Bound') = b - 1
    BY <2>1, <1>1, FS_RemoveElement
  <2> QED
    BY <1>1, <1>3, <2>1, <2>2, <2>3
<1>6. ASSUME NEW w \in Workers, Finish(w) \/ SpuriousWakeup(w)
      PROVE  Len(tasks') <= Cardinality(owed') + Cardinality(Bound')
  <2>1. tasks' = tasks /\ owed' = owed /\ Bound' = Bound \cup {w} /\ w \notin Bound /\ Sleepers # {}
    BY <1>6 DEF Finish, SpuriousWakeup, Bound, Sleepers, TypeOK
  <2>2. Cardinality(Bound') = b + 1
    BY <2>1, <1>1, FS_AddElement
  <2> QED
    BY <1>1, <1>3, <2>1, <2>2
<1>7. ASSUME NEW p \in Threads, NEW t \in Tasks, Push(p, t)
      PROVE  Len(tasks') <= Cardinality(owed') + Cardinality(Bound')
  <2>1. /\ Len(tasks') = Len(tasks) + 1 /\ owed' = owed \cup {p} /\ p \notin owed
        /\ Bound' = Bound /\ Sleepers # {}
    BY <1>7 DEF Push, Bound, Sleepers, TypeOK
  <2>2. Cardinality(owed') = o + 1
    BY <2>1, <1>1, FS_AddElement
  <2> QED
    BY <1>1, <1>3, <2>1, <2>2
<1>8. ASSUME NEW p \in Threads, NotifyOne(p)
      PROVE  Len(tasks') <= Cardinality(owed') + Cardinality(Bound')
  <2>1. tasks' = tasks /\ owed' = owed \ {p} /\ p \in owed /\ Sleepers # {}
    BY <1>8 DEF NotifyOne, Sleepers, TypeOK
  <2>2. PICK w \in Sleepers : pc' = [pc EXCEPT ![w] = "lock"]
    BY <1>8, <2>1 DEF NotifyOne
  <2>3. Bound' = Bound \cup {w} /\ w \notin Bound
    BY <2>2 DEF Bound, Sleepers, TypeOK
  <2>4. Cardinality(owed') = o - 1 /\ Cardinality(Bound') = b + 1
    BY <2>1, <2>3, <1>1, FS_AddElement, FS_RemoveElement
  <2> QED
    BY <1>1, <1>3, <2>1, <2>4
<1>9. ASSUME NEW w \in Workers, Test(w) PROVE Len(tasks') <= Cardinality(owed') + Cardinality(Bound')
  <2>1. tasks' = tasks /\ owed' = owed /\ Bound' = Bound /\ Sleepers # {}
    BY <1>9, <1>2 DEF Test, Bound, Sleepers, TypeOK
  <2> QED
    BY <1>3, <2>1
<1>10. ASSUME NotifyAll \/ JoinAll \/ UNCHANGED vars
       PROVE  Len(tasks') <= Cardinality(owed') + Cardinality(Bound')
  <2>1. CASE NotifyAll
    BY <2>1 DEF NotifyAll, Sleepers, TypeOK
  <2>2. CASE JoinAll \/ UNCHANGED vars
    <3>1. UNCHANGED <<tasks, owed, Bound, Sleepers>>
      BY <2>2 DEF JoinAll, vars, Bound, Sleepers
    <3> QED
      BY <1>3, <3>1
  <2> QED
    BY <1>10, <2>1, <2>2
<1> QED
  BY <1>2, <1>4, <1>5, <1>6, <1>7, <1>8, <1>9, <1>10 DEF Next, Worker, Quit, SetStop

(* While the pool lives, no number of workers and no order of pushes and   *)
(* pops leaves a queued task with nobody due to look at the queue.         *)
THEOREM WakeupsKept == Spec => []NoLostWakeup
<1>1. Init => NoLostWakeup
  BY DEF Init, NoLostWakeup, Sleepers
<1> QED
  BY <1>1, WakeupInductive, TypeCorrect, PTL DEF Spec

-----------------------------------------------------------------------------
(* The destructor. *)

(* DestructorReachesAll is not inductive: it needs that nobody can go to   *)
(* sleep any more once stop is set, and that the threads that owe a        *)
(* notify_one are inside a task, or the owner before its destructor.       *)
DestructorInv ==
    /\ DestructorReachesAll
    /\ owner # "alive" => stop
    /\ Owner \in owed => owner = "alive"
    /\ \A w \in Workers \cap owed : pc[w] = "run"

(* Every step keeps what the destructor relies on. *)
LEMMA DestructorInductive == TypeOK /\ DestructorInv /\ [Next]_vars => DestructorInv'
<1> SUFFICES ASSUME TypeOK, DestructorInv, [Next]_vars PROVE DestructorInv'
  OBVIOUS
<1> USE OwnerAssumption DEF TypeOK, WorkerPC, Threads, DestructorInv, DestructorReachesAll, Sleepers
<1>1. ASSUME NEW w \in Workers, Worker(w) \/ Finish(w) \/ SpuriousWakeup(w) PROVE DestructorInv'
  BY <1>1 DEF Worker, Test, Quit, Sleep, Take, Finish, SpuriousWakeup
<1>2. ASSUME NEW p \in Threads, NEW t \in Tasks, Push(p, t) PROVE DestructorInv'
  BY <1>2 DEF Push, CanPush
<1>3. ASSUME NEW p \in Threads, NotifyOne(p) PROVE DestructorInv'
  BY <1>3 DEF NotifyOne
<1>4. ASSUME SetStop \/ NotifyAll \/ JoinAll PROVE DestructorInv'
  BY <1>4 DEF SetStop, NotifyAll, JoinAll
<1>5. ASSUME UNCHANGED vars PROVE DestructorInv'
  BY <1>5 DEF vars
<1> QED
  BY <1>1, <1>2, <1>3, <1>4, <1>5 DEF Next

(* After notify_all nobody sleeps, and after the joins nobody works.       *)
THEOREM DestructorCorrect == Spec => []DestructorReachesAll
<1>1. Init => DestructorInv
  BY DEF Init, DestructorInv, DestructorReachesAll
<1>2. DestructorInv => DestructorReachesAll
  BY DEF DestructorInv
<1> QED
  BY <1>1, <1>2, DestructorInductive, TypeCorrect, PTL DEF Spec

-----------------------------------------------------------------------------
(* Refinement. *)

(* A worker that is free to take a task leaves room for it: fewer tasks    *)
(* than workers are in progress.                                           *)
LEMMA RoomForOneMore ==
  ASSUME TypeOK, NEW w \in Workers, w \notin Running
  PROVE  Cardinality(InProgress) < Cardinality(Workers)
<1> DEFINE f == [v \in Running |-> running[v]]
<1>1. IsFiniteSet(Workers) /\ IsFiniteSet(Workers \ {w})
      /\ Cardinality(Workers \ {w}) = Cardinality(Workers) - 1
      /\ Cardinality(Workers) \in Nat
  BY WorkersAssumption, FS_RemoveElement, FS_CardinalityType
<1>2. Running \subseteq Workers \ {w}
  BY DEF Running
<1>3. IsFiniteSet(Running) /\ Cardinality(Running) <= Cardinality(Workers) - 1
      /\ Cardinality(Running) \in Nat
  BY <1>1, <1>2, FS_Subset, FS_CardinalityType
<1>4. f \in Surjection(Running, InProgress)
  BY DEF Surjection, InProgress
<1>5. IsFiniteSet(InProgress) /\ Cardinality(InProgress) <= Cardinality(Running)
      /\ Cardinality(InProgress) \in Nat
  BY <1>3, <1>4, FS_Surjection, FS_CardinalityType
<1> QED
  BY <1>1, <1>3, <1>5

(* Every step of the pool is a step of the abstract pool, or a stutter. *)
LEMMA StepRefines ==
  TypeOK /\ EachTaskInOnePlace /\ [Next]_vars => [Abstract!Next]_(Abstract!vars)
<1> SUFFICES ASSUME TypeOK, EachTaskInOnePlace, [Next]_vars
             PROVE  [Abstract!Next]_(Abstract!vars)
  OBVIOUS
<1>1. ASSUME NEW w \in Workers, Take(w) PROVE Abstract!Start
  <2>1. Cardinality(InProgress) < Cardinality(Workers)
    BY <1>1, TakeEffect, RoomForOneMore
  <2> QED
    BY <1>1, <2>1, TakeEffect, Zenon DEF Take, Abstract!Start, Abstract!Cardinality, Cardinality, IsFiniteSet, Abstract!IsFiniteSet
<1>2. ASSUME NEW w \in Workers, Finish(w) PROVE Abstract!Return(running[w])
  BY <1>2, FinishEffect DEF Abstract!Return
<1>3. ASSUME NEW p \in Threads, NEW t \in Tasks, Push(p, t) PROVE Abstract!Submit(t)
  <2>1. t \notin Queued \cup InProgress \cup done
    BY <1>3, PushEffect DEF EachTaskInOnePlace
  <2> QED
    BY <1>3, <2>1, PushEffect DEF Push, Abstract!Submit, Abstract!Waiting, Queued
<1>4. ASSUME SetStop PROVE Abstract!Close
  BY <1>4, IdleEffect, Zenon DEF SetStop, Abstract!Close
<1>5. ASSUME \/ \E w \in Workers : Test(w) \/ Quit(w) \/ Sleep(w) \/ SpuriousWakeup(w)
             \/ \E p \in Threads : NotifyOne(p)
             \/ NotifyAll \/ JoinAll \/ UNCHANGED vars
      PROVE  UNCHANGED Abstract!vars
  <2>1. stop' = stop
    BY <1>5 DEF Test, Quit, Sleep, SpuriousWakeup, NotifyOne, NotifyAll, JoinAll, vars
  <2> QED
    BY <1>5, <2>1, IdleEffect DEF Abstract!vars
<1>6. ASSUME NEW w \in Workers, Finish(w) PROVE running[w] \in Tasks
  BY <1>6 DEF Finish, TypeOK
<1> QED
  BY <1>1, <1>2, <1>3, <1>4, <1>5, <1>6 DEF Next, Worker, Abstract!Next

(* Every behaviour of the workers, the queue and the condition variable is *)
(* a behaviour of the abstract pool.                                       *)
THEOREM Refines == Spec => ImplementsTaskPool
<1>1. Init => Abstract!Init
  BY DEF Init, Abstract!Init, InProgress, Running
<1> QED
  BY <1>1, StepRefines, TypeCorrect, OnePlace, PTL DEF Spec, ImplementsTaskPool, Abstract!Spec

=============================================================================
