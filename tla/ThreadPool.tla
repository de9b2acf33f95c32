----------------------------- MODULE ThreadPool -----------------------------
(***************************************************************************)
(* ThreadPool.h (the server's and the client's copies are the same code):  *)
(* a fixed set of workers that sleep on one condition variable, a FIFO     *)
(* queue of tasks, pushTask, and the destructor that stops and joins them. *)
(*                                                                         *)
(* Every critical section of task_mutex is free of blocking calls, so each *)
(* is one action and the mutex itself is not a variable.  What happens     *)
(* outside the mutex is a step of its own: the unlocked read of stop at    *)
(* the head of the worker's loop, the run of a task, notify_one after the  *)
(* push, and notify_all after the store to stop.                           *)
(***************************************************************************)
EXTENDS Naturals, Sequences, FiniteSets

CONSTANTS
    Workers,  \* the threads of the pool, THREAD_COUNT of them
    Owner,    \* the thread that owns the pool and will destroy it
    Tasks,    \* the tasks, each pushed at most once
    Endless,  \* the tasks that need not return (a client's receive loop)
    NoTask    \* what an idle worker runs

ASSUME WorkersAssumption == IsFiniteSet(Workers) /\ Workers # {}
ASSUME OwnerAssumption == Owner \notin Workers
ASSUME TasksAssumption == NoTask \notin Tasks /\ Endless \subseteq Tasks

VARIABLES
    pc,       \* pc[w]: where worker w is in getTask
    running,  \* running[w]: the task worker w has taken out of the queue
    tasks,    \* the queue
    stop,     \* the flag the destructor sets
    owner,    \* how far the owner is: "alive", "stopping", "joining", "joined"
    owed,     \* threads that have queued a task and not yet called notify_one
    pushed,   \* the tasks ever given to pushTask
    done      \* the tasks that have returned

vars == <<pc, running, tasks, stop, owner, owed, pushed, done>>

WorkerPC == {"test", "lock", "sleep", "run", "exit"}
Threads == Workers \cup {Owner}
Queued == { tasks[i] : i \in DOMAIN tasks }
Sleepers == { w \in Workers : pc[w] = "sleep" }
Running == { w \in Workers : pc[w] = "run" }
InProgress == { running[w] : w \in Running }
Bound == { w \in Workers : pc[w] \in {"test", "lock"} }

TypeOK ==
    /\ pc \in [Workers -> WorkerPC]
    /\ running \in [Workers -> Tasks \cup {NoTask}]
    /\ tasks \in Seq(Tasks)
    /\ stop \in BOOLEAN
    /\ owner \in {"alive", "stopping", "joining", "joined"}
    /\ owed \subseteq Threads
    /\ pushed \subseteq Tasks
    /\ done \subseteq Tasks
    /\ \A w \in Workers : pc[w] = "run" => running[w] \in Tasks

Init ==
    /\ pc = [w \in Workers |-> "test"]
    /\ running = [w \in Workers |-> NoTask]
    /\ tasks = <<>>
    /\ stop = FALSE
    /\ owner = "alive"
    /\ owed = {}
    /\ pushed = {}
    /\ done = {}

-----------------------------------------------------------------------------
(* getTask, one worker. *)

(* while (!stop), read without the mutex *)
Test(w) ==
    /\ pc[w] = "test"
    /\ pc' = [pc EXCEPT ![w] = IF stop THEN "exit" ELSE "lock"]
    /\ UNCHANGED <<running, tasks, stop, owner, owed, pushed, done>>

(* cv.wait returns at once or after a wake-up, and finds stop set *)
Quit(w) ==
    /\ pc[w] = "lock"
    /\ stop
    /\ pc' = [pc EXCEPT ![w] = "exit"]
    /\ UNCHANGED <<running, tasks, stop, owner, owed, pushed, done>>

(* cv.wait finds the predicate false: release the mutex and sleep, atomically *)
Sleep(w) ==
    /\ pc[w] = "lock"
    /\ ~stop
    /\ tasks = <<>>
    /\ pc' = [pc EXCEPT ![w] = "sleep"]
    /\ UNCHANGED <<running, tasks, stop, owner, owed, pushed, done>>

TakeWithoutPop(w) ==
    /\ pc[w] = "lock"
    /\ ~stop
    /\ tasks # <<>>
    /\ running' = [running EXCEPT ![w] = Head(tasks)]
    /\ pc' = [pc EXCEPT ![w] = "run"]
    /\ UNCHANGED <<tasks, stop, owner, owed, pushed, done>>

TakeForgets(w) ==
    /\ pc[w] = "lock"
    /\ ~stop
    /\ tasks # <<>>
    /\ tasks' = Tail(tasks)
    /\ pc' = [pc EXCEPT ![w] = "run"]
    /\ UNCHANGED <<running, stop, owner, owed, pushed, done>>

TakeNewest(w) ==
    /\ pc[w] = "lock"
    /\ ~stop
    /\ tasks # <<>>
    /\ running' = [running EXCEPT ![w] = tasks[Len(tasks)]]
    /\ tasks' = SubSeq(tasks, 1, Len(tasks) - 1)
    /\ pc' = [pc EXCEPT ![w] = "run"]
    /\ UNCHANGED <<stop, owner, owed, pushed, done>>

(* take the front of the queue and pop it *)
Take(w) ==
    /\ pc[w] = "lock"
    /\ ~stop
    /\ tasks # <<>>
    /\ running' = [running EXCEPT ![w] = Head(tasks)]
    /\ tasks' = Tail(tasks)
    /\ pc' = [pc EXCEPT ![w] = "run"]
    /\ UNCHANGED <<stop, owner, owed, pushed, done>>

FinishAndSleep(w) ==
    /\ pc[w] = "run"
    /\ w \notin owed
    /\ done' = done \cup {running[w]}
    /\ running' = [running EXCEPT ![w] = NoTask]
    /\ pc' = [pc EXCEPT ![w] = "sleep"]
    /\ UNCHANGED <<tasks, stop, owner, owed, pushed>>

(* task() returns, after the last pushTask it made *)
Finish(w) ==
    /\ pc[w] = "run"
    /\ w \notin owed
    /\ done' = done \cup {running[w]}
    /\ running' = [running EXCEPT ![w] = NoTask]
    /\ pc' = [pc EXCEPT ![w] = "test"]
    /\ UNCHANGED <<tasks, stop, owner, owed, pushed>>

(* a condition variable may wake a thread nobody notified *)
SpuriousWakeup(w) ==
    /\ pc[w] = "sleep"
    /\ pc' = [pc EXCEPT ![w] = "lock"]
    /\ UNCHANGED <<running, tasks, stop, owner, owed, pushed, done>>

-----------------------------------------------------------------------------
(* pushTask, called by the owner or by a task that runs in the pool. *)

CanPush(p) ==
    \/ p = Owner /\ owner = "alive"
    \/ p \in Workers /\ pc[p] = "run"

PushSilently(p, t) ==
    /\ CanPush(p)
    /\ p \notin owed
    /\ t \notin pushed
    /\ tasks' = Append(tasks, t)
    /\ pushed' = pushed \cup {t}
    /\ UNCHANGED <<pc, running, stop, owner, owed, done>>

(* the critical section of pushTask *)
Push(p, t) ==
    /\ CanPush(p)
    /\ p \notin owed
    /\ t \notin pushed
    /\ tasks' = Append(tasks, t)
    /\ pushed' = pushed \cup {t}
    /\ owed' = owed \cup {p}
    /\ UNCHANGED <<pc, running, stop, owner, done>>

(* cv.notify_one, after the mutex is released *)
NotifyOne(p) ==
    /\ p \in owed
    /\ owed' = owed \ {p}
    /\ \/ Sleepers = {} /\ UNCHANGED pc
       \/ \E w \in Sleepers : pc' = [pc EXCEPT ![w] = "lock"]
    /\ UNCHANGED <<running, tasks, stop, owner, pushed, done>>

-----------------------------------------------------------------------------
(* ~ThreadPool, in three steps. *)

SetStop ==
    /\ owner = "alive"
    /\ Owner \notin owed
    /\ stop' = TRUE
    /\ owner' = "stopping"
    /\ UNCHANGED <<pc, running, tasks, owed, pushed, done>>

NotifySome ==
    /\ owner = "stopping"
    /\ owner' = "joining"
    /\ \/ Sleepers = {} /\ UNCHANGED pc
       \/ \E w \in Sleepers : pc' = [pc EXCEPT ![w] = "lock"]
    /\ UNCHANGED <<running, tasks, stop, owed, pushed, done>>

(* cv.notify_all *)
NotifyAll ==
    /\ owner = "stopping"
    /\ owner' = "joining"
    /\ pc' = [w \in Workers |-> IF pc[w] = "sleep" THEN "lock" ELSE pc[w]]
    /\ UNCHANGED <<running, tasks, stop, owed, pushed, done>>

JoinOne ==
    /\ owner = "joining"
    /\ \E w \in Workers : pc[w] = "exit"
    /\ owner' = "joined"
    /\ UNCHANGED <<pc, running, tasks, stop, owed, pushed, done>>

(* the loop of join() calls: each returns when its worker has left getTask *)
JoinAll ==
    /\ owner = "joining"
    /\ \A w \in Workers : pc[w] = "exit"
    /\ owner' = "joined"
    /\ UNCHANGED <<pc, running, tasks, stop, owed, pushed, done>>

-----------------------------------------------------------------------------

Worker(w) == Test(w) \/ Quit(w) \/ Sleep(w) \/ Take(w)

Next ==
    \/ \E w \in Workers : Worker(w) \/ Finish(w) \/ SpuriousWakeup(w)
    \/ \E p \in Threads : NotifyOne(p) \/ \E t \in Tasks : Push(p, t)
    \/ SetStop \/ NotifyAll \/ JoinAll

Spec == Init /\ [][Next]_vars

(* The scheduler runs every thread that can run; a task outside Endless    *)
(* returns.  Nothing obliges anyone to push a task or to destroy the pool, *)
(* and nothing relies on spurious wake-ups.                                *)
Fairness ==
    /\ \A w \in Workers :
         WF_vars(Worker(w)) /\ WF_vars(running[w] \notin Endless /\ Finish(w))
    /\ \A p \in Threads : WF_vars(NotifyOne(p))
    /\ WF_vars(NotifyAll \/ JoinAll)

FairSpec == Spec /\ Fairness

-----------------------------------------------------------------------------
(* Correctness. *)

(* A task that was pushed is at any time in exactly one place: once in the *)
(* queue, in the hands of exactly one worker, or finished (tasks.pop under *)
(* the mutex is what keeps two workers from running the same task).        *)
EachTaskInOnePlace ==
    /\ pushed = Queued \cup InProgress \cup done
    /\ \A i, j \in DOMAIN tasks : tasks[i] = tasks[j] => i = j
    /\ \A w \in Running : running[w] \notin Queued \cup done
    /\ \A v, w \in Running : running[v] = running[w] => v = w
    /\ Queued \cap done = {}

(* No wake-up is lost although notify_one is called after the mutex is     *)
(* released: while a worker sleeps, every queued task has either a         *)
(* notify_one still to come or a worker already on its way to the queue.   *)
NoLostWakeup ==
    ~stop /\ Sleepers # {} => Len(tasks) <= Cardinality(owed) + Cardinality(Bound)

(* The destructor reaches every worker: once notify_all has been called no *)
(* worker sleeps, and when the joins have returned no task is in progress  *)
(* and no task will touch the pool any more.                               *)
DestructorReachesAll ==
    /\ owner \in {"joining", "joined"} => Sleepers = {}
    /\ owner = "joined" => owed = {} /\ \A w \in Workers : pc[w] = "exit"

(* A pushed task is started unless the pool is destroyed first, as long as *)
(* fewer endless tasks have been pushed than there are workers: ChatRoom.h *)
(* gives every client a worker for as long as the client stays.            *)
EventuallyStarted ==
    \A t \in Tasks :
        t \in pushed ~> \/ t \notin Queued
                        \/ stop
                        \/ Cardinality(Endless \cap pushed) >= Cardinality(Workers)

(* The destructor returns if every task that is in progress returns.       *)
DestructorReturns ==
    owner = "stopping" ~> \/ owner = "joined"
                          \/ \E w \in Workers : running[w] \in Endless

(* The pool implements the abstract one: FIFO starts, each task once, at   *)
(* most THREAD_COUNT in progress, none started after the destructor began. *)
Abstract == INSTANCE TaskPool WITH
    Size <- Cardinality(Workers),
    pending <- tasks,
    active <- InProgress,
    finished <- done,
    closing <- stop

ImplementsTaskPool == Abstract!Spec

=============================================================================
