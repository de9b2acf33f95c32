------------------------------ MODULE TaskPool ------------------------------
(***************************************************************************)
(* What ThreadPool.h promises its callers, without workers, mutexes or     *)
(* condition variables: tasks start in the order in which they were        *)
(* pushed, at most Size of them are in progress at a time, each runs once, *)
(* and once the pool is closing none of those still waiting will start.    *)
(* ThreadPool.tla implements this module; ChatRoom.tla runs the server's   *)
(* threads on it.                                                          *)
(***************************************************************************)
EXTENDS Naturals, Sequences, FiniteSets

CONSTANTS
    Tasks,  \* everything that may ever be pushed
    Size    \* THREAD_COUNT

VARIABLES
    pending,   \* the tasks pushed and not started, oldest first
    active,    \* the tasks in progress
    finished,  \* the tasks that have returned
    closing    \* the destructor has been entered

vars == <<pending, active, finished, closing>>

Waiting == { pending[i] : i \in DOMAIN pending }

Init ==
    /\ pending = <<>>
    /\ active = {}
    /\ finished = {}
    /\ closing = FALSE

Submit(t) ==
    /\ t \notin Waiting \cup active \cup finished
    /\ pending' = Append(pending, t)
    /\ UNCHANGED <<active, finished, closing>>

Start ==
    /\ ~closing
    /\ pending # <<>>
    /\ Cardinality(active) < Size
    /\ pending' = Tail(pending)
    /\ active' = active \cup {Head(pending)}
    /\ UNCHANGED <<finished, closing>>

Return(t) ==
    /\ t \in active
    /\ active' = active \ {t}
    /\ finished' = finished \cup {t}
    /\ UNCHANGED <<pending, closing>>

Close ==
    /\ closing' = TRUE
    /\ UNCHANGED <<pending, active, finished>>

Next ==
    \/ \E t \in Tasks : Submit(t) \/ Return(t)
    \/ Start
    \/ Close

Spec == Init /\ [][Next]_vars

=============================================================================
