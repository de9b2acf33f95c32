---------------------------- MODULE MCThreadPool ----------------------------
(* Instances of ThreadPool: more tasks than workers, tasks that push       *)
(* tasks, and a destructor that may come at any moment.                    *)
EXTENDS ThreadPool

CONSTANTS w1, w2, w3, t1, t2, t3, t4

ThreeWorkers == {w1, w2, w3}
FourTasks == {t1, t2, t3, t4}
OneEndless == {t1}

=============================================================================
