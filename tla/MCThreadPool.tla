---------------------------- MODULE MCThreadPool ----------------------------
(***************************************************************************)
(* Instances of ThreadPool for TLC.                                        *)
(***************************************************************************)
EXTENDS ThreadPool, TLC

CONSTANTS w1, w2, w3, t1, t2, t3

TwoWorkers   == {w1, w2}
ThreeWorkers == {w1, w2, w3}
TwoTasks     == {t1, t2}
ThreeTasks   == {t1, t2, t3}

Symmetry == Permutations(ThreeWorkers) \cup Permutations(ThreeTasks)

=============================================================================
