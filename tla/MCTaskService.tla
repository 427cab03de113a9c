---------------------------- MODULE MCTaskService ----------------------------
(* The instances of TaskService for TLC: the calls and the tasks are model *)
(* values, interchangeable where no liveness property is checked.          *)
EXTENDS TaskService, TLC
CONSTANTS c1, c2, c3, t1, t2
Symmetry == Permutations(Calls) \cup Permutations(Tasks)
=============================================================================
