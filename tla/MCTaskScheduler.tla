-------------------------- MODULE MCTaskScheduler --------------------------
(* TLC instance: a timed_queue of two slots, so that a third and a fourth  *)
(* timed task go to timed_list and the merge loop has both sources.        *)
EXTENDS TaskScheduler, TLC

Symmetry == Permutations(Task)
=============================================================================
