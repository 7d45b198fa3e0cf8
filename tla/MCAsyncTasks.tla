---------------------------- MODULE MCAsyncTasks ----------------------------
(* Instances of AsyncTasks for TLC: which tasks and handles there are is    *)
(* chosen in the .cfg files.                                                *)
EXTENDS AsyncTasks, TLC

TaskSymmetry == Permutations(Task)
=============================================================================
