-------------------------- MODULE MCAsyncProcesses --------------------------
(* Instances of AsyncProcesses for TLC.                                     *)
EXTENDS AsyncProcesses
=============================================================================
