--------------------------- MODULE MCProjectIndex ---------------------------
(* Instances of ProjectIndex for TLC.                                       *)
EXTENDS ProjectIndex
=============================================================================
