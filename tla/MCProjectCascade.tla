-------------------------- MODULE MCProjectCascade --------------------------
(* Instances of ProjectCascade for TLC.                                     *)
EXTENDS ProjectCascade, TLC
============================================================================
