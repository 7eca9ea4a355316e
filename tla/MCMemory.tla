------------------------------ MODULE MCMemory ------------------------------
(***************************************************************************)
(* The instance of Memory that TLC checks: no action tells tasks apart.    *)
(***************************************************************************)
EXTENDS Memory, TLC

TaskSymmetry == Permutations(Tasks)
=============================================================================
