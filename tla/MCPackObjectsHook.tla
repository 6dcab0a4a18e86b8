-------------------------- MODULE MCPackObjectsHook --------------------------
(***************************************************************************)
(* Instances of PackObjectsHook for TLC.                                   *)
(***************************************************************************)
EXTENDS PackObjectsHook, TLC

Symmetry == Permutations(Procs)
=============================================================================
