-------------------------- MODULE MCManagedProcess --------------------------
(***************************************************************************)
(* ManagedProcess with two interchangeable processes, for TLC.             *)
(***************************************************************************)
EXTENDS ManagedProcess, TLC

Symmetric == Permutations(Procs)
=============================================================================
