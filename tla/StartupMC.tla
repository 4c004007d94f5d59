----------------------------- MODULE StartupMC -----------------------------
(***************************************************************************)
(* Instances of Startup for TLC.                                           *)
(***************************************************************************)
EXTENDS Startup, TLC

ProcSymmetry == Permutations(Procs)
=============================================================================
