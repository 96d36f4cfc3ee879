-------------------------- MODULE MCRecursiveMutex --------------------------
(***************************************************************************)
(* A small instance of RecursiveMutex for TLC.                             *)
(***************************************************************************)
EXTENDS RecursiveMutex, TLC

CONSTANTS t1, t2, t3

ThreadSymmetry == Permutations(Threads)
=============================================================================
