----------------------------- MODULE MCFileLock -----------------------------
(***************************************************************************)
(* Instances of FileLock for TLC: with three contenders two can recover    *)
(* the lock that a third has left, while it is still running.              *)
(***************************************************************************)
EXTENDS FileLock, TLC

CONSTANTS c1, c2, c3

Symmetry == Permutations(Contenders)
=============================================================================
