----------------------------- MODULE MCExecutor -----------------------------
(* Executor on a small instance.                                           *)
EXTENDS Executor, TLC

Symmetry == Permutations(Calls)
=============================================================================
