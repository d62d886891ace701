------------------------------ MODULE MCDaemon ------------------------------
(* Daemon on a small instance.                                             *)
EXTENDS Daemon, TLC

Symmetry == Permutations(Requests) \cup Permutations(Connections) \cup Permutations(Ids)
=============================================================================
