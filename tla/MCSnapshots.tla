---------------------------- MODULE MCSnapshots ----------------------------
(* Snapshots with two requests, one name of a caller's beside the defaults. *)
EXTENDS Snapshots, TLC

MCObjects == 1 .. 3
\* Its sidecar is that of the default path of "a".
MCChosen == {<<"a", "bin">>}
Symmetry == Permutations(Writers)
=============================================================================
