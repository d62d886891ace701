---------------------------- MODULE MCWorkspace ----------------------------
(* Workspace on three paths, two of them nested: contents of one length. *)
EXTENDS Workspace, TLC

CONSTANTS k1, k2, k3, b1, b2

MCFlat == {}
MCNested == {<<k1, k2>>}
MCLength == [b \in Blobs |-> 1]

MCSymmetry == Permutations({b1, b2})
=============================================================================
