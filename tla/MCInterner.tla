---------------------------- MODULE MCInterner ----------------------------
(* Interner with two contents that collide and one that does not.          *)
EXTENDS Interner, TLC

CONSTANTS x, y, z, MaxAddress

MCFits(files) == TRUE
MCHashes == {1, 2}
MCContents == {x, y, z}
MCAddresses == 1 .. MaxAddress
MCBlobs == MCContents \cup 0 .. MaxAddress
MCHash == [c \in MCContents |-> IF c = z THEN 2 ELSE 1]
Symmetry == Permutations(Keys) \cup Permutations(Sessions) \cup Permutations({x, y})
=============================================================================
