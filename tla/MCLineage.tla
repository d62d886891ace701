----------------------------- MODULE MCLineage -----------------------------
(* Lineage on a small instance: file sizes are numbers of present keys.    *)
EXTENDS Lineage, FiniteSets, TLC

CONSTANT MaxFiles  \* the larger workspace limit, in files

MCFits(files) == Cardinality(Present(files)) <= MaxFiles

\* The limits at their largest, and lowered to two checkpoints without any files.
MCConfigs ==
  {[checkpoints |-> MaxCheckpoints, fits |-> {files \in FileMap : MCFits(files)}],
   [checkpoints |-> 2, fits |-> {NoFiles}]}

Symmetry == Permutations(Sessions) \cup Permutations(Keys)
=============================================================================
