----------------------------- MODULE MCSession -----------------------------
(* Session on a small instance: file sizes are numbers of present keys.    *)
EXTENDS Views, FiniteSets, TLC

CONSTANT MaxFiles  \* the workspace limit, in files

MCFits(files) == Cardinality(Present(files)) <= MaxFiles

KeySymmetry == Permutations(Keys)
=============================================================================
