---------------------------- MODULE MCConfigFile ----------------------------
(* ConfigFile with two lists and two values.                               *)
EXTENDS ConfigFile, TLC

CONSTANTS v1, v2

\* As installed, without a list, with a list that has two entries, with one that
\* is no list.
MCHandWritten ==
  { DomainAllowlist :> <<v1>> @@ MountAllowlist :> <<>>,
    DomainAllowlist :> Missing @@ MountAllowlist :> <<v2>>,
    DomainAllowlist :> <<v1, v2>> @@ MountAllowlist :> Missing,
    DomainAllowlist :> <<>> @@ MountAllowlist :> Scalar }

MCRegistries == <<v1>>

Symmetry == Permutations(Editors) \cup Permutations(Inodes)
=============================================================================
