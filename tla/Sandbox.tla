------------------------------ MODULE Sandbox ------------------------------
(***************************************************************************)
(* What a sandboxed command sees of the host, on Linux (bwrap) and macOS   *)
(* (sandbox-exec), and which host paths, keys and commands are admitted.   *)
(* A path is the sequence of its names from the root; the host has no      *)
(* symlinks.                                                               *)
(***************************************************************************)
EXTENDS Naturals, SequencesExt

CONSTANTS
  Up,           \* the name ".."
  SystemPaths,  \* SYSTEM_READ_PATHS and the directories on PATH
  Tmp,
  TempDirs,     \* what std::env::temp_dir() may be: /tmp, where TMPDIR is not set
  WorkspaceName, StagingName, ScratchName

\* Each is a TempDir of its own.
ASSUME NamesDiffer ==
  /\ WorkspaceName /= StagingName /\ WorkspaceName /= ScratchName
  /\ StagingName /= ScratchName

VARIABLE
  temp  \* the temporary directory of the daemon's environment

WorkspaceDir == Append(temp, WorkspaceName)
StagingDir == Append(temp, StagingName)
ScratchDir == Append(temp, ScratchName)

-----------------------------------------------------------------------------
(***************************************************************************)
(* Configuration.                                                          *)
(***************************************************************************)

\* Mutant: ".." is let through.
CheckPrefix(allowlist, path) ==
  allowlist = {} \/ \E prefix \in allowlist : IsPrefix(prefix, path)

\* Config::check_mount_path; an empty allowlist admits every path.
CheckMountPath(allowlist, path) ==
  /\ Up \notin Range(path)
  /\ allowlist = {} \/ \E prefix \in allowlist : IsPrefix(prefix, path)

\* Where the system finds a path.
Into(at, name) == IF name /= Up THEN Append(at, name) ELSE IF at = <<>> THEN at ELSE Front(at)
Resolve(path) ==
  LET at[n \in 0 .. Len(path)] == IF n = 0 THEN <<>> ELSE Into(at[n - 1], path[n])
  IN  at[Len(path)]

\* validate_file_path; an absolute key is none of these sequences.
ValidKey(key) == key /= <<>> /\ Up \notin Range(key)

\* A command is the sequence of its segments, a segment the set of the patterns it
\* contains: no segment holds a denied one, every segment holds an allowed one.
CommandAllowed(denylist, allowlist, command) ==
  \A i \in DOMAIN command :
    /\ command[i] \cap denylist = {}
    /\ allowlist /= {} => command[i] \cap allowlist /= {}

-----------------------------------------------------------------------------
(***************************************************************************)
(* What a command may do where, as layers in the order of bwrap's          *)
(* arguments: a later mount lies over an earlier one.                      *)
(***************************************************************************)

\* canonicalize() fails for what is not there.
ReadOnlyPaths(existing, extra) == (extra \cup SystemPaths) \cap existing

\* Mutant: the read-only paths come last.
ReadOnlyOverAll(existing, extra, home) ==
  << [paths |-> {home, ScratchDir}, access |-> "write"],
     [paths |-> ReadOnlyPaths(existing, extra), access |-> "read"],
     [paths |-> {Tmp}, access |-> "private"] >>

\* bwrap; /dev and /proc, which come first, are left out.
BwrapCommand(existing, extra, home) ==
  << [paths |-> ReadOnlyPaths(existing, extra), access |-> "read"],
     [paths |-> {home, ScratchDir}, access |-> "write"],
     [paths |-> {Tmp}, access |-> "private"] >>

\* sandbox-exec: rules that only allow, so that leave to write outdoes leave to read;
\* the rules for /dev/null and the cache of xcrun are left out.
SbplProfile(existing, extra, home) ==
  << [paths |-> ReadOnlyPaths(existing, extra), access |-> "read"],
     [paths |-> {home, ScratchDir, Tmp}, access |-> "write"] >>

Layers(platform, existing, extra, home) ==
  IF platform = "linux" THEN BwrapCommand(existing, extra, home)
                        ELSE SbplProfile(existing, extra, home)

Access(layers, path) ==
  LET over == {i \in DOMAIN layers : \E p \in layers[i].paths : IsPrefix(p, path)}
  IN  IF over = {} THEN "none" ELSE layers[CHOOSE i \in over : \A j \in over : j <= i].access

\* bwrap's last layer, an empty /tmp, lies over a directory in it.
Hidden(platform, dir) == platform = "linux" /\ IsPrefix(Tmp, dir)
=============================================================================
