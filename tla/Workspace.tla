----------------------------- MODULE Workspace -----------------------------
(***************************************************************************)
(* The directory a session's commands run in (workspace.rs) and the        *)
(* execute_bash calls that use it: sync_to brings the directory to the     *)
(* files of the current checkpoint, the command changes it, and            *)
(* collect_changes reads back the next checkpoint's files.  A call that    *)
(* fails in between leaves the directory as it is.                         *)
(*                                                                         *)
(* A modification time is only ever compared with the one recorded for the *)
(* same file, so a file carries whether the two differ: `touched`.  What a *)
(* command leaves may be a symbolic link, or a file under two names        *)
(* (`shared`); where either leads is left open, so that a write or removal *)
(* that meets one may change any file it could lead to.                    *)
(***************************************************************************)
EXTENDS Naturals

CONSTANTS
  Keys,        \* workspace-relative paths
  Blobs,       \* file contents
  Absent,      \* no such key in a file map, nothing at a path of the directory
  Dir,         \* a directory at the path
  Link,        \* a symbolic link at the path
  Inside,      \* <<d, f>>: path f lies in the directory d
  Length,      \* the length of a content
  MayTimeOut,  \* whether a command can fail or hit bash_timeout_ms
  SameTick     \* whether a changed file can keep its modification time

ASSUME InsideAssumption ==
  /\ Inside \subseteq Keys \X Keys
  /\ \A p, q \in Inside : p[2] /= q[1]

ASSUME LengthAssumption == Length \in [Blobs -> Nat]

ASSUME WorkspaceFlags == MayTimeOut \in BOOLEAN /\ SameTick \in BOOLEAN

FileMap == [Keys -> Blobs \cup {Absent}]
Present(files) == {k \in Keys : files[k] /= Absent}

File == [blob : Blobs, touched : BOOLEAN, shared : BOOLEAN]

ASSUME WorkspaceNames ==
  /\ Absent \notin Blobs \cup File
  /\ Dir \notin File \cup {Absent}
  /\ Link \notin File \cup {Absent, Dir}

VARIABLES
  head,    \* the file map of the current checkpoint
  disk,    \* what is at each path of the directory
  synced,  \* Workspace::synced: the content last known to be at a path
  phase,   \* "running" while a command runs, "ended" until its files are read
  settled  \* whether, since the last command that was collected, no command and no
           \* reading failed, no write was torn and none met a link

workspaceVars == <<head, disk, synced, phase, settled>>

IsFile(d, k) == d[k] \in File

\* Paths of a directory tree: what holds a file is a directory.
Placed(d) == \A p \in Inside : d[p[2]] /= Absent => d[p[1]] = Dir

Directory == {d \in [Keys -> File \cup {Dir, Link, Absent}] : Placed(d)}

WorkspaceTypeOK ==
  /\ head \in FileMap
  /\ disk \in Directory
  /\ synced \in FileMap
  /\ phase \in {"idle", "running", "ended"}
  /\ settled \in BOOLEAN

WorkspaceInit ==
  /\ head \in FileMap
  /\ disk = [k \in Keys |-> Absent]
  /\ synced = [k \in Keys |-> Absent]
  /\ phase = "idle"
  /\ settled = TRUE

\* The files in the directory, as a file map.
FilesOn(d) == [k \in Keys |-> IF IsFile(d, k) THEN d[k].blob ELSE Absent]

-----------------------------------------------------------------------------
(***************************************************************************)
(* sync_to.                                                                *)
(***************************************************************************)
\* Mutant: files that left the checkpoint stay on disk.
NothingStale == {}

Stale == {k \in Keys : synced[k] /= Absent /\ head[k] = Absent}

\* Paths that lie behind a link on their way, and those that are or lie behind one.
Past(d) == {k \in Keys : \E p \in Inside : p[2] = k /\ d[p[1]] = Link}
Behind(d) == Past(d) \cup {k \in Keys : d[k] = Link}

Shared(d) == {k \in Keys : IsFile(d, k) /\ d[k].shared}

\* remove_file fails on what is not there and on a directory; a link itself goes.
Unremovable == {k \in Stale : disk[k] \in {Absent, Dir}} \ Past(disk)

\* The directories some removals can leave: one past a link may take any file.
Removed(removed) ==
  LET d == [k \in Keys |-> IF k \in removed THEN Absent ELSE disk[k]] IN
  IF removed \cap Past(disk) = {} THEN {d}
  ELSE {e \in Directory : \A k \in Keys : e[k] = d[k] \/ (e[k] = Absent /\ d[k] /= Dir)}

\* A key whose Arc is the synced one is skipped.  Equal contents are the same
\* Arc or not depending on the interner: either may be.
MayBeSkipped == {k \in Present(head) : synced[k] = head[k]}

\* create_dir_all and write fail when a directory is in the way of a file, or
\* a file in the way of a directory.
Blocked(d, k) == d[k] = Dir \/ \E p \in Inside : p[2] = k /\ IsFile(d, p[1])
Clash(ks) == \E p \in Inside : p[1] \in ks /\ p[2] \in ks
CanWrite(d, ks) == ~Clash(ks) /\ \A k \in ks : ~Blocked(d, k)

\* The directories above `made` are made, and `ks` written where no link is.
Written(d, ks, made) ==
  [k \in Keys |->
     IF k \in ks \ Behind(d)
     THEN [blob |-> head[k], touched |-> FALSE, shared |-> k \in Shared(d)]
     ELSE IF d[k] = Absent /\ \E p \in Inside : p[1] = k /\ p[2] \in made THEN Dir
     ELSE d[k]]

\* The paths a write of `ks` may land on besides: anywhere from behind a link,
\* on the other names of a file.
Elsewhere(d, ks) ==
  {j \in Keys : ks \cap Behind(d) /= {} \/ (j \in Shared(d) /\ ks \cap Shared(d) /= {})}

\* Writes beside the record of it: the paths they hit, what these hold now (some of
\* the bytes, or another file's, so it is left open) and whether the time tells.
Stray(d, js) == [hit : SUBSET {j \in js : d[j] \notin {Dir, Link}},
                 bytes : [js -> Blobs], kept : [js -> {FALSE, SameTick}]]

Struck(d, w) ==
  [k \in Keys |->
     IF k \in w.hit
     THEN [blob |-> w.bytes[k], touched |-> ~w.kept[k], shared |-> k \in Shared(d)]
     ELSE d[k]]

\* The directories in which some of `js` have been written so.
Overwritten(d, js) == {e \in {Struck(d, w) : w \in Stray(d, js)} : Placed(e)}

\* What a sync has done to `synced` and to the directory once it has removed and
\* written so much; `torn` is what it was at when it failed.
Synced(removed, written, torn) ==
  /\ synced' = [k \in Keys |-> IF k \in written THEN head[k]
                               ELSE IF k \in removed THEN Absent ELSE synced[k]]
  /\ \E d \in Removed(removed) :
       LET astray == Elsewhere(d, written \cup torn) \cup torn IN
       /\ CanWrite(d, written \cup torn)
       /\ disk' \in Overwritten(Written(d, written, written \cup torn), astray)
       /\ settled' = (settled /\ astray = {} /\ removed \cap Past(disk) = {})

\* The directory is brought to the current checkpoint and the command starts.
StartBash ==
  /\ phase = "idle"
  /\ Unremovable = {}
  /\ \E skipped \in SUBSET MayBeSkipped : Synced(Stale, Present(head) \ skipped, {})
  /\ phase' = "running"
  /\ UNCHANGED head

\* A removal fails, for what is there or for want of permission: those before it,
\* in the order of a hash map, are done.
RemoveFails ==
  /\ phase = "idle"
  /\ \E removed \in SUBSET (Stale \ Unremovable) : removed /= Stale /\ Synced(removed, {}, {})
  /\ UNCHANGED <<head, phase>>

\* A write fails, for what is there, for want of permission or of room: the removals
\* and some of the writes are done, and the one that failed may be begun.
WriteFails ==
  /\ phase = "idle"
  /\ Unremovable = {}
  /\ \E skipped \in SUBSET MayBeSkipped :
     \E written \in SUBSET (Present(head) \ skipped) :
     \E k \in Present(head) \ (skipped \cup written) :
     \E torn \in SUBSET {k} : Synced(Stale, written, torn)
  /\ UNCHANGED <<head, phase>>

-----------------------------------------------------------------------------
\* What a command can make of the directory: it writes a file at a later time
\* than the one recorded, unless SameTick, and may make links of both kinds.
Reachable ==
  {d \in Directory : \A k \in Keys :
     IsFile(d, k) /\ ~d[k].touched /\ ~SameTick =>
       IsFile(disk, k) /\ d[k].blob = disk[k].blob /\ ~disk[k].touched}

\* The sandboxed command does something to the directory.
Command ==
  /\ phase = "running"
  /\ disk' \in Reachable
  /\ phase' = "ended"
  /\ UNCHANGED <<head, synced, settled>>

\* Mutant: only the length is compared.
SameLength(k) == synced[k] /= Absent /\ Length[disk[k].blob] = Length[synced[k]]

\* collect_changes trusts the time and the length of a file it knows.
Unchanged(k) ==
  /\ synced[k] /= Absent
  /\ ~disk[k].touched
  /\ Length[disk[k].blob] = Length[synced[k]]

\* What is no regular file, a link too, is passed over.
Collected ==
  [k \in Keys |-> IF ~IsFile(disk, k) THEN Absent
                  ELSE IF Unchanged(k) THEN synced[k] ELSE disk[k].blob]

\* Mutant: a file that is gone stays in `synced`.
CollectKeeping ==
  /\ phase = "ended"
  /\ synced' = [k \in Keys |-> IF IsFile(disk, k) THEN Collected[k] ELSE synced[k]]
  /\ disk' = [k \in Keys |-> IF IsFile(disk, k) THEN [disk[k] EXCEPT !.touched = FALSE]
                                                ELSE disk[k]]
  /\ phase' = "idle" /\ settled' = TRUE

Collect ==
  /\ phase = "ended"
  /\ synced' = Collected
  /\ disk' = [k \in Keys |-> IF IsFile(disk, k) THEN [disk[k] EXCEPT !.touched = FALSE]
                                                ELSE disk[k]]
  /\ phase' = "idle" /\ settled' = TRUE

\* The command ends and its files become the next checkpoint.
BashRecorded == Collect /\ head' = Collected

\* The command ends, its files are read, and the checkpoint is refused by
\* max_checkpoints or max_workspace_mb.
BashRefused == Collect /\ UNCHANGED head

\* collect_changes fails at something it cannot read: the files it met before that
\* are recorded, and what `synced` should have lost stays.
CollectFails ==
  /\ phase = "ended"
  /\ \E met \in SUBSET {k \in Keys : IsFile(disk, k)} :
       /\ synced' = [k \in Keys |-> IF k \in met THEN Collected[k] ELSE synced[k]]
       /\ disk' = [k \in Keys |-> IF k \in met THEN [disk[k] EXCEPT !.touched = FALSE]
                                             ELSE disk[k]]
  /\ phase' = "idle" /\ settled' = FALSE
  /\ UNCHANGED head

\* The command is killed at its timeout (or could not be spawned): execute_bash
\* returns before collect_changes.
BashTimesOut ==
  /\ MayTimeOut
  /\ phase \in {"running", "ended"}
  /\ phase' = "idle" /\ settled' = FALSE
  /\ UNCHANGED <<head, disk, synced>>

\* Every other call that changes the current checkpoint's files: see Session.
OtherCall ==
  /\ phase = "idle"
  /\ head' \in FileMap \ {head}
  /\ UNCHANGED <<disk, synced, phase, settled>>

WorkspaceNext ==
  \/ StartBash \/ RemoveFails \/ WriteFails
  \/ Command
  \/ BashRecorded \/ BashRefused \/ CollectFails \/ BashTimesOut
  \/ OtherCall

WorkspaceSpec == WorkspaceInit /\ [][WorkspaceNext]_workspaceVars

-----------------------------------------------------------------------------
(***************************************************************************)
(* Properties.                                                             *)
(***************************************************************************)

\* Between commands `synced` is exactly what the directory holds: after a sync
\* that failed half way, after a checkpoint that was refused, and again as soon as
\* one command is collected, whatever failed commands, failed readings, torn writes
\* and links left behind before it.  Until then it need not be (`settled`).
TracksDisk ==
  /\ WorkspaceTypeOK
  /\ phase = "idle" /\ settled => FilesOn(disk) = synced

\* So a command starts on exactly the files of the current checkpoint, whatever
\* rollbacks, deletions and refusals came before, unless a link an earlier command
\* made is on the way to one of them, or one of them is a file under two names:
\* sync_to writes through both, and `synced` does not know of it.
MirrorsHead ==
  [][ StartBash /\ settled /\ Present(head) \cap (Behind(disk) \cup Shared(disk)) = {} =>
        FilesOn(disk') = head ]_workspaceVars

\* A checkpoint made by a command holds exactly the files the command left, also
\* those of failed commands before it and those that links led the sync to.
RecordsDisk == [][BashRecorded => head' = FilesOn(disk)]_workspaceVars
=============================================================================
