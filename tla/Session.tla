------------------------------ MODULE Session ------------------------------
(***************************************************************************)
(* One drun session: every tool call that changes its checkpoint history,  *)
(* its overlays or its record of steps, in any order.  An action is a      *)
(* whole handler of drun-mcp together with the Session method it calls.    *)
(* A call that is refused leaves the session as it was, except a mount     *)
(* refused at the checkpoint limit (MountRefused).                         *)
(***************************************************************************)
EXTENDS Checkpoints

CONSTANTS
  OverlayKeys,  \* directories a mount turns into overlays instead of files
  MaxCalls      \* bound: tool calls of one behaviour

ASSUME CallsAssumption == MaxCalls \in Nat

VARIABLES
  history,   \* checkpoints and head
  overlays,  \* overlay keys, never part of a checkpoint
  calls      \* number of tool calls that recorded a step so far

vars == <<history, overlays, calls>>

TypeOK ==
  /\ history \in History
  /\ history.head < Count(history)
  /\ overlays \in SUBSET OverlayKeys
  /\ calls \in Nat

\* A new session has no files and no overlays, a fork those of its source.
Init ==
  /\ \E files \in FileMap :
       /\ Fits(files)
       /\ history = NewHistory(files)
  /\ overlays \in SUBSET OverlayKeys
  /\ calls = 0

-----------------------------------------------------------------------------
\* The tail of every call that makes a checkpoint: push_checkpoint.
Commit(files) ==
  /\ calls < MaxCalls
  /\ ~LimitReached(history, MaxCheckpoints)
  /\ history' = Push(history, files, calls)
  /\ calls' = calls + 1

\* session_write_files, session_fetch and session_extract_text save new contents.
WriteFiles(written) ==
  /\ Fits(Overlay(Current(history).files, written))
  /\ Commit(Overlay(Current(history).files, written))
  /\ UNCHANGED overlays

\* session_delete_files checks no size and needs every path to be there.
DeleteFiles(gone) ==
  /\ gone \subseteq Present(Current(history).files)
  /\ Commit(Without(Current(history).files, gone))
  /\ UNCHANGED overlays

\* session_bash: the command may leave any files behind (see Workspace.tla).
ExecuteBash(files) ==
  /\ Fits(files)
  /\ Commit(files)
  /\ UNCHANGED overlays

\* session_package_install merges the target directory only when it exits 0;
\* a failed install makes a checkpoint all the same.
InstallPackage(installed, succeeded) ==
  LET files == IF succeeded THEN Overlay(Current(history).files, installed)
                            ELSE Current(history).files
  IN  /\ Fits(files)
      /\ Commit(files)
      /\ UNCHANGED overlays

Mount(files, dirs) ==
  /\ Fits(Overlay(Current(history).files, files))
  /\ Commit(Overlay(Current(history).files, files))
  /\ overlays' = overlays \cup dirs

\* mount inserts the overlays before push_checkpoint checks the limit.
MountRefused(files, dirs) ==
  /\ Fits(Overlay(Current(history).files, files))
  /\ LimitReached(history, MaxCheckpoints)
  /\ overlays' = overlays \cup dirs
  /\ UNCHANGED <<history, calls>>

\* session_merge: all of the source checkpoint's files, or those of some keys.
MergeFrom(source, keys) ==
  /\ keys \subseteq Present(source)
  /\ Fits(Overlay(Current(history).files, Only(source, keys)))
  /\ Commit(Overlay(Current(history).files, Only(source, keys)))
  /\ UNCHANGED overlays

-----------------------------------------------------------------------------
\* The tail of every other call: the step goes to checkpoint i of h.
Note(h, i) ==
  /\ calls < MaxCalls
  /\ history' = RecordStep(h, i, calls)
  /\ calls' = calls + 1
  /\ UNCHANGED overlays

RollbackToId(i) ==
  /\ i \in Ids(history)
  /\ LET moved == Rollback(history, i) IN Note(moved, moved.head)

RollbackToLabel(l) ==
  /\ Labelled(history, l) /= {}
  /\ CheckpointByLabel(history, l) \in Ids(history)
  /\ LET moved == Rollback(history, CheckpointByLabel(history, l)) IN Note(moved, moved.head)

\* The web UI's rollback records no step.
WebRollback(i) ==
  /\ i \in Ids(history)
  /\ history' = Rollback(history, i)
  /\ UNCHANGED <<overlays, calls>>

CheckpointLabel(i, l) ==
  /\ i \in Ids(history)
  /\ Note(SetLabel(history, i, l), i)

CheckpointSquash(from, to, l) ==
  /\ CanSquash(history, from, to)
  /\ Note(Squash(history, from, to, l), from)

CheckpointDrop(from, to) ==
  /\ CanDrop(history, from, to)
  /\ LET left == Drop(history, from, to) IN Note(left, left.head)

\* The calls that only read: get_session_state, session_history, session_diff,
\* session_read_file(s), session_export, checkpoint_read_stdstreams,
\* session_snapshot, session_chat_record.
Observe == Note(history, history.head)

-----------------------------------------------------------------------------
Next ==
  \/ \E files \in FileMap : WriteFiles(files) \/ ExecuteBash(files)
  \/ \E gone \in SUBSET Keys : DeleteFiles(gone)
  \/ \E files \in FileMap, succeeded \in BOOLEAN : InstallPackage(files, succeeded)
  \/ \E files \in FileMap, dirs \in SUBSET OverlayKeys :
       Mount(files, dirs) \/ MountRefused(files, dirs)
  \/ \E files \in FileMap : \E keys \in SUBSET Keys : MergeFrom(files, keys)
  \/ \E i \in Ids(history) : RollbackToId(i) \/ WebRollback(i)
  \/ \E l \in Labels : RollbackToLabel(l)
  \/ \E i \in Ids(history), l \in Labels \cup {NoLabel} : CheckpointLabel(i, l)
  \/ \E from, to \in Ids(history), l \in Labels \cup {NoLabel} : CheckpointSquash(from, to, l)
  \/ \E from, to \in Ids(history) : CheckpointDrop(from, to)
  \/ Observe

Spec == Init /\ [][Next]_vars

-----------------------------------------------------------------------------
(***************************************************************************)
(* Properties.                                                             *)
(***************************************************************************)

\* Every id the tools hand out addresses the checkpoint that carries it,
\* whatever sequence of truncations, squashes and drops renumbered the vector
\* (checkpoint_by_label returns the stored id, every other tool an index).
IdsAreIndices == \A i \in Ids(history) : At(history, i).id = i

\* max_checkpoints and max_workspace_mb bound the whole history, also what a
\* rollback brings back, although delete_files, rollback, squash and drop
\* check neither.
WithinLimits ==
  /\ Count(history) <= MaxCheckpoints
  /\ \A i \in Ids(history) : Fits(At(history, i).files)

\* The vector is in the order the calls were made: the call that made an
\* earlier checkpoint came before every call recorded at a later one.
Chronology ==
  \A i, j \in Ids(history) :
    1 <= i /\ i < j =>
      \E made \in At(history, i).steps : \A c \in At(history, j).steps : made < c

\* No call is recorded at two checkpoints, as a squash that copied the steps
\* of a checkpoint it does not remove would have it.
RecordedOnce ==
  \A i, j \in Ids(history) : i /= j => At(history, i).steps \cap At(history, j).steps = {}

Recorded(h, ids) == UNION {At(h, i).steps : i \in ids}

\* Nothing but a drop erases the record of the calls up to the head: a new
\* checkpoint erases only what a rollback left ahead of the head, and a squash
\* moves the steps it removes into the checkpoint that replaces them.
TrailKept ==
  [][ \/ Recorded(history, 0 .. history.head) \subseteq Recorded(history', Ids(history'))
      \/ \E from, to \in Ids(history) : CheckpointDrop(from, to) ]_vars

\* Editing the history never changes the files the session works on, except
\* that a squash whose range holds the head jumps to the range's last state.
EditsKeepCurrent ==
  [][ /\ \A from, to \in Ids(history) : CheckpointDrop(from, to) =>
           Current(history').files = Current(history).files
      /\ \A from, to \in Ids(history) : \A l \in Labels \cup {NoLabel} :
           CheckpointSquash(from, to, l) =>
             Current(history').files =
               IF history.head \in from .. to THEN At(history, to).files
                                              ELSE Current(history).files ]_vars

\* A rollback to a label ends at a checkpoint that carries the label.
RollbackHitsLabel ==
  [][ \A l \in Labels : RollbackToLabel(l) => Current(history').label = l ]_vars

\* The session implements the abstract timeline of workspace states: what a
\* user relies on when rolling back, squashing and dropping in any order.
StatesOf(h) == [i \in 1 .. Count(h) |-> h.checkpoints[i].files]
T == INSTANCE Timeline WITH States <- FileMap, line <- StatesOf(history),
                            now <- history.head + 1
ImplementsTimeline == T!Spec
=============================================================================
