------------------------------ MODULE Lineage ------------------------------
(***************************************************************************)
(* Several sessions of a daemon and what relates them: forks and the       *)
(* parent a fork remembers, merges, snapshots on disk, restores, closes, a *)
(* restart of the daemon, edits of the limits in the config file, and the  *)
(* forest session_tree draws from it all.                                  *)
(*                                                                         *)
(* A session's history is edited as in Session.tla; labels, overlays and   *)
(* chat logs, which nothing here depends on, are left out.                 *)
(***************************************************************************)
EXTENDS Checkpoints

CONSTANTS
  Sessions,    \* session ids; one is never drawn twice
  NoParent,    \* parent: None, and no snapshot file
  Configs,     \* what config files say: how many checkpoints, which file maps
  MaxCalls     \* bound: tool calls and edits of the config in one behaviour

ASSUME NamesAssumption == NoParent \notin Sessions

\* Files within a size limit are within it when some of them are gone.
ASSUME ConfigsAssumption ==
  \A config \in Configs :
    /\ config.checkpoints \in 0 .. MaxCheckpoints
    /\ NoFiles \in config.fits
    /\ \A files \in config.fits :
         /\ files \in FileMap /\ Fits(files)
         /\ \A gone \in SUBSET Keys : Without(files, gone) \in config.fits

ASSUME BoundAssumption == MaxCalls \in Nat

VARIABLES
  open,       \* ids of the open sessions
  used,       \* ids of the sessions ever opened
  history,    \* the history of each session
  parent,     \* Session::parent: where a fork branched off
  branch,     \* the checkpoint it branched off, as it was then
  held,       \* what each session, or what it began with, had when the limits were set
  rewritten,  \* sessions that lost a checkpoint or had one moved
  snapshots,  \* snapshots_dir: what was last written for each session
  limits,     \* the config file
  calls       \* number of tool calls that recorded a step, and of edits, so far

session == <<history, parent, branch, held, rewritten>>
vars == <<open, used, session, snapshots, limits, calls>>

Ref == [session : Sessions, checkpoint : Nat]
Held == [count : Nat, files : SUBSET FileMap]
Snapshot == [history : History, parent : Ref \cup {NoParent},
             branch : Checkpoint \cup {NoParent}, held : Held]

\* The number of a history's checkpoints, and the files they have.
Has(h) == [count |-> Count(h), files |-> {At(h, i).files : i \in Ids(h)}]

TypeOK ==
  /\ open \subseteq used /\ used \subseteq Sessions
  /\ history \in [Sessions -> History]
  /\ \A id \in Sessions : history[id].head < Count(history[id])
  /\ parent \in [Sessions -> Ref \cup {NoParent}]
  /\ branch \in [Sessions -> Checkpoint \cup {NoParent}]
  /\ held \in [Sessions -> Held]
  /\ rewritten \subseteq used
  /\ snapshots \in [Sessions -> Snapshot \cup {NoParent}]
  /\ \A id \in used : parent[id] /= NoParent => parent[id].session \in used
  /\ limits \in Configs
  /\ calls \in Nat

Init ==
  /\ open = {} /\ used = {}
  /\ history = [id \in Sessions |-> NewHistory(NoFiles)]
  /\ parent = [id \in Sessions |-> NoParent]
  /\ branch = [id \in Sessions |-> NoParent]
  /\ held = [id \in Sessions |-> Has(NewHistory(NoFiles))]
  /\ rewritten = {}
  /\ snapshots = [id \in Sessions |-> NoParent]
  /\ limits \in Configs
  /\ calls = 0

-----------------------------------------------------------------------------
Open(id, new) ==
  /\ id \notin used
  /\ open' = open \cup {id} /\ used' = used \cup {id}
  /\ history' = [history EXCEPT ![id] = new.history]
  /\ parent' = [parent EXCEPT ![id] = new.parent]
  /\ branch' = [branch EXCEPT ![id] = new.branch]
  /\ held' = [held EXCEPT ![id] = new.held]
  /\ UNCHANGED <<rewritten, snapshots, limits, calls>>

Create(id) ==
  Open(id, [history |-> NewHistory(NoFiles), parent |-> NoParent, branch |-> NoParent,
            held |-> Has(NewHistory(NoFiles))])

\* Mutant: the fork's parent is the source's head.
ForkFromHead(source, i, id) ==
  /\ source \in open
  /\ i \in Ids(history[source])
  /\ Open(id, [history |-> Fork(history[source], i),
               parent |-> [session |-> source, checkpoint |-> history[source].head],
               branch |-> At(history[source], i),
               held |-> [held[source] EXCEPT !.count = 1]])

\* session_fork and the web UI's fork: one checkpoint's files, by index.
ForkSession(source, i, id) ==
  /\ source \in open
  /\ i \in Ids(history[source])
  /\ Open(id, [history |-> Fork(history[source], i),
               parent |-> [session |-> source, checkpoint |-> i],
               branch |-> At(history[source], i),
               held |-> [held[source] EXCEPT !.count = 1]])

\* session_restore: a new session, with the parent the old one had.  Like a fork it
\* checks no limit, whatever the config says by now.
Restore(old, id) == snapshots[old] /= NoParent /\ Open(id, snapshots[old])

\* session_close and the idle reaper; snapshot_on_close may be on.
Written(id) ==
  [snapshots EXCEPT ![id] = [history |-> history[id], parent |-> parent[id],
                             branch |-> branch[id], held |-> held[id]]]
Close(id) ==
  /\ id \in open
  /\ open' = open \ {id}
  /\ snapshots' \in {snapshots, Written(id)}
  /\ UNCHANGED <<used, session, limits, calls>>

\* The daemon stops and starts again: no session is open.
Restart ==
  /\ open /= {}
  /\ open' = {}
  /\ UNCHANGED <<used, session, snapshots, limits, calls>>

\* drun config, or an editor: calls read what the file says by now.
EditConfig ==
  /\ calls < MaxCalls
  /\ calls' = calls + 1
  /\ limits' \in Configs \ {limits}
  /\ held' = [id \in Sessions |-> Has(history[id])]
  /\ snapshots' = [id \in Sessions |->
                     IF snapshots[id] = NoParent THEN NoParent
                     ELSE [snapshots[id] EXCEPT !.held = Has(snapshots[id].history)]]
  /\ UNCHANGED <<open, used, history, parent, branch, rewritten>>

-----------------------------------------------------------------------------
\* Every checkpoint of h is where it was, with the steps it had.
KeptIn(h, new) ==
  \A i \in Ids(h) : i \in Ids(new) /\ At(h, i).steps \subseteq At(new, i).steps

\* A tool call on an open session that leaves history h.
Edit(id, h) ==
  /\ id \in open
  /\ calls < MaxCalls
  /\ calls' = calls + 1
  /\ history' = [history EXCEPT ![id] = h]
  /\ rewritten' = rewritten \cup (IF KeptIn(history[id], h) THEN {} ELSE {id})
  /\ UNCHANGED <<open, used, parent, branch, held, limits>>

\* The calls that make a checkpoint, by the files it holds.
CommitAnySize(id, files) ==  \* mutant: check_workspace_size is left out
  /\ ~LimitReached(history[id], limits.checkpoints)
  /\ Edit(id, Push(history[id], files, calls))
  /\ UNCHANGED snapshots

Commit(id, files) ==
  /\ files \in limits.fits
  /\ ~LimitReached(history[id], limits.checkpoints)
  /\ Edit(id, Push(history[id], files, calls))
  /\ UNCHANGED snapshots

\* session_delete_files looks at no size.
DeleteFiles(id, gone) ==
  /\ gone \subseteq Present(Current(history[id]).files)
  /\ ~LimitReached(history[id], limits.checkpoints)
  /\ Edit(id, Push(history[id], Without(Current(history[id]).files, gone), calls))
  /\ UNCHANGED snapshots

\* session_merge: files of a checkpoint of another session.
Merge(id, source, i, keys) ==
  LET from == At(history[source], i).files
  IN  /\ source \in open \ {id}
      /\ keys \subseteq Present(from)
      /\ Commit(id, Overlay(Current(history[id]).files, Only(from, keys)))

RollbackTo(id, i) ==
  /\ Edit(id, RecordStep(Rollback(history[id], i), i, calls))
  /\ UNCHANGED snapshots

SquashRange(id, from, to) ==
  /\ CanSquash(history[id], from, to)
  /\ Edit(id, RecordStep(Squash(history[id], from, to, NoLabel), from, calls))
  /\ UNCHANGED snapshots

DropRange(id, from, to) ==
  /\ CanDrop(history[id], from, to)
  /\ LET left == Drop(history[id], from, to) IN Edit(id, RecordStep(left, left.head, calls))
  /\ UNCHANGED snapshots

\* session_snapshot: the step it records is not in the file.
TakeSnapshot(id) ==
  /\ Edit(id, RecordStep(history[id], history[id].head, calls))
  /\ snapshots' = Written(id)

Next ==
  \/ \E id \in Sessions : Create(id) \/ Close(id) \/ TakeSnapshot(id)
  \/ \E id, other \in Sessions : Restore(other, id)
  \/ \E id, other \in Sessions : \E i \in Ids(history[other]) :
       \/ ForkSession(other, i, id)
       \/ \E keys \in SUBSET Keys : Merge(id, other, i, keys)
  \/ \E id \in Sessions, files \in FileMap : Commit(id, files)
  \/ \E id \in Sessions, gone \in SUBSET Keys : DeleteFiles(id, gone)
  \/ \E id \in Sessions : \E from, to \in Ids(history[id]) :
       RollbackTo(id, to) \/ SquashRange(id, from, to) \/ DropRange(id, from, to)
  \/ Restart \/ EditConfig

Spec == Init /\ [][Next]_vars

-----------------------------------------------------------------------------
(***************************************************************************)
(* SessionTreeNode::forest: `locked` are the sessions that were not busy,  *)
(* the others are drawn as bare nodes.                                     *)
(***************************************************************************)
Nested(s, locked) == parent[s] /= NoParent /\ parent[s].session \in locked
BranchPoints(s) ==
  {i \in Ids(history[parent[s].session]) :
     At(history[parent[s].session], i).id = parent[s].checkpoint}

Forest(locked) ==
  LET shown[s \in locked] ==
        Nested(s, locked) => BranchPoints(s) /= {} /\ shown[parent[s].session]
  IN  {s \in locked : shown[s]}

\* What session_tree and the web UI's tree may answer: any session can be busy.
Trees == {[locked |-> locked, drawn |-> Forest(locked)] : locked \in SUBSET open}

-----------------------------------------------------------------------------
(***************************************************************************)
(* Properties.                                                             *)
(***************************************************************************)

\* The forest leaves out no session, at any depth of forks of forks and restores of
\* forks, whichever sessions are busy when it is drawn, unless a session it descends
\* from was rewritten; and it draws a fork under its branch point, the checkpoint
\* with the steps that were recorded when the fork was made, unless its source was
\* rewritten.
Unbroken(locked) ==
  LET rooted[s \in locked] ==
        Nested(s, locked) => parent[s].session \notin rewritten /\ rooted[parent[s].session]
  IN  {s \in locked : rooted[s]}
UnderBranchPoint(s) ==
  \A i \in BranchPoints(s) : branch[s].steps \subseteq At(history[parent[s].session], i).steps
TreeComplete ==
  /\ \A tree \in Trees : Unbroken(tree.locked) \subseteq tree.drawn
  /\ \A s \in open :
       Nested(s, open) /\ parent[s].session \notin rewritten => UnderBranchPoint(s)

\* Whatever is done to a fork or to its source, and through a snapshot and a
\* restore, a rollback of the fork to 0 gives the files it branched off with.
BaseKept ==
  \A s \in used : branch[s] /= NoParent => At(history[s], 0).files = branch[s].files

\* What goes beyond max_checkpoints or max_workspace_mb was there when the config was
\* edited: in the session, in the one it was forked from, or in the snapshot file it was
\* restored from.  No call adds to it, however the limits are lowered and raised between
\* a snapshot, a restart and a restore; a fork and a restore check neither limit, and
\* what is left when files are deleted may be beyond one still.
Left(files, all) == \E whole \in all, gone \in SUBSET Keys : files = Without(whole, gone)
Allowed(h, had) ==
  /\ Count(h) <= limits.checkpoints \/ Count(h) <= had.count
  /\ \A i \in Ids(h) : LET files == At(h, i).files
                      IN  files \in limits.fits \/ Left(files, had.files)
LimitsEverywhere == TypeOK /\ \A s \in used : Allowed(history[s], held[s])
=============================================================================
