-------------------------------- MODULE Views --------------------------------
(***************************************************************************)
(* What the tools and the web UI tell of a session: the state an answer    *)
(* describes, the listing of its checkpoints, what they show of one        *)
(* checkpoint by its id, and diffs.  All of it is read from the history of *)
(* Session.tla.  Files are told by name; the sizes of files and outputs    *)
(* are left out, and an answer's counts are the sets that are counted.     *)
(***************************************************************************)
EXTENDS Session

CONSTANTS
  EmptyFile,  \* the content of no bytes
  None        \* None of an optional id, label or set of files

ASSUME NamesAssumption == None \notin Nat \cup Labels \cup FileMap

-----------------------------------------------------------------------------
\* FileDelta::compute: nothing, when there is nothing to compare with.
NoDelta == [added |-> {}, modified |-> {}, removed |-> {}]
Delta(previous, current) ==
  IF previous = None THEN NoDelta
  ELSE [added    |-> Present(current) \ Present(previous),
        modified |-> {k \in Present(current) \cap Present(previous) : current[k] /= previous[k]},
        removed  |-> Present(previous) \ Present(current)]

\* SessionState::compute, which answers most calls.
StateAnswer(h, previous) ==
  [checkpoint |-> Current(h).id,
   files      |-> Present(Current(h).files),
   delta      |-> Delta(previous, Current(h).files)]

\* get_session_state and session_chat_record describe it without a comparison.
QuietAnswer(h) == StateAnswer(h, None)

\* Mutant: a checkpoint is compared with the one the session is at.
EntryAgainstHead(h, i) ==
  [checkpoint |-> At(h, i).id,
   label      |-> At(h, i).label,
   steps      |-> At(h, i).steps,
   files      |-> Present(At(h, i).files),
   delta      |-> Delta(IF i > 0 THEN Current(h).files ELSE None, At(h, i).files)]

\* One entry of session_history, of the web UI's history and of a session's tree.
Entry(h, i) ==
  [checkpoint |-> At(h, i).id,
   label      |-> At(h, i).label,
   steps      |-> At(h, i).steps,
   files      |-> Present(At(h, i).files),
   delta      |-> Delta(IF i > 0 THEN At(h, i - 1).files ELSE None, At(h, i).files)]

\* The tree marks the checkpoint whose id is the current one's.
IsCurrent(h, i) == At(h, i).id = Current(h).id

-----------------------------------------------------------------------------
\* The web UI's page of one checkpoint's files, and of one file.
FilesOf(h, id) == Present(At(h, id).files)
FileOf(h, id, k) == IF k \in FilesOf(h, id) THEN At(h, id).files[k] ELSE None

\* Session::diff: the files it has lines for.  A missing file reads as no bytes.
Bytes(files, k) == IF files[k] = Absent THEN EmptyFile ELSE files[k]

\* Mutant: a file that one side lacks is passed over.
DiffOfCommon(h, from, to) ==
  LET a == At(h, from).files  b == At(h, to).files
  IN  {k \in Present(a) \cap Present(b) : a[k] /= b[k]}

Diff(h, from, to) ==
  {k \in Present(At(h, from).files) \cup Present(At(h, to).files) :
     Bytes(At(h, from).files, k) /= Bytes(At(h, to).files, k)}

\* resolve_checkpoint: a label wins over an id.
Resolve(h, id, label) == IF label /= None THEN CheckpointByLabel(h, label) ELSE id

\* session_diff shows the current checkpoint against the one before it unless it is
\* told otherwise, the web UI against checkpoint 0.
SessionDiff(h, from, to) ==
  LET end == IF to = None THEN Current(h).id ELSE to
      start == IF from = None THEN (IF end = 0 THEN 0 ELSE end - 1) ELSE from
  IN  Diff(h, start, end)
WebDiff(h, from, to) ==
  Diff(h, IF from = None THEN 0 ELSE from, IF to = None THEN Current(h).id ELSE to)

-----------------------------------------------------------------------------
(***************************************************************************)
(* Properties.                                                             *)
(***************************************************************************)

\* The steps that made a checkpoint: only its maker is recorded at it.
Made == history'.head > 0 /\ Current(history').steps = {calls}

\* The files a diff between two states of files can show: not those that are
\* empty on one side and missing on the other.
Seen(delta, a, b) ==
  {k \in delta.added \cup delta.modified \cup delta.removed : Bytes(a, k) /= Bytes(b, k)}

\* Whatever was rolled back, squashed or dropped before, the answer to a call that
\* made a checkpoint, that checkpoint's entry in the history and session_diff
\* without arguments tell of the same change, though one is computed from the
\* files before the call and two from neighbours in the vector.  (Of these calls a
\* merge answers with a state that is compared with nothing.)  A call that only
\* reads answers with the state it found.  The answer to a rollback tells what a diff from the checkpoint left to the one reached shows.
Agreement ==
  LET before == Current(history).files
      answer == StateAnswer(history', before)
      shown == Seen(answer.delta, before, Current(history').files)
  IN  /\ Made =>
           /\ Entry(history', answer.checkpoint).delta = answer.delta
           /\ SessionDiff(history', None, None) = shown
      /\ Observe => QuietAnswer(history') = answer
      /\ \A i \in Ids(history) : RollbackToId(i) =>
           SessionDiff(history', history.head, Resolve(history', i, None)) = shown
      /\ \A l \in Labels : RollbackToLabel(l) =>
           SessionDiff(history', history.head, Resolve(history', None, l)) = shown
AnswersAgree == [][Agreement]_vars

\* A tool call or a page that acts on an id it read before means the checkpoint it
\* read about: the files, the changes and the calls told of an id stay what they
\* were, but for calls added to it, until a squash or drop at or before it or a new
\* checkpoint made behind it.
Told(h, i) ==
  [files |-> [k \in Keys |-> FileOf(h, i, k)],
   delta |-> Entry(h, i).delta,
   since_start |-> WebDiff(h, None, i)]
Renumbers(i) ==
  \/ \E from, to \in Ids(history) : CheckpointDrop(from, to) /\ from <= i
  \/ \E from, to \in Ids(history), l \in Labels \cup {NoLabel} :
       CheckpointSquash(from, to, l) /\ from <= i
Cuts(i) == i > history.head /\ Made
StaysPut(i) ==
  /\ i \in Ids(history')
  /\ Told(history', i) = Told(history, i)
  /\ Entry(history, i).steps \subseteq Entry(history', i).steps
  /\ IsCurrent(history', i) <=> history'.head = i
IdsStayPut ==
  [][\A i \in Ids(history) : StaysPut(i) \/ Renumbers(i) \/ Cuts(i)]_vars
=============================================================================
