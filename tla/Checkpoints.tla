---------------------------- MODULE Checkpoints ----------------------------
(***************************************************************************)
(* The checkpoint history of one drun session, as pure operators: the file *)
(* map each checkpoint holds, and what every edit of the history returns.  *)
(* A history is a record with the checkpoint vector and the head index of  *)
(* `Session`.  Session.tla and Lineage.tla are the state machines built    *)
(* from these operators.                                                   *)
(*                                                                         *)
(* A checkpoint id is an index of the vector counted from 0, a TLA+        *)
(* sequence counts from 1: At hides the difference.                        *)
(***************************************************************************)
EXTENDS Naturals, Sequences

CONSTANTS
  Keys,            \* workspace-relative paths
  Blobs,           \* file contents
  Absent,          \* stands for "the file map has no such key"
  Labels,          \* checkpoint labels a caller may attach
  NoLabel,         \* label: None
  MaxCheckpoints,  \* Config::max_checkpoints, the largest where the config is edited
  Fits(_)          \* the file maps within Config::max_workspace_mb, the same

\* A file map is a total function; a key the Rust map lacks is Absent.
FileMap == [Keys -> Blobs \cup {Absent}]
NoFiles == [k \in Keys |-> Absent]

Present(files) == {k \in Keys : files[k] /= Absent}
Overlay(base, top) == [k \in Keys |-> IF top[k] /= Absent THEN top[k] ELSE base[k]]
Without(files, gone) == [k \in Keys |-> IF k \in gone THEN Absent ELSE files[k]]
Only(files, kept) == [k \in Keys |-> IF k \in kept THEN files[k] ELSE Absent]

ASSUME AbsentAssumption == Absent \notin Blobs /\ NoLabel \notin Labels

ASSUME LimitAssumption == MaxCheckpoints \in Nat \ {0}

\* A size limit is on the sum of the file sizes: an empty map is within it,
\* and removing files from a map that is within it leaves it within it.
ASSUME FitsAssumption ==
  /\ \A files \in FileMap : Fits(files) \in BOOLEAN
  /\ Fits(NoFiles)
  /\ \A files \in FileMap : \A gone \in SUBSET Keys :
       Fits(files) => Fits(Without(files, gone))

-----------------------------------------------------------------------------
(***************************************************************************)
(* A step of a checkpoint is known by the number of the tool call that     *)
(* recorded it; stdout, stderr, command and exit code are left out.        *)
(***************************************************************************)
Checkpoint == [id : Nat, files : FileMap, label : Labels \cup {NoLabel}, steps : SUBSET Nat]
History == [checkpoints : Seq(Checkpoint), head : Nat]

Count(h) == Len(h.checkpoints)
At(h, i) == h.checkpoints[i + 1]
Current(h) == At(h, h.head)
Ids(h) == 0 .. Count(h) - 1

EmptyCheckpoint(files) == [id |-> 0, files |-> files, label |-> NoLabel, steps |-> {}]
NewHistory(files) == [checkpoints |-> <<EmptyCheckpoint(files)>>, head |-> 0]

\* Mutant: one checkpoint too many.
LimitPassed(h, max) == Count(h) > max

\* max is what the config says when the call reads it.
LimitReached(h, max) == Count(h) >= max

\* Mutant: the new checkpoint goes behind the head without truncating.
PushBetween(h, files, call) ==
  LET kept == SubSeq(h.checkpoints, 1, h.head + 1)
      ahead == SubSeq(h.checkpoints, h.head + 2, Len(h.checkpoints))
      new == [id |-> Len(kept), files |-> files, label |-> NoLabel, steps |-> {call}]
  IN  [checkpoints |-> kept \o <<new>> \o ahead, head |-> Len(kept)]

\* The new checkpoint goes right behind the head: what lay ahead is cut off.
Push(h, files, call) ==
  LET kept == SubSeq(h.checkpoints, 1, h.head + 1)
      new == [id |-> Len(kept), files |-> files, label |-> NoLabel, steps |-> {call}]
  IN  [checkpoints |-> Append(kept, new), head |-> Len(kept)]

\* history with checkpoint i replaced.
Amend(h, i, cp) == [h EXCEPT !.checkpoints[i + 1] = cp]

RecordStep(h, i, call) ==
  IF i < Count(h)
    THEN Amend(h, i, [At(h, i) EXCEPT !.steps = At(h, i).steps \cup {call}])
    ELSE h

Rollback(h, i) == [h EXCEPT !.head = i]

SetLabel(h, i, l) == Amend(h, i, [At(h, i) EXCEPT !.label = l])

\* The first checkpoint that carries the label; the id is the one stored in it.
Labelled(h, l) == {i \in Ids(h) : At(h, i).label = l}
CheckpointByLabel(h, l) ==
  LET first == CHOOSE i \in Labelled(h, l) : \A j \in Labelled(h, l) : i <= j
  IN  At(h, first).id

\* Vec::splice, and drain when middle is empty; then ids become indices again.
Splice(cps, from, to, middle) ==
  SubSeq(cps, 1, from) \o middle \o SubSeq(cps, to + 2, Len(cps))
WithId(cp, i) == [cp EXCEPT !.id = i]

\* Mutant: the checkpoints keep the ids they had.
NotRenumbered(cps) == cps

\* Mutant: ids are counted from one.
RenumberFromOne(cps) == [i \in 1 .. Len(cps) |-> WithId(cps[i], i)]

Renumber(cps) == [i \in 1 .. Len(cps) |-> WithId(cps[i], i - 1)]

\* Mutant: checkpoint 0 is not spared.
CanEditAll(h, from, to) == from <= to /\ to < Count(h)

CanEdit(h, from, to) == from >= 1 /\ from <= to /\ to < Count(h)

CanSquash(h, from, to) == CanEdit(h, from, to)

\* Mutant: the head moves back as if the squashed checkpoint were gone, too.
SquashedHeadShort(h, from, to) ==
  IF h.head \in from .. to THEN from
  ELSE IF h.head > to THEN h.head - (to - from + 1) ELSE h.head

SquashedHead(h, from, to) ==
  IF h.head \in from .. to THEN from
  ELSE IF h.head > to THEN h.head - (to - from) ELSE h.head

\* Mutants: the steps of the checkpoint before the range are taken along, all but
\* the last one's are lost, and the files are those of the range's beginning.
SquashOneMore(h, from, to, l) ==
  LET squashed == [id |-> from, files |-> At(h, to).files, label |-> l,
                   steps |-> UNION {At(h, i).steps : i \in from - 1 .. to}]
  IN  [checkpoints |-> Renumber(Splice(h.checkpoints, from, to, <<squashed>>)),
       head |-> SquashedHead(h, from, to)]
SquashLast(h, from, to, l) ==
  LET squashed == [id |-> from, files |-> At(h, to).files, label |-> l,
                   steps |-> At(h, to).steps]
  IN  [checkpoints |-> Renumber(Splice(h.checkpoints, from, to, <<squashed>>)),
       head |-> SquashedHead(h, from, to)]
SquashFirst(h, from, to, l) ==
  LET squashed == [id |-> from, files |-> At(h, from).files, label |-> l,
                   steps |-> UNION {At(h, i).steps : i \in from .. to}]
  IN  [checkpoints |-> Renumber(Splice(h.checkpoints, from, to, <<squashed>>)),
       head |-> SquashedHead(h, from, to)]

Squash(h, from, to, l) ==
  LET squashed == [id |-> from, files |-> At(h, to).files, label |-> l,
                   steps |-> UNION {At(h, i).steps : i \in from .. to}]
  IN  [checkpoints |-> Renumber(Splice(h.checkpoints, from, to, <<squashed>>)),
       head |-> SquashedHead(h, from, to)]

CanDrop(h, from, to) == CanEdit(h, from, to) /\ h.head \notin from .. to

\* Mutant: the head stays where it was.
DroppedHeadStays(h, from, to) == h.head

DroppedHead(h, from, to) == IF h.head > to THEN h.head - (to - from + 1) ELSE h.head
Drop(h, from, to) ==
  [checkpoints |-> Renumber(Splice(h.checkpoints, from, to, <<>>)),
   head |-> DroppedHead(h, from, to)]

\* Session::from_session: the fork starts from one checkpoint's files.
Fork(h, i) == NewHistory(At(h, i).files)
=============================================================================
