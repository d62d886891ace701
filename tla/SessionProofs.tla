--------------------------- MODULE SessionProofs ---------------------------
(***************************************************************************)
(* Theorems about Session: for every set of keys and contents, every limit *)
(* and every sequence of tool calls.  Sound is inductive: each edit of a   *)
(* history takes a sound one to a sound one (the Sound lemmas), and every  *)
(* action of Session is one or two edits.                                  *)
(***************************************************************************)
EXTENDS Views, CheckpointsProofs, SequenceTheorems

\* The calls recorded in h are among the first n; the earliest one recorded at a
\* checkpoint, the call that made it, came before all that is recorded behind it; and
\* no call is recorded twice.
Past(h, n) == \A i \in Ids(h) : \A c \in At(h, i).steps : c < n
MadeBy(h, i, made) == /\ made \in At(h, i).steps
                      /\ \A j \in Ids(h) : i < j => \A c \in At(h, j).steps : made < c
Ordered(h) == \A i \in Ids(h) : 1 <= i => \E made \in Nat : MadeBy(h, i, made)
Disjoint(h) == \A i, j \in Ids(h) : i /= j => At(h, i).steps \cap At(h, j).steps = {}
Trail(h, n) == Past(h, n) /\ Ordered(h) /\ Disjoint(h)

\* The inductive invariant: TypeOK, IdsAreIndices and WithinLimits, and the trail.
IInv == TypeOK /\ Sound(history) /\ Trail(history, calls)

-----------------------------------------------------------------------------
\* A new history has no step.
LEMMA NewHistoryTrail ==
  ASSUME NEW files \in FileMap
  PROVE  Trail(NewHistory(files), 0)
<1>1. Ids(NewHistory(files)) = {0} /\ At(NewHistory(files), 0).steps = {}
  BY NewHistoryFacts DEF Ids, EmptyCheckpoint
<1> QED BY <1>1 DEF Trail, Past, Ordered, Disjoint

\* A push adds the latest call behind the head, after every call it keeps.
LEMMA PushTrail ==
  ASSUME NEW h, WellFormed(h), NEW n \in Nat, Trail(h, n), NEW files \in FileMap
  PROVE  Trail(Push(h, files, n), n + 1)
<1> DEFINE p == Push(h, files, n)
<1>1. /\ h.head \in Nat /\ h.head < Count(h) /\ Count(h) \in Nat
      /\ Ids(h) = 0 .. Count(h) - 1
      /\ Ids(p) = 0 .. h.head + 1
      /\ \A i \in Ids(h) : At(h, i).steps \in SUBSET Nat
  <2>1. \A i \in Ids(h) : At(h, i) \in Checkpoint
    BY Shape
  <2>2. \A i \in Ids(h) : At(h, i).steps \in SUBSET Nat
    BY <2>1 DEF Checkpoint
  <2>3. Count(p) = h.head + 2
    BY PushFacts
  <2>4. h.head \in Nat /\ h.head < Count(h) /\ Count(h) \in Nat
    BY Shape DEF WellFormed
  <2> HIDE DEF p
  <2> QED BY <2>2, <2>3, <2>4 DEF Ids
<1>2. /\ \A i \in 0 .. h.head : At(p, i).steps = At(h, i).steps
      /\ At(p, h.head + 1).steps = {n}
  <2>1. /\ \A i \in 0 .. h.head : At(p, i) = At(h, i)
        /\ At(p, h.head + 1) =
             [id |-> h.head + 1, files |-> files, label |-> NoLabel, steps |-> {n}]
    BY PushFacts
  <2> HIDE DEF p
  <2> QED BY <2>1
<1> HIDE DEF p
<1>3. Past(p, n + 1)
  <2> SUFFICES ASSUME NEW i \in Ids(p), NEW c \in At(p, i).steps PROVE c < n + 1
    BY DEF Past
  <2>1. CASE i \in 0 .. h.head
    <3>1. i \in Ids(h) /\ c \in At(h, i).steps
      BY <1>1, <1>2, <2>1
    <3>2. c \in Nat /\ c < n
      BY <1>1, <3>1 DEF Trail, Past
    <3> QED BY <3>2
  <2>2. CASE i = h.head + 1
    BY <1>2, <2>2
  <2> QED BY <1>1, <2>1, <2>2
<1>4. ASSUME NEW i \in Ids(p), 1 <= i PROVE \E made \in Nat : MadeBy(p, i, made)
  <2>1. CASE i \in 0 .. h.head
    <3>1. i \in Ids(h)
      BY <1>1, <2>1
    <3>2. PICK made \in Nat : MadeBy(h, i, made)
      BY <1>4, <3>1 DEF Trail, Ordered
    <3>3. made \in At(p, i).steps /\ made < n
      BY <1>2, <2>1, <3>1, <3>2 DEF MadeBy, Trail, Past
    <3>4. ASSUME NEW j \in Ids(p), i < j, NEW c \in At(p, j).steps PROVE made < c
      <4>1. CASE j \in 0 .. h.head
        <5>1. j \in Ids(h) /\ c \in At(h, j).steps
          BY <1>1, <1>2, <3>4, <4>1
        <5> QED BY <3>2, <3>4, <5>1 DEF MadeBy
      <4>2. CASE j = h.head + 1
        BY <1>2, <3>3, <3>4, <4>2
      <4> QED BY <1>1, <4>1, <4>2
    <3> QED BY <3>3, <3>4 DEF MadeBy
  <2>2. CASE i = h.head + 1
    <3>1. \A j \in Ids(p) : ~(i < j)
      BY <1>1, <2>2
    <3>2. MadeBy(p, i, n)
      BY <1>2, <2>2, <3>1 DEF MadeBy
    <3> QED BY <3>2
  <2> QED BY <1>1, <2>1, <2>2
<1>5. ASSUME NEW i \in Ids(p), NEW j \in Ids(p), i /= j
      PROVE  At(p, i).steps \cap At(p, j).steps = {}
  <2>1. \A k \in 0 .. h.head : k \in Ids(h) /\ n \notin At(h, k).steps
    BY <1>1 DEF Trail, Past
  <2>2. CASE i \in 0 .. h.head /\ j \in 0 .. h.head
    BY <1>2, <1>5, <2>1, <2>2 DEF Trail, Disjoint
  <2>3. CASE i \in 0 .. h.head /\ j = h.head + 1
    BY <1>2, <2>1, <2>3
  <2>4. CASE i = h.head + 1 /\ j \in 0 .. h.head
    BY <1>2, <2>1, <2>4
  <2> QED BY <1>1, <1>5, <2>2, <2>3, <2>4
<1> QED BY <1>3, <1>4, <1>5 DEF Trail, Ordered, Disjoint, p

\* A step recorded at i comes after every call that is recorded anywhere.
LEMMA RecordStepTrail ==
  ASSUME NEW h, WellFormed(h), NEW n \in Nat, Trail(h, n), NEW k \in Ids(h)
  PROVE  Trail(RecordStep(h, k, n), n + 1)
<1> DEFINE r == RecordStep(h, k, n)
<1>1. /\ Ids(r) = Ids(h) /\ Ids(h) \subseteq Nat
      /\ \A i \in Ids(h) : At(h, i).steps \in SUBSET Nat
  <2>1. \A i \in Ids(h) : At(h, i) \in Checkpoint
    BY Shape
  <2>2. \A i \in Ids(h) : At(h, i).steps \in SUBSET Nat
    BY <2>1 DEF Checkpoint
  <2>3. Count(r) = Count(h) /\ Count(h) \in Nat
    BY Shape, RecordStepFacts
  <2> HIDE DEF r
  <2> QED BY <2>2, <2>3 DEF Ids
<1>2. \A i \in Ids(h) : At(r, i).steps = IF i = k THEN At(h, i).steps \cup {n}
                                                  ELSE At(h, i).steps
  <2>1. At(h, k) \in Checkpoint
    BY Shape
  <2>2. [At(h, k) EXCEPT !.steps = At(h, k).steps \cup {n}].steps = At(h, k).steps \cup {n}
    BY <2>1 DEF Checkpoint
  <2>3. \A i \in Ids(h) : At(r, i) =
          IF i = k THEN [At(h, k) EXCEPT !.steps = At(h, k).steps \cup {n}] ELSE At(h, i)
    BY RecordStepFacts
  <2> HIDE DEF r
  <2> QED BY <2>2, <2>3
<1> HIDE DEF r
<1>3. \A i \in Ids(h) : n \notin At(h, i).steps /\ \A c \in At(h, i).steps : c \in Nat /\ c < n
  BY <1>1 DEF Trail, Past
<1>4. Past(r, n + 1)
  <2> SUFFICES ASSUME NEW i \in Ids(h), NEW c \in At(r, i).steps PROVE c < n + 1
    BY <1>1 DEF Past
  <2>1. c = n \/ c \in At(h, i).steps
    BY <1>2
  <2> QED BY <1>3, <2>1
<1>5. ASSUME NEW i \in Ids(r), 1 <= i PROVE \E made \in Nat : MadeBy(r, i, made)
  <2>1. PICK made \in Nat : MadeBy(h, i, made)
    BY <1>1, <1>5 DEF Trail, Ordered
  <2>2. made \in At(r, i).steps /\ made < n
    BY <1>1, <1>2, <1>3, <2>1 DEF MadeBy
  <2>3. ASSUME NEW j \in Ids(r), i < j, NEW c \in At(r, j).steps PROVE made < c
    BY <1>1, <1>2, <2>1, <2>2, <2>3 DEF MadeBy
  <2> QED BY <2>2, <2>3 DEF MadeBy
<1>6. Disjoint(r)
  <2> SUFFICES ASSUME NEW i \in Ids(h), NEW j \in Ids(h), i /= j,
                      NEW c \in At(r, i).steps, c \in At(r, j).steps
               PROVE  FALSE
    BY <1>1 DEF Disjoint
  <2>1. c = n \/ c \in At(h, i).steps
    BY <1>2
  <2>2. c = n \/ c \in At(h, j).steps
    BY <1>2
  <2>3. c = n => i = k /\ j = k
    BY <1>2, <1>3
  <2> QED BY <1>3, <2>1, <2>2, <2>3 DEF Trail, Disjoint
<1> QED BY <1>4, <1>5, <1>6 DEF Trail, Ordered, r

\* Moving the head or changing a label leaves the trail alone.
LEMMA RelabelTrail ==
  ASSUME NEW h, WellFormed(h), NEW n \in Nat, Trail(h, n), NEW i \in Ids(h)
  PROVE  /\ Trail(Rollback(h, i), n)
         /\ \A l \in Labels \cup {NoLabel} : Trail(SetLabel(h, i, l), n)
<1>1. ASSUME NEW r, Ids(r) = Ids(h), \A j \in Ids(h) : At(r, j).steps = At(h, j).steps
      PROVE  Trail(r, n)
  BY <1>1 DEF Trail, Past, Ordered, MadeBy, Disjoint
<1>2. /\ Ids(Rollback(h, i)) = Ids(h)
      /\ \A j \in Ids(h) : At(Rollback(h, i), j).steps = At(h, j).steps
  BY RollbackFacts DEF Ids
<1>3. ASSUME NEW l \in Labels \cup {NoLabel}
      PROVE  /\ Ids(SetLabel(h, i, l)) = Ids(h)
             /\ \A j \in Ids(h) : At(SetLabel(h, i, l), j).steps = At(h, j).steps
  <2>1. At(h, i) \in Checkpoint
    BY Shape
  <2>2. [At(h, i) EXCEPT !.label = l].steps = At(h, i).steps
    BY <2>1 DEF Checkpoint
  <2>3. /\ Ids(SetLabel(h, i, l)) = Ids(h)
        /\ \A j \in Ids(h) : At(SetLabel(h, i, l), j) =
             IF j = i THEN [At(h, i) EXCEPT !.label = l] ELSE At(h, j)
    BY SetLabelFacts DEF Ids
  <2> QED BY <2>2, <2>3
<1> QED BY <1>1, <1>2, <1>3

\* A squash and a drop keep the order of what they keep, and bring no call twice.
LEMMA ContractsTrail ==
  ASSUME NEW h, WellFormed(h), NEW n \in Nat, Trail(h, n), NEW s, WellFormed(s),
         NEW lo, NEW hi, Contracts(h, s, lo, hi)
  PROVE  Trail(s, n)
<1>1. /\ Ids(h) \subseteq Nat /\ Ids(s) \subseteq Nat /\ 0 \in Ids(s)
      /\ \A a, b \in Ids(h) : \A m \in a .. b : m \in Ids(h)
  BY Shape DEF Ids
<1>2. ASSUME NEW i \in Ids(s)
      PROVE  /\ lo[i] \in Ids(h) /\ hi[i] \in Ids(h) /\ lo[i] <= hi[i]
             /\ \A c \in At(s, i).steps : \E m \in lo[i] .. hi[i] :
                  m \in Ids(h) /\ c \in At(h, m).steps
             /\ At(h, hi[i]).steps \subseteq At(s, i).steps
  <2>1. lo[i] \in Ids(h) /\ hi[i] \in Ids(h) /\ lo[i] <= hi[i]
    BY DEF Contracts
  <2>2. hi[i] \in lo[i] .. hi[i]
    BY <1>1, <2>1
  <2>3. At(s, i).steps = StepsOf(h, lo[i], hi[i])
    BY DEF Contracts
  <2> QED BY <1>1, <2>1, <2>2, <2>3 DEF StepsOf
<1>3. \A i, j \in Ids(s) : i < j => hi[i] < lo[j]
  BY DEF Contracts
<1>4. Past(s, n)
  <2> SUFFICES ASSUME NEW i \in Ids(s), NEW c \in At(s, i).steps PROVE c < n
    BY DEF Past
  <2> QED BY <1>2 DEF Trail, Past
<1>5. ASSUME NEW i \in Ids(s), 1 <= i PROVE \E made \in Nat : MadeBy(s, i, made)
  <2>1. hi[i] \in Ids(h) /\ 1 <= hi[i]
    <3>1. 0 < i /\ hi[0] = 0
      BY <1>1, <1>5 DEF Contracts
    <3>2. 0 < lo[i] /\ lo[i] <= hi[i] /\ lo[i] \in Nat /\ hi[i] \in Nat
      BY <1>1, <1>2, <1>3, <3>1
    <3> QED BY <1>2, <3>2
  <2>2. PICK made \in Nat : MadeBy(h, hi[i], made)
    BY <2>1 DEF Trail, Ordered
  <2>3. made \in At(s, i).steps
    BY <1>2, <2>2 DEF MadeBy
  <2>4. ASSUME NEW j \in Ids(s), i < j, NEW c \in At(s, j).steps PROVE made < c
    <3>1. PICK m \in lo[j] .. hi[j] : m \in Ids(h) /\ c \in At(h, m).steps
      BY <1>2
    <3>2. hi[i] < m
      BY <1>1, <1>2, <1>3, <2>4, <3>1
    <3> QED BY <2>2, <3>1, <3>2 DEF MadeBy
  <2> QED BY <2>3, <2>4 DEF MadeBy
<1>6. ASSUME NEW i \in Ids(s), NEW j \in Ids(s), i < j, NEW c \in At(s, i).steps
      PROVE  c \notin At(s, j).steps
  <2>1. PICK m \in lo[i] .. hi[i] : m \in Ids(h) /\ c \in At(h, m).steps
    BY <1>2
  <2>2. ASSUME c \in At(s, j).steps PROVE FALSE
    <3>1. PICK k \in lo[j] .. hi[j] : k \in Ids(h) /\ c \in At(h, k).steps
      BY <1>2, <2>2
    <3>2. m < k
      BY <1>1, <1>2, <1>3, <1>6, <2>1, <3>1
    <3>3. m /= k
      BY <1>1, <2>1, <3>1, <3>2
    <3> QED BY <2>1, <3>1, <3>3 DEF Trail, Disjoint
  <2> QED BY <2>2
<1>7. Disjoint(s)
  <2> SUFFICES ASSUME NEW i \in Ids(s), NEW j \in Ids(s), i /= j,
                      NEW c \in At(s, i).steps, c \in At(s, j).steps
               PROVE  FALSE
    BY DEF Disjoint
  <2>1. i < j \/ j < i
    BY <1>1
  <2> QED BY <1>6, <2>1
<1> QED BY <1>4, <1>5, <1>7 DEF Trail, Ordered

-----------------------------------------------------------------------------
\* The common tail of the calls that make a checkpoint keeps the invariant.
LEMMA CommitKeepsIInv ==
  ASSUME IInv, NEW files \in FileMap, Fits(files), Commit(files),
         overlays' \in SUBSET OverlayKeys
  PROVE  IInv'
<1>1. Sound(Push(history, files, calls)) /\ calls \in Nat
  BY PushSound DEF IInv, TypeOK, Commit
<1>2. Trail(Push(history, files, calls), calls + 1)
  BY <1>1, PushTrail DEF IInv, Sound
<1>3. Sound(history') /\ calls' \in Nat /\ Trail(history', calls')
  BY <1>1, <1>2 DEF Commit
<1> QED BY <1>3 DEF IInv, TypeOK, Sound, WellFormed

\* The common tail of the other calls keeps the invariant.
LEMMA NoteKeepsIInv ==
  ASSUME IInv, NEW h, Sound(h), Trail(h, calls), NEW i \in Ids(h), Note(h, i)
  PROVE  IInv'
<1>1. Sound(RecordStep(h, i, calls)) /\ calls \in Nat
  BY RecordStepSound DEF IInv, TypeOK
<1>2. Trail(RecordStep(h, i, calls), calls + 1)
  BY <1>1, RecordStepTrail DEF Sound
<1>3. Sound(history') /\ calls' \in Nat /\ overlays' = overlays /\ Trail(history', calls')
  BY <1>1, <1>2 DEF Note
<1> QED BY <1>3 DEF IInv, TypeOK, Sound, WellFormed

\* A session begins with the invariant.
LEMMA InitIInv == Init => IInv
<1> SUFFICES ASSUME Init PROVE IInv
  OBVIOUS
<1>1. PICK files \in FileMap : Fits(files) /\ history = NewHistory(files)
  BY DEF Init
<1>2. Sound(history) /\ Trail(history, 0)
  BY <1>1, NewHistorySound, NewHistoryTrail
<1>3. overlays \in SUBSET OverlayKeys /\ calls = 0
  BY DEF Init
<1> QED BY <1>2, <1>3 DEF IInv, TypeOK, Sound, WellFormed

\* Every tool call keeps the invariant.
LEMMA NextIInv == IInv /\ [Next]_vars => IInv'
<1> SUFFICES ASSUME IInv, [Next]_vars PROVE IInv'
  OBVIOUS
<1>1. /\ Sound(history) /\ WellFormed(history)
      /\ Trail(history, calls) /\ calls \in Nat
      /\ overlays \in SUBSET OverlayKeys
      /\ Current(history).files \in FileMap
      /\ Fits(Current(history).files)
      /\ history.head \in Ids(history)
  <2>1. /\ Sound(history) /\ WellFormed(history) /\ overlays \in SUBSET OverlayKeys
        /\ Trail(history, calls) /\ calls \in Nat
    BY DEF IInv, TypeOK, Sound
  <2>2. Current(history).files \in FileMap /\ history.head \in Ids(history)
    BY <2>1, Shape
  <2> QED BY <2>1, <2>2 DEF Sound, Limited, Current
<1>2. ASSUME NEW files \in FileMap, WriteFiles(files) PROVE IInv'
  <2>1. Overlay(Current(history).files, files) \in FileMap
    BY <1>1, FileMapFacts
  <2> QED BY <1>1, <1>2, <2>1, CommitKeepsIInv DEF WriteFiles
<1>3. ASSUME NEW files \in FileMap, ExecuteBash(files) PROVE IInv'
  BY <1>1, <1>3, CommitKeepsIInv DEF ExecuteBash
<1>4. ASSUME NEW gone \in SUBSET Keys, DeleteFiles(gone) PROVE IInv'
  <2>1. Without(Current(history).files, gone) \in FileMap
    BY <1>1, FileMapFacts
  <2>2. Fits(Without(Current(history).files, gone))
    BY <1>1, FitsAssumption
  <2> QED BY <1>1, <1>4, <2>1, <2>2, CommitKeepsIInv DEF DeleteFiles
<1>5. ASSUME NEW files \in FileMap, NEW succeeded \in BOOLEAN,
             InstallPackage(files, succeeded)
      PROVE  IInv'
  <2>1. Overlay(Current(history).files, files) \in FileMap
    BY <1>1, FileMapFacts
  <2>2. CASE succeeded
    BY <1>1, <1>5, <2>1, <2>2, CommitKeepsIInv DEF InstallPackage
  <2>3. CASE ~succeeded
    BY <1>1, <1>5, <2>3, CommitKeepsIInv DEF InstallPackage
  <2> QED BY <2>2, <2>3
<1>6. ASSUME NEW files \in FileMap, NEW dirs \in SUBSET OverlayKeys, Mount(files, dirs)
      PROVE  IInv'
  <2>1. Overlay(Current(history).files, files) \in FileMap
    BY <1>1, FileMapFacts
  <2>2. overlays' \in SUBSET OverlayKeys
    BY <1>1, <1>6 DEF Mount
  <2> QED BY <1>6, <2>1, <2>2, CommitKeepsIInv DEF Mount
<1>7. ASSUME NEW files \in FileMap, NEW dirs \in SUBSET OverlayKeys,
             MountRefused(files, dirs)
      PROVE  IInv'
  BY <1>7 DEF MountRefused, IInv, TypeOK
<1>8. ASSUME NEW files \in FileMap, NEW keys \in SUBSET Keys, MergeFrom(files, keys)
      PROVE  IInv'
  <2>1. Overlay(Current(history).files, Only(files, keys)) \in FileMap
    BY <1>1, FileMapFacts
  <2> QED BY <1>1, <1>8, <2>1, CommitKeepsIInv DEF MergeFrom
<1>9. ASSUME NEW i \in Ids(history), RollbackToId(i) PROVE IInv'
  <2>1. /\ Sound(Rollback(history, i)) /\ Trail(Rollback(history, i), calls)
        /\ Rollback(history, i).head \in Ids(Rollback(history, i))
    BY <1>1, RollbackSound, RelabelTrail
  <2> QED BY <1>9, <2>1, NoteKeepsIInv DEF RollbackToId
<1>10. ASSUME NEW i \in Ids(history), WebRollback(i) PROVE IInv'
  <2>1. /\ Sound(history') /\ Trail(history', calls)
        /\ UNCHANGED <<overlays, calls>>
    BY <1>1, <1>10, RollbackSound, RelabelTrail DEF WebRollback
  <2> QED BY <2>1 DEF IInv, TypeOK, Sound, WellFormed
<1>11. ASSUME NEW l \in Labels, RollbackToLabel(l) PROVE IInv'
  <2> DEFINE i == CheckpointByLabel(history, l)
  <2>1. i \in Ids(history)
    BY <1>11 DEF RollbackToLabel
  <2>2. Note(Rollback(history, i), Rollback(history, i).head)
    BY <1>11 DEF RollbackToLabel
  <2> HIDE DEF i
  <2>3. /\ Sound(Rollback(history, i)) /\ Trail(Rollback(history, i), calls)
        /\ Rollback(history, i).head \in Ids(Rollback(history, i))
    BY <1>1, <2>1, RollbackSound, RelabelTrail
  <2> QED BY <2>2, <2>3, NoteKeepsIInv
<1>12. ASSUME NEW i \in Ids(history), NEW l \in Labels \cup {NoLabel},
              CheckpointLabel(i, l)
       PROVE  IInv'
  <2>1. /\ Sound(SetLabel(history, i, l)) /\ Trail(SetLabel(history, i, l), calls)
        /\ i \in Ids(SetLabel(history, i, l))
    BY <1>1, SetLabelSound, RelabelTrail
  <2> QED BY <1>12, <2>1, NoteKeepsIInv DEF CheckpointLabel
<1>13. ASSUME NEW from \in Ids(history), NEW to \in Ids(history),
              NEW l \in Labels \cup {NoLabel}, CheckpointSquash(from, to, l)
       PROVE  IInv'
  <2>1. from \in Nat /\ to \in Nat
    BY DEF Ids
  <2>2. CanSquash(history, from, to) /\ Note(Squash(history, from, to, l), from)
    BY <1>13 DEF CheckpointSquash
  <2>3. Sound(Squash(history, from, to, l)) /\ from \in Ids(Squash(history, from, to, l))
    BY <1>1, <2>1, <2>2, SquashSound
  <2>4. Trail(Squash(history, from, to, l), calls)
    BY <1>1, <2>1, <2>2, <2>3, SquashContracts, ContractsTrail DEF Sound
  <2> QED BY <2>2, <2>3, <2>4, NoteKeepsIInv
<1>14. ASSUME NEW from \in Ids(history), NEW to \in Ids(history), CheckpointDrop(from, to)
       PROVE  IInv'
  <2>1. from \in Nat /\ to \in Nat
    BY DEF Ids
  <2>2. /\ CanDrop(history, from, to)
        /\ Note(Drop(history, from, to), Drop(history, from, to).head)
    BY <1>14 DEF CheckpointDrop
  <2>3. Sound(Drop(history, from, to))
    BY <1>1, <2>1, <2>2, DropSound
  <2>4. Drop(history, from, to).head \in Ids(Drop(history, from, to))
    BY <2>3, Shape DEF Sound
  <2>5. Trail(Drop(history, from, to), calls)
    BY <1>1, <2>1, <2>2, <2>3, DropContracts, ContractsTrail DEF Sound
  <2> QED BY <2>2, <2>3, <2>4, <2>5, NoteKeepsIInv
<1>15. ASSUME Observe PROVE IInv'
  BY <1>1, <1>15, NoteKeepsIInv DEF Observe
<1>16. ASSUME UNCHANGED vars PROVE IInv'
  BY <1>16 DEF vars, IInv, TypeOK
<1> QED
  BY <1>2, <1>3, <1>4, <1>5, <1>6, <1>7, <1>8, <1>9, <1>10, <1>11, <1>12, <1>13,
     <1>14, <1>15, <1>16
  DEF Next

\* The inductive invariant of the session: well-formed, ids are indices, limits hold.
THEOREM Invariance == Spec => []IInv
  BY InitIInv, NextIInv, PTL DEF Spec

\* The head always names a checkpoint of the vector, so current() cannot panic.
THEOREM TypeCorrect == Spec => []TypeOK
<1>1. IInv => TypeOK
  BY DEF IInv
<1> QED BY <1>1, Invariance, PTL

\* Every id a tool hands out stays valid under every sequence of edits.
THEOREM IdsCorrect == Spec => []IdsAreIndices
<1>1. IInv => IdsAreIndices
  BY DEF IInv, Sound, Indexed, IdsAreIndices
<1> QED BY <1>1, Invariance, PTL

\* The limits hold for the whole history, although only some calls check them.
THEOREM LimitsCorrect == Spec => []WithinLimits
<1>1. IInv => WithinLimits
  BY DEF IInv, Sound, Limited, WithinLimits
<1> QED BY <1>1, Invariance, PTL

\* The vector is in the order of the calls, through every truncation, squash and drop.
THEOREM ChronologyCorrect == Spec => []Chronology
<1>1. ASSUME IInv PROVE Chronology
  <2> SUFFICES ASSUME NEW i \in Ids(history), NEW j \in Ids(history), 1 <= i, i < j
               PROVE  \E made \in At(history, i).steps :
                        \A c \in At(history, j).steps : made < c
    BY DEF Chronology
  <2>1. PICK made \in Nat : MadeBy(history, i, made)
    BY <1>1 DEF IInv, Trail, Ordered
  <2> QED BY <2>1 DEF MadeBy
<1> QED BY <1>1, Invariance, PTL

\* No call is recorded at two checkpoints.
THEOREM RecordedOnceCorrect == Spec => []RecordedOnce
<1>1. IInv => RecordedOnce
  BY DEF IInv, Trail, Disjoint, RecordedOnce
<1> QED BY <1>1, Invariance, PTL

-----------------------------------------------------------------------------
(***************************************************************************)
(* Action properties.                                                      *)
(***************************************************************************)

\* What a step recorded at i leaves as it was.
LEMMA NotedFiles ==
  ASSUME NEW h, WellFormed(h), NEW i \in Ids(h), NEW call \in Nat
  PROVE  /\ Current(RecordStep(h, i, call)).files = Current(h).files
         /\ Current(RecordStep(h, i, call)).label = Current(h).label
<1> DEFINE r == RecordStep(h, i, call)
           cp == [At(h, i) EXCEPT !.steps = At(h, i).steps \cup {call}]
<1>1. /\ r.head = h.head
      /\ \A j \in Ids(h) : At(r, j) = IF j = i THEN cp ELSE At(h, j)
  BY RecordStepFacts
<1>2. At(h, i) \in Checkpoint /\ h.head \in Ids(h)
  BY Shape
<1>3. cp.files = At(h, i).files /\ cp.label = At(h, i).label
  BY <1>2 DEF Checkpoint
<1> HIDE DEF r, cp
<1> QED BY <1>1, <1>2, <1>3 DEF Current, r

\* A rollback to a label ends at a checkpoint that carries the label: the id
\* stored in the first such checkpoint is its index.
THEOREM RollbackToLabelCorrect == Spec => RollbackHitsLabel
<1>1. ASSUME IInv, NEW l \in Labels, RollbackToLabel(l)
      PROVE  Current(history').label = l
  <2> DEFINE i == CheckpointByLabel(history, l)
             S == Labelled(history, l)
  <2>1. /\ WellFormed(history) /\ calls \in Nat
        /\ \A j \in Ids(history) : At(history, j).id = j
    BY <1>1 DEF IInv, TypeOK, Sound, Indexed
  <2>2. S \subseteq Nat /\ S /= {} /\ S \subseteq Ids(history)
    BY <1>1 DEF RollbackToLabel, Labelled, Ids
  <2>3. i \in S
    <3> DEFINE first == CHOOSE m \in S : \A n \in S : m <= n
    <3>1. \E m \in S : \A n \in S : m <= n
      BY <2>2, LeastNatural
    <3>2. first \in S
      BY <3>1
    <3>3. i = At(history, first).id
      BY DEF CheckpointByLabel
    <3> QED BY <2>1, <2>2, <3>2, <3>3
  <2>4. At(history, i).label = l
    BY <2>3 DEF Labelled
  <2>5. history' = RecordStep(Rollback(history, i), Rollback(history, i).head, calls)
    BY <1>1 DEF RollbackToLabel, Note
  <2> HIDE DEF i, S
  <2>6. /\ WellFormed(Rollback(history, i))
        /\ Rollback(history, i).head \in Ids(Rollback(history, i))
        /\ Current(Rollback(history, i)).label = l
    BY <2>1, <2>2, <2>3, <2>4, RollbackFacts, Shape DEF Current
  <2> QED BY <2>1, <2>5, <2>6, NotedFiles
<1>2. IInv /\ [Next]_vars =>
        [\A l \in Labels : RollbackToLabel(l) => Current(history').label = l]_vars
  BY <1>1
<1> QED BY <1>2, Invariance, PTL DEF Spec, RollbackHitsLabel

-----------------------------------------------------------------------------
(***************************************************************************)
(* What a tool call makes of the history: one of six edits, whichever of   *)
(* the twelve actions it is.                                               *)
(***************************************************************************)
Pushes == \E files \in FileMap : history' = Push(history, files, calls)
Moves == \E i \in Ids(history) :
  \/ history' = Rollback(history, i)
  \/ history' = RecordStep(Rollback(history, i), i, calls)
Relabels == \E i \in Ids(history), l \in Labels \cup {NoLabel} :
  history' = RecordStep(SetLabel(history, i, l), i, calls)
Squashes == \E from, to \in Ids(history), l \in Labels \cup {NoLabel} :
  CheckpointSquash(from, to, l)
Drops == \E from, to \in Ids(history) : CheckpointDrop(from, to)
Stays == history' = history \/ history' = RecordStep(history, history.head, calls)

\* Every step of a session changes its history in one of six ways.
LEMMA StepForms ==
  ASSUME IInv, [Next]_vars
  PROVE  Pushes \/ Moves \/ Relabels \/ Squashes \/ Drops \/ Stays
<1>1. /\ WellFormed(history) /\ Current(history).files \in FileMap
      /\ \A i \in Ids(history) : Rollback(history, i).head = i
  <2>1. WellFormed(history)
    BY DEF IInv, Sound
  <2> QED BY <2>1, Shape, RollbackFacts
<1>2. ASSUME NEW files \in FileMap, Commit(files) PROVE Pushes
  BY <1>2 DEF Commit, Pushes
<1>3. ASSUME NEW files \in FileMap, WriteFiles(files) \/ ExecuteBash(files) PROVE Pushes
  <2>1. Overlay(Current(history).files, files) \in FileMap
    BY <1>1, FileMapFacts
  <2> QED BY <1>2, <1>3, <2>1 DEF WriteFiles, ExecuteBash
<1>4. ASSUME NEW gone \in SUBSET Keys, DeleteFiles(gone) PROVE Pushes
  <2>1. Without(Current(history).files, gone) \in FileMap
    BY <1>1, FileMapFacts
  <2> QED BY <1>2, <1>4, <2>1 DEF DeleteFiles
<1>5. ASSUME NEW files \in FileMap, NEW succeeded \in BOOLEAN,
             InstallPackage(files, succeeded)
      PROVE  Pushes
  <2>1. Overlay(Current(history).files, files) \in FileMap
    BY <1>1, FileMapFacts
  <2> QED BY <1>1, <1>2, <1>5, <2>1 DEF InstallPackage
<1>6. ASSUME NEW files \in FileMap, NEW dirs \in SUBSET OverlayKeys,
             Mount(files, dirs) \/ MountRefused(files, dirs)
      PROVE  Pushes \/ Stays
  <2>1. Overlay(Current(history).files, files) \in FileMap
    BY <1>1, FileMapFacts
  <2> QED BY <1>2, <1>6, <2>1 DEF Mount, MountRefused, Stays
<1>7. ASSUME NEW files \in FileMap, NEW keys \in SUBSET Keys, MergeFrom(files, keys)
      PROVE  Pushes
  <2>1. Only(files, keys) \in FileMap
    BY FileMapFacts
  <2>2. Overlay(Current(history).files, Only(files, keys)) \in FileMap
    BY <1>1, <2>1, FileMapFacts
  <2> QED BY <1>2, <1>7, <2>2 DEF MergeFrom
<1>8. ASSUME NEW i \in Ids(history), RollbackToId(i) \/ WebRollback(i) PROVE Moves
  BY <1>1, <1>8 DEF RollbackToId, WebRollback, Note, Moves
<1>9. ASSUME NEW l \in Labels, RollbackToLabel(l) PROVE Moves
  <2>1. PICK i \in Ids(history) : i = CheckpointByLabel(history, l)
    BY <1>9 DEF RollbackToLabel
  <2>2. history' = RecordStep(Rollback(history, i), Rollback(history, i).head, calls)
    BY <1>9, <2>1 DEF RollbackToLabel, Note
  <2> QED BY <1>1, <2>2 DEF Moves
<1>10. ASSUME NEW i \in Ids(history), NEW l \in Labels \cup {NoLabel}, CheckpointLabel(i, l)
       PROVE  Relabels
  BY <1>10 DEF CheckpointLabel, Note, Relabels
<1>11. ASSUME NEW from \in Ids(history), NEW to \in Ids(history),
              NEW l \in Labels \cup {NoLabel}, CheckpointSquash(from, to, l)
       PROVE  Squashes
  BY <1>11 DEF Squashes
<1>12. ASSUME Observe \/ UNCHANGED vars PROVE Stays
  BY <1>12 DEF Observe, Note, Stays, vars
<1> QED
  BY <1>3, <1>4, <1>5, <1>6, <1>7, <1>8, <1>9, <1>10, <1>11, <1>12 DEF Next, Drops

\* Recording a step adds to the record and takes nothing from it.
LEMMA RecordGrows ==
  ASSUME NEW h, WellFormed(h), NEW i \in Ids(h), NEW call \in Nat
  PROVE  Recorded(h, Ids(h)) \subseteq
           Recorded(RecordStep(h, i, call), Ids(RecordStep(h, i, call)))
<1> DEFINE r == RecordStep(h, i, call)
<1>1. /\ Ids(r) = Ids(h)
      /\ \A j \in Ids(h) : At(r, j) =
           IF j = i THEN [At(h, i) EXCEPT !.steps = At(h, i).steps \cup {call}] ELSE At(h, j)
  BY RecordStepFacts DEF Ids
<1>2. At(h, i).steps \subseteq [At(h, i) EXCEPT !.steps = At(h, i).steps \cup {call}].steps
  <2>1. At(h, i) \in Checkpoint
    BY Shape
  <2> QED BY <2>1 DEF Checkpoint
<1> HIDE DEF r
<1>3. \A j \in Ids(h) : At(h, j).steps \subseteq At(r, j).steps
  BY <1>1, <1>2
<1> QED BY <1>1, <1>3 DEF Recorded, r

\* A squash takes every step it finds along.
LEMMA SquashKeepsRecord ==
  ASSUME NEW h, WellFormed(h), NEW from \in Nat, NEW to \in Nat, CanSquash(h, from, to),
         NEW l \in Labels \cup {NoLabel}
  PROVE  Recorded(h, Ids(h)) \subseteq
           Recorded(Squash(h, from, to, l), Ids(Squash(h, from, to, l)))
<1> DEFINE s == Squash(h, from, to, l)
           lo == SquashLo(h, from, to)
           hi == SquashHi(h, from, to)
<1>1. Contracts(h, s, lo, hi)
  BY SquashContracts
<1>2. /\ Ids(s) = 0 .. Count(h) - (to - from) - 1 /\ Count(h) \in Nat
      /\ from <= to /\ to < Count(h) /\ Ids(h) = 0 .. Count(h) - 1
  BY SquashFacts, Shape DEF Ids, CanSquash, CanEdit
<1>3. ASSUME NEW m \in Ids(h) PROVE \E i \in Ids(s) : m \in lo[i] .. hi[i]
  <2>1. CASE m < from
    <3>1. m \in Ids(s) /\ m \in lo[m] .. hi[m]
      BY <1>2, <2>1 DEF SquashLo, SquashHi
    <3> QED BY <3>1
  <2>2. CASE m \in from .. to
    <3>1. from \in Ids(s) /\ m \in lo[from] .. hi[from]
      BY <1>2, <2>2 DEF SquashLo, SquashHi
    <3> QED BY <3>1
  <2>3. CASE m > to
    <3>1. PICK i \in Nat : i = m - (to - from)
      BY <1>2, <2>3
    <3>2. i \in Ids(s) /\ i > from /\ i + (to - from) = m /\ m \in m .. m
      BY <1>2, <2>3, <3>1
    <3>3. lo[i] = m /\ hi[i] = m
      BY <1>2, <3>2 DEF SquashLo, SquashHi
    <3> QED BY <3>2, <3>3
  <2> QED BY <1>2, <2>1, <2>2, <2>3
<1> HIDE DEF s, lo, hi
<1>4. ASSUME NEW m \in Ids(h) PROVE At(h, m).steps \subseteq Recorded(s, Ids(s))
  <2>1. PICK i \in Ids(s) : m \in lo[i] .. hi[i]
    BY <1>3
  <2>2. At(h, m).steps \subseteq At(s, i).steps
    BY <1>1, <2>1 DEF Contracts, StepsOf
  <2> QED BY <2>2 DEF Recorded
<1> QED BY <1>4 DEF Recorded, s

\* Nothing but a drop erases the record of the calls up to the head.
THEOREM TrailKeptCorrect == Spec => TrailKept
<1>1. ASSUME IInv, [Next]_vars, ~Drops
      PROVE  Recorded(history, 0 .. history.head) \subseteq Recorded(history', Ids(history'))
  <2>1. /\ WellFormed(history) /\ calls \in Nat
        /\ history.head \in Ids(history) /\ 0 .. history.head \subseteq Ids(history)
        /\ Ids(history) \subseteq Nat
    <3>1. WellFormed(history) /\ calls \in Nat
      BY <1>1 DEF IInv, TypeOK, Sound
    <3> QED BY <3>1, Shape DEF Ids
  <2>2. Recorded(history, 0 .. history.head) \subseteq Recorded(history, Ids(history))
    BY <2>1 DEF Recorded
  <2>3. ASSUME NEW h, WellFormed(h), NEW i \in Ids(h), history' = RecordStep(h, i, calls),
               Recorded(history, Ids(history)) \subseteq Recorded(h, Ids(h))
        PROVE  Recorded(history, Ids(history)) \subseteq Recorded(history', Ids(history'))
    BY <2>1, <2>3, RecordGrows
  <2>4. CASE Pushes
    <3>1. PICK files \in FileMap : history' = Push(history, files, calls)
      BY <2>4 DEF Pushes
    <3>2. /\ 0 .. history.head \subseteq Ids(history')
          /\ \A i \in 0 .. history.head : At(history', i) = At(history, i)
      <4>1. /\ Count(Push(history, files, calls)) = history.head + 2
            /\ \A i \in 0 .. history.head : At(Push(history, files, calls), i) = At(history, i)
        BY <2>1, PushFacts
      <4>2. history.head \in Nat
        BY <2>1, Shape
      <4> QED BY <3>1, <4>1, <4>2 DEF Ids
    <3> QED BY <3>2 DEF Recorded
  <2>5. CASE Moves
    <3>1. PICK i \in Ids(history) : \/ history' = Rollback(history, i)
                                    \/ history' = RecordStep(Rollback(history, i), i, calls)
      BY <2>5 DEF Moves
    <3>2. /\ WellFormed(Rollback(history, i)) /\ Ids(Rollback(history, i)) = Ids(history)
          /\ \A j \in Ids(history) : At(Rollback(history, i), j) = At(history, j)
      BY <2>1, RollbackFacts DEF Ids
    <3>3. Recorded(history, Ids(history)) =
            Recorded(Rollback(history, i), Ids(Rollback(history, i)))
      BY <3>2 DEF Recorded
    <3> QED BY <2>2, <2>3, <3>1, <3>2, <3>3
  <2>6. CASE Relabels
    <3>1. PICK i \in Ids(history), l \in Labels \cup {NoLabel} :
            history' = RecordStep(SetLabel(history, i, l), i, calls)
      BY <2>6 DEF Relabels
    <3>2. /\ WellFormed(SetLabel(history, i, l)) /\ Ids(SetLabel(history, i, l)) = Ids(history)
          /\ \A j \in Ids(history) : At(SetLabel(history, i, l), j) =
               IF j = i THEN [At(history, i) EXCEPT !.label = l] ELSE At(history, j)
      BY <2>1, SetLabelFacts DEF Ids
    <3>3. [At(history, i) EXCEPT !.label = l].steps = At(history, i).steps
      <4>1. At(history, i) \in Checkpoint
        BY <2>1, Shape
      <4> QED BY <4>1 DEF Checkpoint
    <3>4. Recorded(history, Ids(history)) \subseteq
            Recorded(SetLabel(history, i, l), Ids(SetLabel(history, i, l)))
      BY <3>2, <3>3 DEF Recorded
    <3> QED BY <2>2, <2>3, <3>1, <3>2, <3>4
  <2>7. CASE Squashes
    <3>1. PICK from \in Ids(history), to \in Ids(history), l \in Labels \cup {NoLabel} :
            /\ CanSquash(history, from, to)
            /\ history' = RecordStep(Squash(history, from, to, l), from, calls)
      BY <2>7 DEF Squashes, CheckpointSquash, Note
    <3>2. /\ WellFormed(Squash(history, from, to, l))
          /\ from \in Ids(Squash(history, from, to, l))
      BY <1>1, <2>1, <3>1, SquashSound DEF IInv, Sound
    <3> QED BY <2>1, <2>2, <2>3, <3>1, <3>2, SquashKeepsRecord
  <2>8. CASE Stays
    BY <2>1, <2>2, <2>3, <2>8 DEF Stays
  <2> QED BY <1>1, <2>4, <2>5, <2>6, <2>7, <2>8, StepForms
<1>2. IInv /\ [Next]_vars =>
        [ \/ Recorded(history, 0 .. history.head) \subseteq Recorded(history', Ids(history'))
          \/ \E from, to \in Ids(history) : CheckpointDrop(from, to) ]_vars
  BY <1>1 DEF Drops
<1> QED BY <1>2, Invariance, PTL DEF Spec, TrailKept

\* A squash and a drop leave the session's files alone, except that a squash over the
\* head goes to the last state of its range.
THEOREM EditsKeepCurrentCorrect == Spec => EditsKeepCurrent
<1>1. ASSUME IInv, NEW from \in Ids(history), NEW to \in Ids(history),
             CheckpointDrop(from, to)
      PROVE  Current(history').files = Current(history).files
  <2> DEFINE d == Drop(history, from, to)
             o == DropOrigin(history, from, to)
  <2>1. /\ WellFormed(history) /\ calls \in Nat /\ from \in Nat /\ to \in Nat
        /\ CanDrop(history, from, to) /\ history' = RecordStep(d, d.head, calls)
    BY <1>1 DEF IInv, TypeOK, Sound, Ids, CheckpointDrop, Note
  <2>2. WellFormed(d) /\ d.head \in Ids(d)
    BY <2>1, DropFacts, Shape
  <2>3. Contracts(history, d, o, o) /\ o[d.head] = history.head
    BY <2>1, DropContracts
  <2>4. At(d, d.head).files = At(history, history.head).files
    BY <2>2, <2>3 DEF Contracts
  <2> HIDE DEF d
  <2>5. Current(history').files = Current(d).files
    BY <2>1, <2>2, NotedFiles
  <2> QED BY <2>4, <2>5 DEF Current
<1>2. ASSUME IInv, NEW from \in Ids(history), NEW to \in Ids(history),
             NEW l \in Labels \cup {NoLabel}, CheckpointSquash(from, to, l)
      PROVE  Current(history').files =
               IF history.head \in from .. to THEN At(history, to).files
                                              ELSE Current(history).files
  <2> DEFINE s == Squash(history, from, to, l)
             hi == SquashHi(history, from, to)
  <2>1. /\ WellFormed(history) /\ calls \in Nat /\ from \in Nat /\ to \in Nat
        /\ CanSquash(history, from, to) /\ history' = RecordStep(s, from, calls)
    BY <1>2 DEF IInv, TypeOK, Sound, Ids, CheckpointSquash, Note
  <2>2. WellFormed(s) /\ s.head \in Ids(s) /\ from \in Ids(s)
    BY <1>2, <2>1, SquashSound, Shape DEF IInv, Sound
  <2>3. Contracts(history, s, SquashLo(history, from, to), hi)
    BY <2>1, SquashContracts
  <2>4. hi[s.head] = IF history.head \in from .. to THEN to ELSE history.head
    <3>1. /\ Count(history) \in Nat /\ history.head \in Nat /\ history.head < Count(history)
          /\ from <= to /\ to < Count(history)
      BY <2>1, Shape DEF WellFormed, CanSquash, CanEdit
    <3>2. /\ s.head = SquashedHead(history, from, to)
          /\ s.head \in 0 .. Count(history) - (to - from) - 1
      BY <2>1, <2>2, SquashFacts DEF Ids
    <3> HIDE DEF s
    <3> QED BY <2>1, <3>1, <3>2 DEF SquashHi, SquashedHead
  <2>5. At(s, s.head).files = At(history, hi[s.head]).files
    BY <2>2, <2>3 DEF Contracts
  <2> HIDE DEF s, hi
  <2>6. Current(history').files = Current(s).files
    BY <2>1, <2>2, NotedFiles
  <2> QED BY <2>4, <2>5, <2>6 DEF Current
<1>3. IInv /\ [Next]_vars =>
        [ /\ \A from, to \in Ids(history) : CheckpointDrop(from, to) =>
               Current(history').files = Current(history).files
          /\ \A from, to \in Ids(history) : \A l \in Labels \cup {NoLabel} :
               CheckpointSquash(from, to, l) =>
                 Current(history').files =
                   IF history.head \in from .. to THEN At(history, to).files
                                                  ELSE Current(history).files ]_vars
  BY <1>1, <1>2
<1> QED BY <1>3, Invariance, PTL DEF Spec, EditsKeepCurrent

-----------------------------------------------------------------------------
(***************************************************************************)
(* The session implements Timeline: pushes are Add, rollbacks are Move,    *)
(* squashes and drops are Forget with the ends of their runs as what is    *)
(* kept, and the rest stutters.                                            *)
(***************************************************************************)

\* The line of a history: as long as it, with the files of its checkpoints.
LEMMA LineFacts ==
  ASSUME NEW h, WellFormed(h)
  PROVE  /\ StatesOf(h) \in Seq(FileMap)
         /\ Len(StatesOf(h)) = Count(h)
         /\ \A i \in Ids(h) : StatesOf(h)[i + 1] = At(h, i).files
<1>1. /\ h.checkpoints \in Seq(Checkpoint) /\ Count(h) \in Nat /\ Count(h) = Len(h.checkpoints)
      /\ \A i \in 1 .. Count(h) : h.checkpoints[i].files \in FileMap
  <2>1. h.checkpoints \in Seq(Checkpoint) /\ Count(h) \in Nat /\ Count(h) = Len(h.checkpoints)
    BY Shape DEF Count
  <2>2. \A i \in 1 .. Count(h) : h.checkpoints[i] \in Checkpoint
    BY <2>1
  <2> QED BY <2>1, <2>2 DEF Checkpoint
<1>2. StatesOf(h) = [i \in 1 .. Count(h) |-> h.checkpoints[i].files]
  BY DEF StatesOf
<1>3. StatesOf(h) \in Seq(FileMap) /\ Len(StatesOf(h)) = Count(h)
  BY <1>1, <1>2
<1>4. ASSUME NEW i \in Ids(h) PROVE StatesOf(h)[i + 1] = At(h, i).files
  <2>1. i + 1 \in 1 .. Count(h)
    BY <1>1 DEF Ids
  <2> QED BY <1>2, <2>1 DEF At
<1> QED BY <1>3, <1>4

\* Two histories with the same files have the same line.
LEMMA SameLine ==
  ASSUME NEW g, WellFormed(g), NEW h, WellFormed(h), Count(g) = Count(h),
         \A i \in Ids(h) : At(g, i).files = At(h, i).files
  PROVE  StatesOf(g) = StatesOf(h)
<1>1. /\ StatesOf(g) \in Seq(FileMap) /\ StatesOf(h) \in Seq(FileMap)
      /\ Len(StatesOf(g)) = Count(h) /\ Len(StatesOf(h)) = Count(h) /\ Count(h) \in Nat
      /\ Ids(g) = Ids(h)
  BY LineFacts, Shape DEF Ids
<1>2. ASSUME NEW i \in 1 .. Count(h) PROVE StatesOf(g)[i] = StatesOf(h)[i]
  <2>1. PICK k \in Ids(h) : k + 1 = i
    <3>1. i - 1 \in Ids(h) /\ i - 1 + 1 = i
      BY <1>1 DEF Ids
    <3> QED BY <3>1
  <2>2. StatesOf(g)[k + 1] = At(g, k).files /\ StatesOf(h)[k + 1] = At(h, k).files
    BY <1>1, LineFacts
  <2> QED BY <2>1, <2>2
<1> QED BY <1>1, <1>2, SeqEqual

\* A recorded step and a label are not on the line.
LEMMA NotedLine ==
  ASSUME NEW h, WellFormed(h), NEW i \in Ids(h), NEW call \in Nat
  PROVE  /\ StatesOf(RecordStep(h, i, call)) = StatesOf(h)
         /\ RecordStep(h, i, call).head = h.head
         /\ \A l \in Labels \cup {NoLabel} : /\ StatesOf(SetLabel(h, i, l)) = StatesOf(h)
                                             /\ SetLabel(h, i, l).head = h.head
         /\ StatesOf(Rollback(h, i)) = StatesOf(h)
<1>1. At(h, i) \in Checkpoint
  BY Shape
<1>2. ASSUME NEW g, WellFormed(g), Count(g) = Count(h), NEW cp, cp.files = At(h, i).files,
             \A j \in Ids(h) : At(g, j) = IF j = i THEN cp ELSE At(h, j)
      PROVE  StatesOf(g) = StatesOf(h)
  BY <1>2, SameLine
<1>3. StatesOf(RecordStep(h, i, call)) = StatesOf(h) /\ RecordStep(h, i, call).head = h.head
  <2> DEFINE cp == [At(h, i) EXCEPT !.steps = At(h, i).steps \cup {call}]
  <2>1. cp.files = At(h, i).files
    BY <1>1 DEF Checkpoint
  <2>2. /\ WellFormed(RecordStep(h, i, call)) /\ Count(RecordStep(h, i, call)) = Count(h)
        /\ RecordStep(h, i, call).head = h.head
        /\ \A j \in Ids(h) : At(RecordStep(h, i, call), j) = IF j = i THEN cp ELSE At(h, j)
    BY RecordStepFacts
  <2> HIDE DEF cp
  <2> QED BY <1>2, <2>1, <2>2
<1>4. ASSUME NEW l \in Labels \cup {NoLabel}
      PROVE  StatesOf(SetLabel(h, i, l)) = StatesOf(h) /\ SetLabel(h, i, l).head = h.head
  <2> DEFINE cp == [At(h, i) EXCEPT !.label = l]
  <2>1. cp.files = At(h, i).files
    BY <1>1 DEF Checkpoint
  <2>2. /\ WellFormed(SetLabel(h, i, l)) /\ Count(SetLabel(h, i, l)) = Count(h)
        /\ SetLabel(h, i, l).head = h.head
        /\ \A j \in Ids(h) : At(SetLabel(h, i, l), j) = IF j = i THEN cp ELSE At(h, j)
    BY SetLabelFacts
  <2> HIDE DEF cp
  <2> QED BY <1>2, <2>1, <2>2
<1>5. StatesOf(Rollback(h, i)) = StatesOf(h)
  BY RollbackFacts, SameLine
<1> QED BY <1>3, <1>4, <1>5

\* A push is Add.
LEMMA PushAdds ==
  ASSUME WellFormed(history), calls \in Nat, Pushes
  PROVE  T!Add
<1>1. PICK files \in FileMap : history' = Push(history, files, calls)
  BY DEF Pushes
<1>2. PICK p : p = history'
  OBVIOUS
<1> DEFINE kept == SubSeq(StatesOf(history), 1, history.head + 1)
<1>3. /\ WellFormed(p) /\ Count(p) = history.head + 2 /\ p.head = history.head + 1
      /\ \A i \in 0 .. history.head : At(p, i).files = At(history, i).files
      /\ At(p, history.head + 1).files = files
  <2>1. /\ WellFormed(p) /\ Count(p) = history.head + 2 /\ p.head = history.head + 1
        /\ \A i \in 0 .. history.head : At(p, i) = At(history, i)
        /\ At(p, history.head + 1) =
             [id |-> history.head + 1, files |-> files, label |-> NoLabel, steps |-> {calls}]
    BY <1>1, <1>2, PushFacts
  <2> QED BY <2>1
<1>4. /\ history.head \in Nat /\ Count(history) \in Nat /\ history.head < Count(history)
      /\ StatesOf(history) \in Seq(FileMap) /\ Len(StatesOf(history)) = Count(history)
  BY Shape, LineFacts DEF WellFormed
<1>5. /\ kept \in Seq(FileMap) /\ Len(kept) = history.head + 1
      /\ \A i \in 1 .. history.head + 1 : kept[i] = StatesOf(history)[i]
  BY <1>4
<1>6. /\ Append(kept, files) \in Seq(FileMap) /\ Len(Append(kept, files)) = history.head + 2
      /\ \A i \in 1 .. history.head + 1 : Append(kept, files)[i] = StatesOf(history)[i]
      /\ Append(kept, files)[history.head + 2] = files
  <2> HIDE DEF kept
  <2> QED BY <1>4, <1>5
<1>7. StatesOf(p) \in Seq(FileMap) /\ Len(StatesOf(p)) = history.head + 2
  BY <1>3, LineFacts
<1>8. ASSUME NEW i \in 1 .. history.head + 2 PROVE StatesOf(p)[i] = Append(kept, files)[i]
  <2> HIDE DEF kept
  <2>1. PICK k \in Nat : k + 1 = i
    <3>1. i - 1 \in Nat /\ i - 1 + 1 = i
      BY <1>4
    <3> QED BY <3>1
  <2>2. k \in Ids(p) /\ StatesOf(p)[k + 1] = At(p, k).files
    BY <1>3, <1>4, <2>1, LineFacts DEF Ids
  <2>3. CASE k \in 0 .. history.head
    <3>1. k \in Ids(history)
      BY <1>4, <2>3 DEF Ids
    <3>2. StatesOf(history)[k + 1] = At(history, k).files
      BY <3>1, LineFacts
    <3> QED BY <1>3, <1>4, <1>6, <2>1, <2>2, <2>3, <3>2
  <2>4. CASE k = history.head + 1
    BY <1>3, <1>4, <1>6, <2>1, <2>2, <2>4
  <2>5. k \in 0 .. history.head \/ k = history.head + 1
    BY <1>4, <2>1
  <2> QED BY <2>3, <2>4, <2>5
<1>9. StatesOf(p) = Append(kept, files)
  <2> HIDE DEF kept
  <2> QED BY <1>4, <1>6, <1>7, <1>8, SeqEqual
<1>10. StatesOf(history)' = StatesOf(p) /\ (history.head + 1)' = history.head + 1 + 1
  BY <1>2, <1>3 DEF StatesOf, Count
<1> QED BY <1>9, <1>10 DEF T!Add

\* A contraction is Forget: what is kept are the ends of the runs.
LEMMA ContractsForgets ==
  ASSUME WellFormed(history), NEW s, WellFormed(s), NEW lo, NEW hi,
         Contracts(history, s, lo, hi),
         StatesOf(history)' = StatesOf(s), history'.head = s.head
  PROVE  T!Forget
<1> DEFINE n == Count(s)
           kept == [j \in 1 .. n |-> hi[j - 1] + 1]
<1>1. /\ n \in Nat /\ n >= 1 /\ Ids(s) = 0 .. n - 1 /\ s.head \in Ids(s)
      /\ Count(history) \in Nat /\ Ids(history) = 0 .. Count(history) - 1
      /\ history.head \in Nat
  BY Shape DEF Ids
<1>2. Len(StatesOf(history)) = Count(history) /\ Len(StatesOf(s)) = n
  BY LineFacts
<1> HIDE DEF n
<1>3. ASSUME NEW j \in 1 .. n
      PROVE  /\ j - 1 \in Ids(s) /\ hi[j - 1] \in Ids(history)
             /\ kept[j] = hi[j - 1] + 1 /\ kept[j] \in 1 .. Count(history)
  <2>1. j - 1 \in Ids(s)
    BY <1>1
  <2>2. hi[j - 1] \in Ids(history)
    BY <2>1 DEF Contracts
  <2> QED BY <1>1, <2>1, <2>2
<1>4. kept \in [1 .. n -> 1 .. Count(history)]
  <2>1. \A j \in 1 .. n : hi[j - 1] + 1 \in 1 .. Count(history)
    BY <1>3
  <2> QED BY <2>1
<1>5. kept[1] = 1
  <2>1. 1 \in 1 .. n /\ 1 - 1 = 0 /\ hi[0] = 0
    BY <1>1 DEF Contracts
  <2> QED BY <1>3, <2>1
<1>6. ASSUME NEW i \in 1 .. n, NEW j \in 1 .. n, i < j PROVE kept[i] < kept[j]
  <2>1. i - 1 \in Ids(s) /\ j - 1 \in Ids(s) /\ i - 1 < j - 1
    BY <1>1, <1>6
  <2>2. hi[i - 1] < lo[j - 1] /\ lo[j - 1] <= hi[j - 1] /\ lo[j - 1] \in Ids(history)
    BY <2>1 DEF Contracts
  <2>3. hi[i - 1] < hi[j - 1]
    <3>1. hi[i - 1] \in Nat /\ lo[j - 1] \in Nat /\ hi[j - 1] \in Nat
      BY <1>1, <1>3, <2>2
    <3> QED BY <2>2, <3>1
  <2>4. kept[i] = hi[i - 1] + 1 /\ kept[j] = hi[j - 1] + 1
    BY <1>3
  <2>5. hi[i - 1] \in Nat /\ hi[j - 1] \in Nat
    BY <1>1, <1>3
  <2> HIDE DEF kept
  <2> QED BY <2>3, <2>4, <2>5
<1>7. ASSUME NEW j \in 1 .. n PROVE StatesOf(s)[j] = StatesOf(history)[kept[j]]
  <2>1. PICK k \in Ids(s) : k = j - 1 /\ k + 1 = j
    BY <1>1
  <2>2. StatesOf(s)[k + 1] = At(s, k).files /\ At(s, k).files = At(history, hi[k]).files
    BY LineFacts DEF Contracts
  <2>3. StatesOf(history)[hi[k] + 1] = At(history, hi[k]).files
    BY <1>3, <2>1, LineFacts
  <2> QED BY <1>3, <2>1, <2>2, <2>3
<1>8. StatesOf(s) = [j \in 1 .. n |-> StatesOf(history)[kept[j]]]
  <2>1. StatesOf(s) = [j \in 1 .. n |-> StatesOf(s)[j]]
    BY DEF StatesOf, n
  <2> HIDE DEF kept
  <2> QED BY <1>7, <2>1
<1>9. /\ s.head + 1 \in 1 .. n
      /\ kept[s.head + 1] >= history.head + 1
      /\ s.head + 1 > 1 => kept[s.head + 1 - 1] < history.head + 1
  <2>1. s.head \in Nat /\ s.head + 1 \in 1 .. n /\ s.head + 1 - 1 = s.head
    <3>1. s.head \in 0 .. n - 1
      BY <1>1
    <3> QED BY <1>1, <3>1
  <2>2. kept[s.head + 1] = hi[s.head] + 1 /\ hi[s.head] \in Nat
    <3>1. kept[s.head + 1] = hi[s.head + 1 - 1] + 1 /\ hi[s.head + 1 - 1] \in Ids(history)
      BY <1>3, <2>1
    <3> HIDE DEF kept
    <3> QED BY <1>1, <2>1, <3>1
  <2>3. hi[s.head] >= history.head /\ (s.head > 0 => hi[s.head - 1] < history.head)
    BY DEF Contracts
  <2>4. CASE s.head > 0
    <3>1. s.head \in 1 .. n
      BY <1>1, <2>1, <2>4
    <3>2. kept[s.head] = hi[s.head - 1] + 1 /\ hi[s.head - 1] \in Nat
      BY <1>1, <1>3, <3>1
    <3> HIDE DEF kept
    <3>3. kept[s.head + 1 - 1] = kept[s.head]
      BY <2>1
    <3>4. kept[s.head] < history.head + 1
      BY <1>1, <2>3, <2>4, <3>2
    <3>5. kept[s.head + 1] >= history.head + 1
      BY <1>1, <2>2, <2>3
    <3> QED BY <2>1, <3>3, <3>4, <3>5
  <2>5. CASE ~(s.head > 0)
    <3> HIDE DEF kept
    <3> QED BY <1>1, <2>1, <2>2, <2>3, <2>5
  <2> QED BY <2>4, <2>5
<1>10. n \in 1 .. Len(StatesOf(history))
  <2>1. n <= Count(history)
    BY DEF Contracts, n
  <2> QED BY <1>1, <1>2, <2>1
<1> HIDE DEF kept
<1>11. T!Increasing(kept)
  BY <1>4, <1>6 DEF T!Increasing
<1>12. /\ StatesOf(history)' = [j \in 1 .. n |-> StatesOf(history)[kept[j]]]
       /\ (history.head + 1)' = s.head + 1
  BY <1>8
<1>13. kept \in [1 .. n -> 1 .. Len(StatesOf(history))]
  BY <1>2, <1>4
<1>14. \E k \in [1 .. n -> 1 .. Len(StatesOf(history))] :
         /\ T!Increasing(k)
         /\ k[1] = 1
         /\ StatesOf(history)' = [j \in 1 .. n |-> StatesOf(history)[k[j]]]
         /\ (history.head + 1)' \in 1 .. n
         /\ k[(history.head + 1)'] >= history.head + 1
         /\ (history.head + 1)' > 1 => k[(history.head + 1)' - 1] < history.head + 1
  <2>1. WITNESS kept \in [1 .. n -> 1 .. Len(StatesOf(history))]
  <2>2. T!Increasing(kept) /\ kept[1] = 1
    BY <1>5, <1>11
  <2>3. StatesOf(history)' = [j \in 1 .. n |-> StatesOf(history)[kept[j]]]
    BY <1>12
  <2>4. (history.head + 1)' \in 1 .. n
    BY <1>9, <1>12
  <2>5. kept[(history.head + 1)'] >= history.head + 1
    BY <1>9, <1>12
  <2>6. (history.head + 1)' > 1 => kept[(history.head + 1)' - 1] < history.head + 1
    <3>1. PICK m \in 1 .. n : m = (history.head + 1)' /\ m = s.head + 1
      BY <1>9, <1>12
    <3>2. m - 1 = s.head + 1 - 1
      <4>1. s.head \in Nat
        BY Shape
      <4> QED BY <3>1, <4>1
    <3>3. m > 1 => kept[m - 1] < history.head + 1
      <4>1. s.head + 1 > 1 => kept[s.head + 1 - 1] < history.head + 1
        BY <1>9
      <4> QED BY <3>1, <3>2, <4>1
    <3> QED BY <3>1, <3>3
  <2> QED BY <2>2, <2>3, <2>4, <2>5, <2>6
<1> QED BY <1>10, <1>14 DEF T!Forget

\* Every step of the session is a step of its timeline or leaves it alone.
LEMMA StepSimulation ==
  ASSUME IInv, [Next]_vars
  PROVE  [T!Next]_<<StatesOf(history), history.head + 1>>
<1>1. /\ WellFormed(history) /\ calls \in Nat /\ history.head \in Ids(history)
      /\ Len(StatesOf(history)) = Count(history) /\ Count(history) \in Nat
  <2>1. WellFormed(history) /\ calls \in Nat
    BY DEF IInv, TypeOK, Sound
  <2> QED BY <2>1, Shape, LineFacts
<1>2. CASE Pushes
  BY <1>1, <1>2, PushAdds DEF T!Next
<1>3. CASE Moves
  <2>1. PICK i \in Ids(history) : \/ history' = Rollback(history, i)
                                  \/ history' = RecordStep(Rollback(history, i), i, calls)
    BY <1>3 DEF Moves
  <2>2. /\ WellFormed(Rollback(history, i)) /\ Rollback(history, i).head = i
        /\ i \in Ids(Rollback(history, i))
    BY <1>1, RollbackFacts DEF Ids
  <2>3. StatesOf(Rollback(history, i)) = StatesOf(history)
    BY <1>1, NotedLine
  <2>4. /\ StatesOf(RecordStep(Rollback(history, i), i, calls)) = StatesOf(Rollback(history, i))
        /\ RecordStep(Rollback(history, i), i, calls).head = i
    BY <1>1, <2>2, NotedLine
  <2>5. StatesOf(history') = StatesOf(history) /\ history'.head = i
    BY <2>1, <2>2, <2>3, <2>4
  <2>6. i + 1 \in 1 .. Len(StatesOf(history))
    BY <1>1 DEF Ids
  <2>7. StatesOf(history)' = StatesOf(history) /\ (history.head + 1)' = i + 1
    BY <2>5 DEF StatesOf, Count
  <2> QED BY <2>6, <2>7 DEF T!Next, T!Move
<1>4. CASE Relabels
  <2>1. PICK i \in Ids(history), l \in Labels \cup {NoLabel} :
          history' = RecordStep(SetLabel(history, i, l), i, calls)
    BY <1>4 DEF Relabels
  <2>2. WellFormed(SetLabel(history, i, l)) /\ i \in Ids(SetLabel(history, i, l))
    BY <1>1, SetLabelFacts DEF Ids
  <2>3. StatesOf(SetLabel(history, i, l)) = StatesOf(history)
        /\ SetLabel(history, i, l).head = history.head
    BY <1>1, NotedLine
  <2>4. StatesOf(history') = StatesOf(history) /\ history'.head = history.head
    BY <1>1, <2>1, <2>2, <2>3, NotedLine
  <2> QED BY <2>4 DEF StatesOf, Count
<1>5. CASE Squashes
  <2>1. PICK from \in Ids(history), to \in Ids(history), l \in Labels \cup {NoLabel} :
          /\ CanSquash(history, from, to)
          /\ history' = RecordStep(Squash(history, from, to, l), from, calls)
    BY <1>5 DEF Squashes, CheckpointSquash, Note
  <2>2. PICK s : s = Squash(history, from, to, l)
    OBVIOUS
  <2>3. from \in Nat /\ to \in Nat
    BY DEF Ids
  <2>4. /\ WellFormed(s) /\ from \in Ids(s)
        /\ Contracts(history, s, SquashLo(history, from, to), SquashHi(history, from, to))
    BY <1>1, <2>1, <2>2, <2>3, SquashSound, SquashContracts DEF IInv, Sound
  <2>5. StatesOf(history') = StatesOf(s) /\ history'.head = s.head
    BY <1>1, <2>1, <2>2, <2>4, NotedLine
  <2>6. StatesOf(history)' = StatesOf(s)
    BY <2>5 DEF StatesOf, Count
  <2> QED BY <1>1, <2>4, <2>5, <2>6, ContractsForgets DEF T!Next
<1>6. CASE Drops
  <2>1. PICK from \in Ids(history), to \in Ids(history) :
          /\ CanDrop(history, from, to)
          /\ history' = RecordStep(Drop(history, from, to), Drop(history, from, to).head, calls)
    BY <1>6 DEF Drops, CheckpointDrop, Note
  <2>2. PICK s : s = Drop(history, from, to)
    OBVIOUS
  <2>3. from \in Nat /\ to \in Nat
    BY DEF Ids
  <2>4. WellFormed(s) /\ s.head \in Ids(s)
    BY <1>1, <2>1, <2>2, <2>3, DropFacts, Shape
  <2>5. Contracts(history, s, DropOrigin(history, from, to), DropOrigin(history, from, to))
    BY <1>1, <2>1, <2>2, <2>3, DropContracts
  <2>6. StatesOf(history') = StatesOf(s) /\ history'.head = s.head
    BY <1>1, <2>1, <2>2, <2>4, NotedLine
  <2>7. StatesOf(history)' = StatesOf(s)
    BY <2>6 DEF StatesOf, Count
  <2> QED BY <1>1, <2>4, <2>5, <2>6, <2>7, ContractsForgets DEF T!Next
<1>7. CASE Stays
  <2>1. StatesOf(history') = StatesOf(history) /\ history'.head = history.head
    BY <1>1, <1>7, NotedLine DEF Stays
  <2> QED BY <2>1 DEF StatesOf, Count
<1> QED BY <1>2, <1>3, <1>4, <1>5, <1>6, <1>7, StepForms

\* The session implements the timeline: whatever sequence of calls is made, no past
\* state of the workspace is invented, altered or reordered, and the first one is kept.
THEOREM Implements == Spec => ImplementsTimeline
<1>1. ASSUME Init PROVE T!Init
  <2>1. PICK files \in FileMap : history = NewHistory(files)
    BY <1>1 DEF Init
  <2>2. /\ StatesOf(history) \in Seq(FileMap) /\ Len(StatesOf(history)) = 1
        /\ history.head = 0
    BY <2>1, NewHistoryFacts, LineFacts DEF NewHistory
  <2>3. StatesOf(history) \in [1 .. 1 -> FileMap]
    BY <2>2
  <2> QED BY <2>2, <2>3 DEF T!Init
<1>2. IInv /\ [Next]_vars => [T!Next]_<<StatesOf(history), history.head + 1>>
  BY StepSimulation
<1> QED BY <1>1, <1>2, Invariance, PTL DEF Spec, ImplementsTimeline, T!Spec

-----------------------------------------------------------------------------
(***************************************************************************)
(* What is told of a session (Views).                                      *)
(***************************************************************************)

\* A call is recorded alone at the current checkpoint only when it made it: every
\* other edit leaves there what an earlier call recorded.
LEMMA OnlyPushesMake ==
  ASSUME IInv, [Next]_vars, Made
  PROVE  Pushes
<1>1. /\ WellFormed(history) /\ Sound(history) /\ Trail(history, calls) /\ calls \in Nat
      /\ history.head \in Ids(history)
  BY Shape DEF IInv, TypeOK, Sound
<1>2. ASSUME NEW g, WellFormed(g), Trail(g, calls), NEW i \in Ids(g),
             history' = g \/ history' = RecordStep(g, i, calls)
      PROVE  FALSE
  <2>1. g.head \in Ids(g) /\ Ids(g) \subseteq Nat /\ At(g, i) \in Checkpoint
    BY <1>2, Shape DEF Ids
  <2>2. /\ RecordStep(g, i, calls).head = g.head
        /\ \A j \in Ids(g) : At(RecordStep(g, i, calls), j) =
             IF j = i THEN [At(g, i) EXCEPT !.steps = At(g, i).steps \cup {calls}] ELSE At(g, j)
    BY <1>1, <1>2, RecordStepFacts
  <2>3. [At(g, i) EXCEPT !.steps = At(g, i).steps \cup {calls}].steps =
          At(g, i).steps \cup {calls}
    BY <2>1 DEF Checkpoint
  <2>4. g.head = history'.head /\ At(g, g.head).steps \subseteq At(history', g.head).steps
    BY <1>2, <2>1, <2>2, <2>3
  <2>5. 1 <= g.head /\ At(history', g.head).steps = {calls}
    BY <2>1, <2>4 DEF Made, Current
  <2>6. PICK made \in Nat : made \in At(g, g.head).steps
    BY <1>2, <2>1, <2>5 DEF Trail, Ordered, MadeBy
  <2>7. made < calls
    BY <1>2, <2>1, <2>6 DEF Trail, Past
  <2> QED BY <1>1, <2>4, <2>5, <2>6, <2>7
<1>3. CASE Moves
  <2>1. PICK i \in Ids(history) : \/ history' = Rollback(history, i)
                                  \/ history' = RecordStep(Rollback(history, i), i, calls)
    BY <1>3 DEF Moves
  <2>2. WellFormed(Rollback(history, i)) /\ i \in Ids(Rollback(history, i))
    BY <1>1, RollbackFacts DEF Ids
  <2>3. Trail(Rollback(history, i), calls)
    BY <1>1, RelabelTrail
  <2> QED BY <1>2, <2>1, <2>2, <2>3
<1>4. CASE Relabels
  <2>1. PICK i \in Ids(history), l \in Labels \cup {NoLabel} :
          history' = RecordStep(SetLabel(history, i, l), i, calls)
    BY <1>4 DEF Relabels
  <2>2. WellFormed(SetLabel(history, i, l)) /\ i \in Ids(SetLabel(history, i, l))
    BY <1>1, SetLabelFacts DEF Ids
  <2>3. Trail(SetLabel(history, i, l), calls)
    BY <1>1, RelabelTrail
  <2> QED BY <1>2, <2>1, <2>2, <2>3
<1>5. CASE Squashes
  <2>1. PICK from \in Ids(history), to \in Ids(history), l \in Labels \cup {NoLabel} :
          /\ CanSquash(history, from, to)
          /\ history' = RecordStep(Squash(history, from, to, l), from, calls)
    BY <1>5 DEF Squashes, CheckpointSquash, Note
  <2>2. from \in Nat /\ to \in Nat
    BY DEF Ids
  <2>3. /\ WellFormed(Squash(history, from, to, l)) /\ from \in Ids(Squash(history, from, to, l))
        /\ Contracts(history, Squash(history, from, to, l), SquashLo(history, from, to),
                     SquashHi(history, from, to))
    BY <1>1, <2>1, <2>2, SquashSound, SquashContracts DEF Sound
  <2>4. Trail(Squash(history, from, to, l), calls)
    BY <1>1, <2>3, ContractsTrail
  <2> QED BY <1>2, <2>1, <2>3, <2>4
<1>6. CASE Drops
  <2>1. PICK from \in Ids(history), to \in Ids(history) :
          /\ CanDrop(history, from, to)
          /\ history' = RecordStep(Drop(history, from, to), Drop(history, from, to).head, calls)
    BY <1>6 DEF Drops, CheckpointDrop, Note
  <2>2. from \in Nat /\ to \in Nat
    BY DEF Ids
  <2>3. /\ WellFormed(Drop(history, from, to))
        /\ Drop(history, from, to).head \in Ids(Drop(history, from, to))
        /\ Contracts(history, Drop(history, from, to), DropOrigin(history, from, to),
                     DropOrigin(history, from, to))
    BY <1>1, <2>1, <2>2, DropFacts, DropContracts, Shape
  <2>4. Trail(Drop(history, from, to), calls)
    BY <1>1, <2>3, ContractsTrail
  <2> QED BY <1>2, <2>1, <2>3, <2>4
<1>7. CASE Stays
  BY <1>1, <1>2, <1>7 DEF Stays
<1> QED BY <1>3, <1>4, <1>5, <1>6, <1>7, StepForms

\* What is told of an id is read from the files of the checkpoints up to it.
LEMMA SameTold ==
  ASSUME NEW g, NEW h, NEW i \in Nat, \A j \in 0 .. i : At(g, j).files = At(h, j).files
  PROVE  Told(g, i) = Told(h, i)
<1>1. \A k : FileOf(g, i, k) = FileOf(h, i, k)
  BY DEF FileOf, FilesOf
<1>2. Entry(g, i).delta = Entry(h, i).delta
  <2>1. i > 0 => At(g, i - 1).files = At(h, i - 1).files
    OBVIOUS
  <2> QED BY <2>1 DEF Entry
<1>3. WebDiff(g, None, i) = WebDiff(h, None, i)
  BY NamesAssumption DEF WebDiff, Diff
<1> QED BY <1>1, <1>2, <1>3 DEF Told

\* An id that a client read keeps meaning the checkpoint it was read for, until a squash
\* or drop at or before it, or a new checkpoint behind which it was cut off.
THEOREM IdsStayPutCorrect == Spec => IdsStayPut
<1>1. ASSUME IInv, [Next]_vars, NEW i \in Ids(history)
      PROVE  StaysPut(i) \/ Renumbers(i) \/ Cuts(i)
  <2>1. /\ WellFormed(history) /\ Sound(history) /\ calls \in Nat
        /\ history.head \in Ids(history) /\ Ids(history) = 0 .. Count(history) - 1
        /\ Count(history) \in Nat /\ i \in Nat
    BY <1>1, Shape DEF IInv, TypeOK, Sound, Ids
  <2>2. Sound(history') /\ WellFormed(history')
    BY <1>1, NextIInv DEF IInv, Sound
  <2>3. ASSUME i \in Ids(history'), \A j \in 0 .. i : At(history', j).files = At(history, j).files,
               At(history, i).steps \subseteq At(history', i).steps
        PROVE  StaysPut(i)
    <3>1. Told(history', i) = Told(history, i)
      BY <2>1, <2>3, SameTold
    <3>2. Entry(history, i).steps \subseteq Entry(history', i).steps
      BY <2>3 DEF Entry
    <3>3. At(history', i).id = i /\ At(history', history'.head).id = history'.head
      BY <2>2, <2>3, Shape DEF Sound, Indexed
    <3> QED BY <2>3, <3>1, <3>2, <3>3 DEF StaysPut, IsCurrent, Current
  <2>4. ASSUME NEW g, WellFormed(g), NEW k \in Ids(g),
               history' = g \/ history' = RecordStep(g, k, calls), i \in Ids(g),
               \A j \in 0 .. i : At(g, j).files = At(history, j).files,
               At(history, i).steps \subseteq At(g, i).steps
        PROVE  StaysPut(i)
    <3>1. At(g, k) \in Checkpoint /\ 0 .. i \subseteq Ids(g)
      BY <2>1, <2>4, Shape DEF Ids
    <3>2. /\ Ids(RecordStep(g, k, calls)) = Ids(g)
          /\ \A j \in Ids(g) : At(RecordStep(g, k, calls), j) =
               IF j = k THEN [At(g, k) EXCEPT !.steps = At(g, k).steps \cup {calls}] ELSE At(g, j)
      BY <2>1, <2>4, RecordStepFacts DEF Ids
    <3>3. /\ [At(g, k) EXCEPT !.steps = At(g, k).steps \cup {calls}].files = At(g, k).files
          /\ At(g, k).steps \subseteq
               [At(g, k) EXCEPT !.steps = At(g, k).steps \cup {calls}].steps
      BY <3>1 DEF Checkpoint
    <3>4. /\ Ids(history') = Ids(g)
          /\ \A j \in Ids(g) : /\ At(history', j).files = At(g, j).files
                               /\ At(g, j).steps \subseteq At(history', j).steps
      BY <2>4, <3>2, <3>3
    <3> QED BY <2>3, <2>4, <3>1, <3>4
  <2>5. CASE Pushes
    <3>1. PICK files \in FileMap : history' = Push(history, files, calls)
      BY <2>5 DEF Pushes
    <3>2. /\ Count(history') = history.head + 2 /\ history'.head = history.head + 1
          /\ \A j \in 0 .. history.head : At(history', j) = At(history, j)
          /\ At(history', history.head + 1) =
               [id |-> history.head + 1, files |-> files, label |-> NoLabel, steps |-> {calls}]
      BY <2>1, <3>1, PushFacts
    <3>3. CASE i <= history.head
      BY <2>1, <2>3, <3>2, <3>3 DEF Ids
    <3>4. CASE i > history.head
      <4>1. At(history', history.head + 1).steps = {calls}
        BY <3>2
      <4> QED BY <2>1, <3>2, <3>4, <4>1 DEF Cuts, Made, Current
    <3> QED BY <2>1, <3>3, <3>4
  <2>6. CASE Moves
    <3>1. PICK k \in Ids(history) : \/ history' = Rollback(history, k)
                                    \/ history' = RecordStep(Rollback(history, k), k, calls)
      BY <2>6 DEF Moves
    <3>2. /\ WellFormed(Rollback(history, k)) /\ Ids(Rollback(history, k)) = Ids(history)
          /\ \A j \in Ids(history) : At(Rollback(history, k), j) = At(history, j)
      BY <2>1, RollbackFacts DEF Ids
    <3>3. \A j \in 0 .. i : At(Rollback(history, k), j).files = At(history, j).files
      BY <2>1, <3>2
    <3> QED BY <2>4, <3>1, <3>2, <3>3
  <2>7. CASE Relabels
    <3>1. PICK k \in Ids(history), l \in Labels \cup {NoLabel} :
            history' = RecordStep(SetLabel(history, k, l), k, calls)
      BY <2>7 DEF Relabels
    <3>2. /\ WellFormed(SetLabel(history, k, l)) /\ Ids(SetLabel(history, k, l)) = Ids(history)
          /\ \A j \in Ids(history) : At(SetLabel(history, k, l), j) =
               IF j = k THEN [At(history, k) EXCEPT !.label = l] ELSE At(history, j)
      BY <2>1, SetLabelFacts DEF Ids
    <3>3. /\ [At(history, k) EXCEPT !.label = l].steps = At(history, k).steps
          /\ [At(history, k) EXCEPT !.label = l].files = At(history, k).files
      <4>1. At(history, k) \in Checkpoint
        BY <2>1, Shape
      <4> QED BY <4>1 DEF Checkpoint
    <3>4. \A j \in Ids(history) :
            /\ At(SetLabel(history, k, l), j).files = At(history, j).files
            /\ At(SetLabel(history, k, l), j).steps = At(history, j).steps
      BY <3>2, <3>3
    <3>5. i \in 0 .. i /\ \A j \in 0 .. i : j \in Ids(history)
      BY <2>1
    <3> QED BY <2>4, <3>1, <3>2, <3>4, <3>5
  <2>8. CASE Squashes
    <3>1. PICK from \in Ids(history), to \in Ids(history), l \in Labels \cup {NoLabel} :
            CheckpointSquash(from, to, l)
      BY <2>8 DEF Squashes
    <3>2. PICK s : s = Squash(history, from, to, l)
      OBVIOUS
    <3>3. CanSquash(history, from, to) /\ history' = RecordStep(s, from, calls)
      BY <3>1, <3>2 DEF CheckpointSquash, Note
    <3>4. CASE from <= i
      BY <3>1, <3>4 DEF Renumbers
    <3>5. CASE i < from
      <4>1. /\ WellFormed(s) /\ from \in Ids(s)
            /\ \A j \in 0 .. from - 1 : At(s, j) = WithId(At(history, j), j)
        BY <2>1, <3>2, <3>3, SquashFacts, SquashSound DEF Ids
      <4>2. i \in Ids(s)
        BY <2>1, <3>5, <4>1, Shape DEF Ids
      <4>3. \A j \in 0 .. i : /\ At(s, j).files = At(history, j).files
                              /\ At(s, j).steps = At(history, j).steps
        <5> SUFFICES ASSUME NEW j \in 0 .. i
                     PROVE  /\ At(s, j).files = At(history, j).files
                            /\ At(s, j).steps = At(history, j).steps
          OBVIOUS
        <5>1. j \in Ids(history) /\ j \in 0 .. from - 1 /\ j \in Nat
          BY <2>1, <3>5 DEF Ids
        <5>2. At(history, j) \in Checkpoint
          BY <2>1, <5>1, Shape
        <5> QED BY <4>1, <5>1, <5>2, WithIdFacts
      <4>4. i \in 0 .. i
        BY <2>1
      <4> QED BY <2>4, <3>3, <4>1, <4>2, <4>3, <4>4
    <3> QED BY <2>1, <3>4, <3>5 DEF Ids
  <2>9. CASE Drops
    <3>1. PICK from \in Ids(history), to \in Ids(history) : CheckpointDrop(from, to)
      BY <2>9 DEF Drops
    <3>2. PICK s : s = Drop(history, from, to)
      OBVIOUS
    <3>3. CanDrop(history, from, to) /\ history' = RecordStep(s, s.head, calls)
      BY <3>1, <3>2 DEF CheckpointDrop, Note
    <3>4. CASE from <= i
      BY <3>1, <3>4 DEF Renumbers
    <3>5. CASE i < from
      <4>1. /\ WellFormed(s) /\ s.head \in Ids(s)
            /\ Count(s) = Count(history) - (to - from + 1)
            /\ from <= to /\ to < Count(history) /\ from \in Nat /\ to \in Nat
            /\ \A j \in 0 .. from - 1 : At(s, j) = WithId(At(history, j), j)
        BY <2>1, <3>2, <3>3, DropFacts, Shape DEF Ids, CanDrop, CanEdit
      <4>2. i \in Ids(s)
        BY <2>1, <3>5, <4>1 DEF Ids
      <4>3. \A j \in 0 .. i : /\ At(s, j).files = At(history, j).files
                              /\ At(s, j).steps = At(history, j).steps
        <5> SUFFICES ASSUME NEW j \in 0 .. i
                     PROVE  /\ At(s, j).files = At(history, j).files
                            /\ At(s, j).steps = At(history, j).steps
          OBVIOUS
        <5>1. j \in Ids(history) /\ j \in 0 .. from - 1 /\ j \in Nat
          BY <2>1, <3>5 DEF Ids
        <5>2. At(history, j) \in Checkpoint
          BY <2>1, <5>1, Shape
        <5> QED BY <4>1, <5>1, <5>2, WithIdFacts
      <4>4. i \in 0 .. i
        BY <2>1
      <4> QED BY <2>4, <3>3, <4>1, <4>2, <4>3, <4>4
    <3> QED BY <2>1, <3>4, <3>5 DEF Ids
  <2>10. CASE Stays
    BY <2>1, <2>4, <2>10 DEF Stays
  <2> QED BY <1>1, <2>5, <2>6, <2>7, <2>8, <2>9, <2>10, StepForms
<1>2. IInv /\ [Next]_vars =>
        [\A i \in Ids(history) : StaysPut(i) \/ Renumbers(i) \/ Cuts(i)]_vars
  BY <1>1
<1> QED BY <1>2, Invariance, PTL DEF Spec, IdsStayPut

\* Two ways to ask for the files that differ between two states ask for the same.
LEMMA SameChange ==
  ASSUME NEW a \in FileMap, NEW b \in FileMap
  PROVE  Seen(Delta(a, b), a, b) = {k \in Present(a) \cup Present(b) : Bytes(a, k) /= Bytes(b, k)}
<1>1. a /= None
  BY NamesAssumption
<1>2. /\ Delta(a, b).added = Present(b) \ Present(a)
      /\ Delta(a, b).modified = {k \in Present(b) \cap Present(a) : b[k] /= a[k]}
      /\ Delta(a, b).removed = Present(a) \ Present(b)
  BY <1>1 DEF Delta
<1>3. \A k : Bytes(a, k) /= Bytes(b, k) => a[k] /= b[k]
  BY DEF Bytes
<1> QED BY <1>2, <1>3 DEF Seen

\* The answer to a call that made a checkpoint, that checkpoint's entry and a diff without
\* arguments tell of one change, those of a call that only reads of none, and that of a
\* rollback of what a diff between its ends shows.
THEOREM AnswersAgreeCorrect == Spec => AnswersAgree
<1>1. ASSUME IInv, [Next]_vars PROVE Agreement
  <2> DEFINE before == Current(history).files
             answer == StateAnswer(history', before)
             after == Current(history').files
             shown == Seen(answer.delta, before, after)
  <2>1. /\ WellFormed(history) /\ calls \in Nat
        /\ history.head \in Ids(history) /\ Ids(history) = 0 .. Count(history) - 1
        /\ Count(history) \in Nat /\ before \in FileMap
        /\ \A i \in Ids(history) : At(history, i).id = i
    BY <1>1, Shape DEF IInv, TypeOK, Sound, Ids, Checkpoint, Indexed
  <2>2. /\ WellFormed(history') /\ after \in FileMap
        /\ history'.head \in Ids(history') /\ Ids(history') \subseteq Nat
        /\ Current(history').id = history'.head
    BY <1>1, NextIInv, Shape DEF IInv, Sound, Ids, Checkpoint, Indexed, Current
  <2>3. /\ answer.checkpoint = history'.head
        /\ answer.delta = Delta(before, after)
    BY <2>2 DEF StateAnswer
  <2>4. shown = {k \in Present(before) \cup Present(after) : Bytes(before, k) /= Bytes(after, k)}
    BY <2>1, <2>2, <2>3, SameChange
  <2>5. ASSUME Made
        PROVE  /\ Entry(history', answer.checkpoint).delta = answer.delta
               /\ SessionDiff(history', None, None) = shown
    <3>1. PICK files \in FileMap : history' = Push(history, files, calls)
      BY <1>1, <2>5, OnlyPushesMake DEF Pushes
    <3>2. /\ history'.head = history.head + 1
          /\ At(history', history.head) = At(history, history.head)
      <4>1. history.head \in 0 .. history.head
        BY <2>1
      <4>2. /\ Push(history, files, calls).head = history.head + 1
            /\ \A j \in 0 .. history.head : At(Push(history, files, calls), j) = At(history, j)
        BY <2>1, PushFacts
      <4> QED BY <3>1, <4>1, <4>2
    <3>3. /\ history'.head > 0 /\ history'.head - 1 = history.head
          /\ At(history', history'.head - 1).files = before
      BY <2>1, <3>2 DEF Current
    <3>4. Entry(history', history'.head).delta = Delta(before, after)
      BY <3>3 DEF Entry, Current
    <3>5. SessionDiff(history', None, None) = Diff(history', history'.head - 1, history'.head)
      BY <2>2, <3>3 DEF SessionDiff
    <3> QED BY <2>3, <2>4, <3>3, <3>4, <3>5 DEF Diff, Current
  <2>6. ASSUME Observe PROVE QuietAnswer(history') = answer
    <3>1. history' = RecordStep(history, history.head, calls)
      BY <2>6 DEF Observe, Note
    <3>2. after = before
      BY <2>1, <3>1, NotedFiles
    <3>3. Delta(before, before) = NoDelta
      BY DEF Delta, NoDelta
    <3> QED BY <3>2, <3>3 DEF QuietAnswer, StateAnswer, Delta
  <2>7. ASSUME NEW i \in Ids(history), history' = RecordStep(Rollback(history, i), i, calls)
        PROVE  /\ SessionDiff(history', history.head, i) = shown
               /\ \A l \in Labels : Labelled(history', l) = Labelled(history, l)
               /\ \A j \in Ids(history) : At(history', j).id = j
    <3> DEFINE g == Rollback(history, i)
    <3>1. /\ WellFormed(g) /\ Ids(g) = Ids(history) /\ g.head = i /\ i \in Ids(g)
          /\ \A j \in Ids(history) : At(g, j) = At(history, j)
      BY <2>1, RollbackFacts DEF Ids
    <3> HIDE DEF g
    <3>2. At(g, i) \in Checkpoint
      BY <3>1, Shape
    <3>3. /\ Ids(RecordStep(g, i, calls)) = Ids(g) /\ RecordStep(g, i, calls).head = i
          /\ \A j \in Ids(g) : At(RecordStep(g, i, calls), j) =
               IF j = i THEN [At(g, i) EXCEPT !.steps = At(g, i).steps \cup {calls}] ELSE At(g, j)
      <4>1. Count(RecordStep(g, i, calls)) = Count(g)
        BY <2>1, <3>1, RecordStepFacts
      <4> QED BY <2>1, <3>1, <4>1, RecordStepFacts DEF Ids
    <3>4. /\ [At(g, i) EXCEPT !.steps = At(g, i).steps \cup {calls}].files = At(g, i).files
          /\ [At(g, i) EXCEPT !.steps = At(g, i).steps \cup {calls}].label = At(g, i).label
          /\ [At(g, i) EXCEPT !.steps = At(g, i).steps \cup {calls}].id = At(g, i).id
      BY <3>2 DEF Checkpoint
    <3>5. history' = RecordStep(g, i, calls)
      BY <2>7 DEF g
    <3>6. /\ Ids(history') = Ids(history) /\ history'.head = i
          /\ \A j \in Ids(history) : /\ At(history', j).files = At(history, j).files
                                     /\ At(history', j).label = At(history, j).label
                                     /\ At(history', j).id = At(history, j).id
      BY <3>1, <3>3, <3>4, <3>5
    <3>7. SessionDiff(history', history.head, i) = Diff(history', history.head, i)
      <4>1. history.head /= None /\ i /= None
        BY <2>1, NamesAssumption
      <4> QED BY <4>1 DEF SessionDiff
    <3>8. Diff(history', history.head, i) = shown
      BY <2>1, <2>4, <3>6 DEF Diff, Current
    <3>9. \A l \in Labels : Labelled(history', l) = Labelled(history, l)
      BY <3>6 DEF Labelled
    <3> QED BY <2>1, <3>6, <3>7, <3>8, <3>9
  <2>8. ASSUME NEW i \in Ids(history), RollbackToId(i)
        PROVE  SessionDiff(history', history.head, Resolve(history', i, None)) = shown
    <3>1. history' = RecordStep(Rollback(history, i), i, calls)
      BY <2>1, <2>8, RollbackFacts DEF RollbackToId, Note
    <3>2. Resolve(history', i, None) = i
      BY DEF Resolve
    <3> QED BY <2>7, <3>1, <3>2
  <2>9. ASSUME NEW l \in Labels, RollbackToLabel(l)
        PROVE  SessionDiff(history', history.head, Resolve(history', None, l)) = shown
    <3>1. PICK i \in Ids(history) : i = CheckpointByLabel(history, l)
      BY <2>9 DEF RollbackToLabel
    <3>2. history' = RecordStep(Rollback(history, i), i, calls)
      <4>1. history' = RecordStep(Rollback(history, i), Rollback(history, i).head, calls)
        BY <2>9, <3>1 DEF RollbackToLabel, Note
      <4> QED BY <2>1, <4>1, RollbackFacts
    <3>3. /\ Labelled(history', l) = Labelled(history, l)
          /\ \A j \in Ids(history) : At(history', j).id = j
          /\ SessionDiff(history', history.head, i) = shown
      BY <2>7, <3>2
    <3>4. CheckpointByLabel(history', l) = CheckpointByLabel(history, l)
      <4> DEFINE S == Labelled(history, l)
                 first == CHOOSE m \in S : \A n \in S : m <= n
      <4>1. S \subseteq Nat /\ S /= {} /\ S \subseteq Ids(history)
        BY <2>9 DEF RollbackToLabel, Labelled, Ids
      <4>2. first \in S
        <5>1. \E m \in S : \A n \in S : m <= n
          BY <4>1, LeastNatural
        <5> QED BY <5>1
      <4>3. CheckpointByLabel(history, l) = At(history, first).id
        BY DEF CheckpointByLabel
      <4>4. CheckpointByLabel(history', l) = At(history', first).id
        BY <3>3 DEF CheckpointByLabel
      <4> QED BY <2>1, <3>3, <4>1, <4>2, <4>3, <4>4
    <3>5. Resolve(history', None, l) = i
      BY <3>1, <3>4, NamesAssumption DEF Resolve
    <3> QED BY <3>3, <3>5
  <2> QED BY <2>5, <2>6, <2>8, <2>9 DEF Agreement
<1>2. IInv /\ [Next]_vars => [Agreement]_vars
  BY <1>1
<1> QED BY <1>2, Invariance, PTL DEF Spec, AnswersAgree
=============================================================================
