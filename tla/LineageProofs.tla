--------------------------- MODULE LineageProofs ---------------------------
(***************************************************************************)
(* Theorems about Lineage: for any number of sessions, any limits, edited  *)
(* at any time, and any order of forks, restores, merges, edits, closes    *)
(* and restarts.                                                           *)
(*                                                                         *)
(* A session and a snapshot file are kept by the same four facts: the      *)
(* history is sound, its checkpoint 0 is what the session branched off     *)
(* with, the branch point is still in the parent's history unless the      *)
(* parent was rewritten, and what is beyond the limits was there when they *)
(* were set.  A snapshot carries them over to the session that restores    *)
(* it.                                                                     *)
(***************************************************************************)
EXTENDS Lineage, CheckpointsProofs

Based(h, b) == b /= NoParent => At(h, 0).files = b.files

\* Where p says the parent is, and what the parent still has of branch point b.
Placed(p, b) ==
  p /= NoParent =>
    /\ p.session \in used
    /\ p.session \notin rewritten =>
         /\ p.checkpoint \in Ids(history[p.session])
         /\ b.steps \subseteq At(history[p.session], p.checkpoint).steps

Kept(s) == /\ Sound(s.history) /\ Based(s.history, s.branch) /\ Placed(s.parent, s.branch)
           /\ Allowed(s.history, s.held)

SessionInv(id) ==
  /\ Sound(history[id])
  /\ id \in used => /\ Based(history[id], branch[id]) /\ Placed(parent[id], branch[id])
                    /\ Allowed(history[id], held[id])
SnapshotInv(id) == snapshots[id] /= NoParent => Kept(snapshots[id])

\* A session is younger than its parent, so parents never form a cycle.
Older(age) ==
  \A id \in used : parent[id] /= NoParent => age[parent[id].session] < age[id]
Acyclic == \E age \in [Sessions -> Nat] : Older(age)

\* The inductive invariant.
IInv ==
  /\ TypeOK
  /\ \A id \in Sessions : SessionInv(id) /\ SnapshotInv(id)
  /\ Acyclic

-----------------------------------------------------------------------------
\* The checkpoints of new are no more than those of h, and have files of theirs.
Fewer(new, h) ==
  /\ Count(new) <= Count(h)
  /\ \A i \in Ids(new) : \E j \in Ids(h) : At(new, i).files = At(h, j).files

\* What leaves fewer checkpoints, or the same, stays allowed.
LEMMA FewerAllowed ==
  ASSUME NEW h, WellFormed(h), NEW new, WellFormed(new), NEW had \in Held, Allowed(h, had),
         Fewer(new, h), TypeOK
  PROVE  Allowed(new, had)
<1>1. Count(h) \in Nat /\ Count(new) \in Nat /\ had.count \in Nat /\ limits.checkpoints \in Nat
  BY Shape, ConfigsAssumption, LimitAssumption DEF Held, TypeOK
<1>2. Count(new) <= limits.checkpoints \/ Count(new) <= had.count
  BY <1>1 DEF Allowed, Fewer
<1>3. ASSUME NEW i \in Ids(new)
      PROVE  At(new, i).files \in limits.fits \/ Left(At(new, i).files, had.files)
  <2>1. PICK j \in Ids(h) : At(new, i).files = At(h, j).files
    BY DEF Fewer
  <2> QED BY <2>1 DEF Allowed
<1> QED BY <1>2, <1>3 DEF Allowed

\* Every history is allowed what it has, whatever the limits.
LEMMA HasAllowed ==
  ASSUME NEW h, WellFormed(h)
  PROVE  Has(h) \in Held /\ Allowed(h, Has(h)) /\ Allowed(h, Has(h))'
<1>1. Count(h) \in Nat /\ \A i \in Ids(h) : At(h, i).files \in FileMap
  BY Shape DEF Checkpoint
<1>2. \A files \in FileMap : Without(files, {}) = files
  BY DEF FileMap, Without
<1>3. Has(h).count = Count(h) /\ Has(h).files = {At(h, i).files : i \in Ids(h)}
  BY DEF Has
<1>4. Has(h) \in Held
  BY <1>1 DEF Has, Held
<1>5. \A i \in Ids(h) : Left(At(h, i).files, Has(h).files)
  BY <1>1, <1>2, <1>3 DEF Left
<1>6. Count(h) <= Has(h).count
  BY <1>1, <1>3
<1>7. Allowed(h, Has(h))
  BY <1>5, <1>6 DEF Allowed
<1>8. Allowed(h, Has(h))'
  BY <1>5, <1>6 DEF Allowed
<1> QED BY <1>4, <1>7, <1>8

\* What is left of files that are allowed is allowed.
LEMMA WithoutAllowed ==
  ASSUME TypeOK, NEW had \in Held, NEW files, NEW gone \in SUBSET Keys,
         files \in limits.fits \/ Left(files, had.files)
  PROVE  Without(files, gone) \in limits.fits \/ Left(Without(files, gone), had.files)
<1>1. CASE files \in limits.fits
  BY <1>1, ConfigsAssumption DEF TypeOK
<1>2. CASE Left(files, had.files)
  <2>1. PICK whole \in had.files, other \in SUBSET Keys : files = Without(whole, other)
    BY <1>2 DEF Left
  <2>2. Without(files, gone) = Without(whole, other \cup gone)
    BY <2>1 DEF Without
  <2>3. other \cup gone \in SUBSET Keys
    OBVIOUS
  <2> QED BY <2>1, <2>2, <2>3 DEF Left
<1> QED BY <1>1, <1>2

\* A checkpoint pushed below the limit, with files that are allowed, is allowed.
LEMMA PushAllowed ==
  ASSUME TypeOK, NEW h, WellFormed(h), NEW had \in Held, Allowed(h, had),
         ~LimitReached(h, limits.checkpoints), NEW files \in FileMap, NEW call \in Nat,
         files \in limits.fits \/ Left(files, had.files)
  PROVE  Allowed(Push(h, files, call), had)
<1> DEFINE p == Push(h, files, call)
<1>1. /\ WellFormed(p) /\ Count(p) = h.head + 2
      /\ \A i \in 0 .. h.head : At(p, i) = At(h, i)
      /\ At(p, h.head + 1).files = files
  <2>1. At(p, h.head + 1) =
          [id |-> h.head + 1, files |-> files, label |-> NoLabel, steps |-> {call}]
    BY PushFacts
  <2>2. At(p, h.head + 1).files = files
    BY <2>1
  <2> QED BY <2>2, PushFacts
<1>2. /\ h.head \in Nat /\ Count(h) \in Nat /\ h.head < Count(h)
      /\ limits.checkpoints \in Nat /\ Count(h) < limits.checkpoints
  BY Shape, ConfigsAssumption, LimitAssumption DEF WellFormed, LimitReached, TypeOK
<1> HIDE DEF p
<1>3. Ids(p) = (0 .. h.head) \cup {h.head + 1} /\ 0 .. h.head \subseteq Ids(h)
  BY <1>1, <1>2 DEF Ids
<1>4. Count(p) <= limits.checkpoints
  BY <1>1, <1>2
<1>5. \A i \in Ids(p) : At(p, i).files \in limits.fits \/ Left(At(p, i).files, had.files)
  <2>1. \A i \in 0 .. h.head : At(p, i).files \in limits.fits \/ Left(At(p, i).files, had.files)
    BY <1>1, <1>3 DEF Allowed
  <2> QED BY <1>1, <1>3, <2>1
<1> QED BY <1>4, <1>5 DEF Allowed, p

-----------------------------------------------------------------------------
\* A daemon begins with the invariant: it has no sessions and no snapshots.
LEMMA InitIInv == Init => IInv
<1> SUFFICES ASSUME Init PROVE IInv
  OBVIOUS
<1>1. NoFiles \in FileMap /\ Sound(NewHistory(NoFiles))
  <2>1. NoFiles \in FileMap
    BY DEF NoFiles, FileMap
  <2> QED BY <2>1, NewHistorySound, FitsAssumption
<1>2. \A id \in Sessions : history[id] = NewHistory(NoFiles)
  BY DEF Init
<1>3. TypeOK
  <2>1. WellFormed(NewHistory(NoFiles)) /\ Has(NewHistory(NoFiles)) \in Held
    BY <1>1, HasAllowed DEF Sound
  <2> QED BY <1>2, <2>1 DEF Init, TypeOK, WellFormed
<1>4. \A id \in Sessions : SessionInv(id) /\ SnapshotInv(id)
  BY <1>1 DEF Init, SessionInv, SnapshotInv
<1>5. Acyclic
  <2>1. [id \in Sessions |-> 0] \in [Sessions -> Nat] /\ Older([id \in Sessions |-> 0])
    BY DEF Init, Older
  <2> QED BY <2>1 DEF Acyclic
<1> QED BY <1>3, <1>4, <1>5 DEF IInv

\* A session that begins with the four facts takes them into the invariant, and
\* is younger than its parent because its id was never used.
LEMMA OpenKeepsIInv ==
  ASSUME IInv, NEW id \in Sessions, NEW new \in Snapshot, Open(id, new), Kept(new)
  PROVE  IInv'
<1>1. /\ TypeOK /\ id \notin used
      /\ open' = open \cup {id} /\ used' = used \cup {id}
      /\ history' = [history EXCEPT ![id] = new.history]
      /\ parent' = [parent EXCEPT ![id] = new.parent]
      /\ branch' = [branch EXCEPT ![id] = new.branch]
      /\ held' = [held EXCEPT ![id] = new.held]
      /\ UNCHANGED <<rewritten, snapshots, limits, calls>>
  BY DEF IInv, Open
<1>2. /\ Sound(new.history) /\ new.history \in History
      /\ new.history.head < Count(new.history)
      /\ new.parent \in Ref \cup {NoParent} /\ new.branch \in Checkpoint \cup {NoParent}
      /\ new.held \in Held
      /\ new.parent /= NoParent => new.parent.session \in used
  BY DEF Kept, Sound, WellFormed, Placed, Snapshot
<1>3. TypeOK'
  BY <1>1, <1>2 DEF TypeOK
<1>4. ASSUME NEW p, NEW b, Placed(p, b) PROVE Placed(p, b)'
  BY <1>1, <1>4 DEF Placed, TypeOK
<1>a. ASSUME NEW h, NEW had, Allowed(h, had) PROVE Allowed(h, had)'
  BY <1>1, <1>a DEF Allowed
<1>5. ASSUME NEW j \in Sessions PROVE SessionInv(j)'
  <2>1. CASE j = id
    <3>1. /\ history'[id] = new.history /\ parent'[id] = new.parent
          /\ branch'[id] = new.branch /\ held'[id] = new.held
      BY <1>1 DEF TypeOK
    <3>2. Placed(new.parent, new.branch)'
      BY <1>4 DEF Kept
    <3>3. (Placed(parent[id], branch[id]))'
      BY <3>1, <3>2 DEF Placed
    <3>4. Allowed(new.history, new.held)'
      BY <1>a DEF Kept
    <3>5. (Allowed(history[id], held[id]))'
      BY <3>1, <3>4 DEF Allowed
    <3> QED BY <2>1, <3>1, <3>3, <3>5 DEF Kept, SessionInv, Based
  <2>2. CASE j /= id
    <3>1. /\ history'[j] = history[j] /\ parent'[j] = parent[j] /\ branch'[j] = branch[j]
          /\ held'[j] = held[j] /\ (j \in used' <=> j \in used)
      BY <1>1, <2>2 DEF TypeOK
    <3>2. SessionInv(j)
      BY DEF IInv
    <3>3. CASE j \in used
      <4>1. PICK p, b : p = parent[j] /\ b = branch[j]
        OBVIOUS
      <4>2. Placed(p, b)'
        BY <3>2, <3>3, <4>1, <1>4 DEF SessionInv
      <4>3. (Placed(parent[j], branch[j]))'
        BY <3>1, <4>1, <4>2 DEF Placed
      <4>4. (Allowed(history[j], held[j]))'
        <5>1. PICK h, had : h = history[j] /\ had = held[j]
          OBVIOUS
        <5>2. Allowed(h, had)'
          BY <3>2, <3>3, <5>1, <1>a DEF SessionInv
        <5> QED BY <3>1, <5>1, <5>2 DEF Allowed
      <4> QED BY <3>1, <3>2, <3>3, <4>3, <4>4 DEF SessionInv, Based
    <3>4. CASE j \notin used
      BY <3>1, <3>2, <3>4 DEF SessionInv
    <3> QED BY <3>3, <3>4
  <2> QED BY <2>1, <2>2
<1>6. ASSUME NEW j \in Sessions PROVE SnapshotInv(j)'
  <2>1. PICK s : s = snapshots[j]
    OBVIOUS
  <2>2. SnapshotInv(j) /\ snapshots'[j] = s
    BY <1>1, <2>1 DEF IInv
  <2>3. s /= NoParent => Kept(s)'
    BY <2>1, <2>2, <1>4, <1>a DEF SnapshotInv, Kept, Based
  <2> QED BY <2>2, <2>3 DEF SnapshotInv, Kept, Placed, Allowed
<1>7. Acyclic'
  <2>1. PICK age \in [Sessions -> Nat] : Older(age)
    BY DEF IInv, Acyclic
  <2> DEFINE n == IF new.parent = NoParent THEN 0 ELSE age[new.parent.session] + 1
             new_age == [age EXCEPT ![id] = n]
  <2>2. n \in Nat /\ new_age \in [Sessions -> Nat]
    BY <1>1, <1>2, <2>1 DEF TypeOK
  <2>3. ASSUME NEW j \in used', parent'[j] /= NoParent
        PROVE  new_age[parent'[j].session] < new_age[j]
    <3>1. CASE j = id
      <4>1. /\ parent'[j] = new.parent /\ new.parent.session \in used
            /\ new.parent.session \in Sessions /\ new.parent.session /= id
        BY <1>1, <1>2, <2>3, <3>1 DEF TypeOK
      <4>2. new_age[j] = age[new.parent.session] + 1
        BY <2>3, <3>1, <4>1
      <4>3. new_age[new.parent.session] = age[new.parent.session]
        BY <4>1
      <4> HIDE DEF new_age
      <4> QED BY <4>1, <4>2, <4>3
    <3>2. CASE j /= id
      <4>1. /\ parent'[j] = parent[j] /\ j \in used /\ j \in Sessions
            /\ parent[j].session \in used
            /\ parent[j].session \in Sessions /\ parent[j].session /= id
        BY <1>1, <2>3, <3>2 DEF TypeOK
      <4>2. age[parent[j].session] < age[j]
        BY <2>1, <2>3, <4>1 DEF Older
      <4> QED BY <3>2, <4>1, <4>2
    <3> QED BY <3>1, <3>2
  <2> HIDE DEF new_age
  <2>4. Older(new_age)'
    BY <2>3 DEF Older
  <2> QED BY <2>2, <2>4 DEF Acyclic
<1> QED BY <1>3, <1>5, <1>6, <1>7 DEF IInv

\* What a snapshot file keeps of a session is the four facts about it.
LEMMA WrittenKept ==
  ASSUME IInv, NEW id \in used
  PROVE  /\ Written(id) \in [Sessions -> Snapshot \cup {NoParent}]
         /\ Kept(Written(id)[id])
         /\ \A j \in Sessions : j /= id => Written(id)[j] = snapshots[j]
<1> DEFINE s == [history |-> history[id], parent |-> parent[id], branch |-> branch[id],
               held |-> held[id]]
<1>1. TypeOK /\ id \in Sessions /\ SessionInv(id)
  BY DEF IInv, TypeOK
<1>2. s \in Snapshot
  BY <1>1 DEF TypeOK, Snapshot
<1>3. Written(id) = [snapshots EXCEPT ![id] = s]
  BY DEF Written
<1>4. Kept(s)
  BY <1>1 DEF SessionInv, Kept
<1> HIDE DEF s
<1> QED BY <1>1, <1>2, <1>3, <1>4 DEF TypeOK

\* A close and a restart of the daemon only touch which sessions are open.
LEMMA CloseKeepsIInv ==
  ASSUME IInv, NEW now \in SUBSET open, open' = now,
         UNCHANGED <<used, history, parent, branch, held, rewritten, limits, calls>>,
         \/ UNCHANGED snapshots
         \/ \E id \in used : snapshots' = Written(id)
  PROVE  IInv'
<1>1. ASSUME NEW p, NEW b, Placed(p, b) PROVE Placed(p, b)'
  BY <1>1 DEF Placed
<1>a. ASSUME NEW h, NEW had, Allowed(h, had) PROVE Allowed(h, had)'
  BY <1>a DEF Allowed
<1>2. /\ snapshots' \in [Sessions -> Snapshot \cup {NoParent}]
      /\ \A j \in Sessions : snapshots'[j] /= NoParent => Kept(snapshots'[j])
  <2>1. CASE UNCHANGED snapshots
    BY <2>1 DEF IInv, TypeOK, SnapshotInv
  <2>2. CASE \E id \in used : snapshots' = Written(id)
    <3>1. PICK id \in used : snapshots' = Written(id)
      BY <2>2
    <3> QED BY <3>1, WrittenKept DEF IInv, SnapshotInv
  <2> QED BY <2>1, <2>2
<1>3. TypeOK'
  BY <1>2 DEF IInv, TypeOK
<1>4. ASSUME NEW j \in Sessions PROVE SessionInv(j)'
  BY DEF IInv, SessionInv, Placed, Based, Allowed
<1>5. ASSUME NEW j \in Sessions PROVE SnapshotInv(j)'
  <2>1. PICK s : s = snapshots'[j]
    OBVIOUS
  <2>2. s /= NoParent => Kept(s)'
    BY <1>1, <1>a, <1>2, <2>1 DEF Kept, Based
  <2> QED BY <2>1, <2>2 DEF SnapshotInv, Kept, Placed, Allowed
<1>6. Acyclic'
  BY DEF IInv, Acyclic, Older
<1> QED BY <1>3, <1>4, <1>5, <1>6 DEF IInv

\* A tool call that keeps the limits and checkpoint 0 keeps the invariant: a branch
\* point in its history stays where it is, or the call has rewritten the session.
LEMMA EditKeepsIInv ==
  ASSUME IInv, NEW id \in Sessions, NEW h, Edit(id, h), Sound(h),
         At(h, 0).files = At(history[id], 0).files, Allowed(h, held[id]),
         snapshots' = snapshots \/ snapshots' = Written(id)
  PROVE  IInv'
<1>1. /\ TypeOK /\ id \in used /\ SessionInv(id)
      /\ history' = [history EXCEPT ![id] = h] /\ calls' = calls + 1
      /\ rewritten' = rewritten \cup (IF KeptIn(history[id], h) THEN {} ELSE {id})
      /\ UNCHANGED <<open, used, parent, branch, held, limits>>
  BY DEF IInv, TypeOK, Edit
<1>2. ASSUME NEW p, NEW b, Placed(p, b) PROVE Placed(p, b)'
  <2> SUFFICES ASSUME p /= NoParent, p.session \notin rewritten'
               PROVE  /\ p.checkpoint \in Ids(history'[p.session])
                      /\ b.steps \subseteq At(history'[p.session], p.checkpoint).steps
    BY <1>1, <1>2 DEF Placed
  <2>1. /\ p.session \in used /\ p.session \in Sessions
        /\ p.session \notin rewritten
        /\ p.checkpoint \in Ids(history[p.session])
        /\ b.steps \subseteq At(history[p.session], p.checkpoint).steps
    BY <1>1, <1>2 DEF Placed, TypeOK
  <2>2. CASE p.session = id
    <3>1. KeptIn(history[id], h) /\ history'[p.session] = h
      BY <1>1, <2>1, <2>2 DEF TypeOK
    <3> QED BY <2>1, <2>2, <3>1 DEF KeptIn
  <2>3. CASE p.session /= id
    <3>1. history'[p.session] = history[p.session]
      BY <1>1, <2>1, <2>3 DEF TypeOK
    <3> QED BY <2>1, <3>1
  <2> QED BY <2>2, <2>3
<1>a. ASSUME NEW h0, NEW had, Allowed(h0, had) PROVE Allowed(h0, had)'
  BY <1>1, <1>a DEF Allowed
<1>3. /\ snapshots' \in [Sessions -> Snapshot \cup {NoParent}]
      /\ \A j \in Sessions : snapshots'[j] /= NoParent => Kept(snapshots'[j])
  <2>1. CASE snapshots' = snapshots
    BY <2>1 DEF IInv, TypeOK, SnapshotInv
  <2>2. CASE snapshots' = Written(id)
    BY <1>1, <2>2, WrittenKept DEF IInv, SnapshotInv
  <2> QED BY <2>1, <2>2
<1>4. TypeOK'
  <2>1. h \in History /\ h.head < Count(h)
    BY DEF Sound, WellFormed
  <2>2. /\ history' \in [Sessions -> History]
        /\ \A j \in Sessions : history'[j].head < Count(history'[j])
    BY <1>1, <2>1 DEF TypeOK
  <2>3. rewritten' \in SUBSET used /\ calls' \in Nat
    BY <1>1 DEF TypeOK
  <2> QED BY <1>1, <1>3, <2>2, <2>3 DEF TypeOK
<1>5. ASSUME NEW j \in Sessions PROVE SessionInv(j)'
  <2>1. SessionInv(j)
    BY DEF IInv
  <2>2. Sound(history'[j]) /\ (j \in used => Based(history'[j], branch[j]))
    <3>1. CASE j = id
      BY <1>1, <2>1, <3>1 DEF SessionInv, TypeOK, Based
    <3>2. CASE j /= id
      BY <1>1, <2>1, <3>2 DEF SessionInv, TypeOK
    <3> QED BY <3>1, <3>2
  <2>3. PICK p, b : p = parent[j] /\ b = branch[j]
    OBVIOUS
  <2>4. j \in used => Placed(p, b)'
    BY <2>1, <2>3, <1>2 DEF SessionInv
  <2>5. j \in used => (Allowed(history[j], held[j]))'
    <3>1. PICK new, had : new = history'[j] /\ had = held[j]
      OBVIOUS
    <3>2. j \in used => Allowed(new, had)
      <4>1. CASE j = id
        BY <1>1, <3>1, <4>1 DEF TypeOK
      <4>2. CASE j /= id
        BY <1>1, <2>1, <3>1, <4>2 DEF TypeOK, SessionInv
      <4> QED BY <4>1, <4>2
    <3>3. j \in used => Allowed(new, had)'
      BY <3>2, <1>a
    <3> QED BY <1>1, <3>1, <3>3 DEF Allowed
  <2> QED BY <1>1, <2>2, <2>3, <2>4, <2>5 DEF SessionInv, Placed, Based
<1>6. ASSUME NEW j \in Sessions PROVE SnapshotInv(j)'
  <2>1. PICK s : s = snapshots'[j]
    OBVIOUS
  <2>2. s /= NoParent => Kept(s)'
    BY <1>2, <1>a, <1>3, <2>1 DEF Kept, Based
  <2> QED BY <2>1, <2>2 DEF SnapshotInv, Kept, Placed, Allowed
<1>7. Acyclic'
  BY <1>1 DEF IInv, Acyclic, Older
<1> QED BY <1>4, <1>5, <1>6, <1>7 DEF IInv

\* When the config is edited, what a session or a snapshot file has is what it is
\* allowed.
LEMMA EditConfigKeepsIInv == IInv /\ EditConfig => IInv'
<1> SUFFICES ASSUME IInv, EditConfig PROVE IInv'
  OBVIOUS
<1>1. /\ TypeOK /\ limits' \in Configs /\ calls' = calls + 1
      /\ held' = [id \in Sessions |-> Has(history[id])]
      /\ UNCHANGED <<open, used, history, parent, branch, rewritten>>
  BY DEF IInv, EditConfig
<1>2. \A id \in Sessions : WellFormed(history[id])
  BY DEF IInv, SessionInv, Sound
<1>3. ASSUME NEW p, NEW b, Placed(p, b) PROVE Placed(p, b)'
  BY <1>1, <1>3 DEF Placed
<1>4. ASSUME NEW id \in Sessions
      PROVE  IF snapshots[id] = NoParent THEN snapshots'[id] = NoParent
             ELSE /\ snapshots'[id] = [history |-> snapshots[id].history,
                                       parent |-> snapshots[id].parent,
                                       branch |-> snapshots[id].branch,
                                       held |-> Has(snapshots[id].history)]
                  /\ Kept(snapshots[id]) /\ snapshots[id] \in Snapshot
                  /\ WellFormed(snapshots[id].history)
  <2>1. snapshots'[id] = IF snapshots[id] = NoParent THEN NoParent
                         ELSE [snapshots[id] EXCEPT !.held = Has(snapshots[id].history)]
    BY DEF EditConfig
  <2>2. snapshots[id] /= NoParent => snapshots[id] \in Snapshot /\ Kept(snapshots[id])
    BY <1>1 DEF IInv, SnapshotInv, TypeOK
  <2> QED BY <2>1, <2>2 DEF Snapshot, Kept, Sound
<1>5. TypeOK'
  <2>1. held' \in [Sessions -> Held]
    BY <1>1, <1>2, HasAllowed
  <2>2. \A id \in Sessions : snapshots'[id] \in Snapshot \cup {NoParent}
    <3> TAKE id \in Sessions
    <3>1. CASE snapshots[id] = NoParent
      BY <1>4, <3>1
    <3>2. CASE snapshots[id] /= NoParent
      <4>1. Has(snapshots[id].history) \in Held
        BY <1>4, <3>2, HasAllowed
      <4>2. PICK s : s = snapshots[id]
        OBVIOUS
      <4>3. s \in Snapshot /\ Has(s.history) \in Held
        BY <1>4, <3>2, <4>1, <4>2
      <4>4. snapshots'[id] = [history |-> s.history, parent |-> s.parent,
                              branch |-> s.branch, held |-> Has(s.history)]
        BY <1>4, <3>2, <4>2
      <4> QED BY <4>3, <4>4 DEF Snapshot
    <3> QED BY <3>1, <3>2
  <2>3. snapshots' \in [Sessions -> Snapshot \cup {NoParent}]
    BY <2>2 DEF EditConfig
  <2> QED BY <1>1, <2>1, <2>3 DEF TypeOK
<1>6. ASSUME NEW id \in Sessions PROVE SessionInv(id)'
  <2>1. PICK p, b, h : p = parent[id] /\ b = branch[id] /\ h = history[id]
    OBVIOUS
  <2>2. id \in used => Placed(p, b)'
    BY <2>1, <1>3 DEF IInv, SessionInv
  <2>3. Sound(h) /\ (id \in used => Based(h, b)) /\ Allowed(h, Has(h))'
    BY <1>2, <2>1, HasAllowed DEF IInv, SessionInv
  <2>4. history'[id] = h /\ parent'[id] = p /\ branch'[id] = b /\ held'[id] = Has(h)
    BY <1>1, <2>1
  <2>5. (Allowed(history[id], held[id]))'
    BY <2>3, <2>4 DEF Allowed
  <2> QED BY <1>1, <2>2, <2>3, <2>4, <2>5 DEF SessionInv, Placed
<1>7. ASSUME NEW id \in Sessions PROVE SnapshotInv(id)'
  <2>1. CASE snapshots[id] = NoParent
    BY <1>4, <2>1 DEF SnapshotInv
  <2>2. CASE snapshots[id] /= NoParent
    <3>1. PICK s : s = snapshots[id]
      OBVIOUS
    <3>2. PICK new : new = [history |-> s.history, parent |-> s.parent,
                            branch |-> s.branch, held |-> Has(s.history)]
      OBVIOUS
    <3>3. snapshots'[id] = new /\ Kept(s) /\ WellFormed(s.history)
      BY <1>4, <2>2, <3>1, <3>2
    <3>4. Placed(s.parent, s.branch)' /\ Allowed(s.history, Has(s.history))'
      BY <1>3, <3>3, HasAllowed DEF Kept
    <3>5. Kept(new)'
      BY <3>2, <3>3, <3>4 DEF Kept
    <3> QED BY <3>3, <3>5 DEF SnapshotInv, Kept, Placed, Allowed
  <2> QED BY <2>1, <2>2
<1>8. Acyclic'
  BY <1>1 DEF IInv, Acyclic, Older
<1> QED BY <1>5, <1>6, <1>7, <1>8 DEF IInv

\* A checkpoint goes behind the head when the session is below the limit and its files
\* are allowed.
LEMMA PushKeepsIInv ==
  ASSUME IInv, NEW id \in Sessions, NEW files \in FileMap, Fits(files),
         files \in limits.fits \/ Left(files, held[id].files),
         ~LimitReached(history[id], limits.checkpoints),
         Edit(id, Push(history[id], files, calls)), UNCHANGED snapshots
  PROVE  IInv'
<1>1. /\ TypeOK /\ Sound(history[id]) /\ WellFormed(history[id]) /\ calls \in Nat
      /\ held[id] \in Held /\ id \in used /\ Allowed(history[id], held[id])
  BY DEF IInv, SessionInv, TypeOK, Edit, Sound
<1>2. ~LimitReached(history[id], MaxCheckpoints)
  <2>1. limits.checkpoints \in 0 .. MaxCheckpoints /\ Count(history[id]) \in Nat
    BY <1>1, Shape, ConfigsAssumption DEF TypeOK
  <2> QED BY <2>1, LimitAssumption DEF LimitReached
<1>3. Sound(Push(history[id], files, calls))
  BY <1>1, <1>2, PushSound
<1>4. At(Push(history[id], files, calls), 0).files = At(history[id], 0).files
  BY <1>1, FirstKept
<1>5. Allowed(Push(history[id], files, calls), held[id])
  BY <1>1, PushAllowed
<1> QED BY <1>3, <1>4, <1>5, EditKeepsIInv

\* The calls that make a checkpoint check both limits.
LEMMA CommitKeepsIInv ==
  ASSUME IInv, NEW id \in Sessions, NEW files \in FileMap, Commit(id, files)
  PROVE  IInv'
<1>1. files \in limits.fits /\ Fits(files)
  BY ConfigsAssumption DEF Commit, IInv, TypeOK
<1> QED BY <1>1, PushKeepsIInv DEF Commit

\* A call that deletes files checks how many checkpoints there are only: what it
\* leaves is part of what was allowed.
LEMMA DeleteKeepsIInv ==
  ASSUME IInv, NEW id \in Sessions, NEW gone \in SUBSET Keys, DeleteFiles(id, gone)
  PROVE  IInv'
<1> DEFINE files == Current(history[id]).files
<1>1. /\ TypeOK /\ Sound(history[id]) /\ held[id] \in Held
      /\ id \in used /\ Allowed(history[id], held[id])
  BY DEF IInv, SessionInv, TypeOK, DeleteFiles, Edit
<1>2. files \in FileMap /\ history[id].head \in Ids(history[id])
  BY <1>1, Shape DEF Sound
<1>3. Fits(files) /\ (files \in limits.fits \/ Left(files, held[id].files))
  BY <1>1, <1>2 DEF Sound, Limited, Allowed, Current
<1> HIDE DEF files
<1>4. Without(files, gone) \in FileMap /\ Fits(Without(files, gone))
  BY <1>2, <1>3, FileMapFacts, FitsAssumption
<1>5. Without(files, gone) \in limits.fits \/ Left(Without(files, gone), held[id].files)
  BY <1>1, <1>3, WithoutAllowed
<1> QED BY <1>4, <1>5, PushKeepsIInv DEF DeleteFiles, files

\* A step recorded on what another edit left, which has no more than it found.
LEMMA NotedKeepsIInv ==
  ASSUME IInv, NEW id \in Sessions, NEW h, Sound(h), Fewer(h, history[id]),
         At(h, 0).files = At(history[id], 0).files, NEW i \in Ids(h),
         Edit(id, RecordStep(h, i, calls)),
         snapshots' = snapshots \/ snapshots' = Written(id)
  PROVE  IInv'
<1> DEFINE r == RecordStep(h, i, calls)
<1>1. /\ TypeOK /\ calls \in Nat /\ held[id] \in Held /\ WellFormed(h)
      /\ WellFormed(history[id]) /\ Allowed(history[id], held[id])
  BY DEF IInv, TypeOK, SessionInv, Edit, Sound
<1>2. Sound(r)
  BY <1>1, RecordStepSound
<1>3. At(r, 0).files = At(h, 0).files
  BY <1>1, FirstKept
<1>4. Fewer(r, h)
  <2> DEFINE cp == [At(h, i) EXCEPT !.steps = At(h, i).steps \cup {calls}]
  <2>1. /\ Count(r) = Count(h) /\ Count(h) \in Nat
        /\ \A j \in Ids(h) : At(r, j) = IF j = i THEN cp ELSE At(h, j)
    BY <1>1, RecordStepFacts, Shape
  <2>2. cp.files = At(h, i).files
    BY <1>1, Shape DEF Checkpoint
  <2>3. Ids(r) = Ids(h)
    BY <2>1 DEF Ids
  <2> HIDE DEF r, cp
  <2> QED BY <2>1, <2>2, <2>3 DEF Fewer
<1>5. Allowed(h, held[id])
  BY <1>1, FewerAllowed
<1> HIDE DEF r
<1>6. Allowed(r, held[id])
  BY <1>1, <1>2, <1>4, <1>5, FewerAllowed DEF Sound
<1> QED BY <1>2, <1>3, <1>6, EditKeepsIInv DEF r

\* Every step of the daemon keeps the invariant.
LEMMA NextIInv == IInv /\ [Next]_vars => IInv'
<1> SUFFICES ASSUME IInv, [Next]_vars PROVE IInv'
  OBVIOUS
<1>1. /\ TypeOK /\ open \subseteq used
      /\ \A id \in Sessions : /\ Sound(history[id]) /\ WellFormed(history[id])
                              /\ history[id].head \in Ids(history[id])
                              /\ Current(history[id]).files \in FileMap
                              /\ \A i \in Ids(history[id]) : At(history[id], i) \in Checkpoint
  BY Shape DEF IInv, TypeOK, SessionInv, Sound
<1>2. NoFiles \in FileMap
  BY DEF NoFiles, FileMap
<1>3. ASSUME NEW id \in Sessions, Create(id) PROVE IInv'
  <2> DEFINE new == [history |-> NewHistory(NoFiles), parent |-> NoParent,
                     branch |-> NoParent, held |-> Has(NewHistory(NoFiles))]
  <2>1. Sound(NewHistory(NoFiles)) /\ NewHistory(NoFiles) \in History
    BY <1>2, NewHistorySound, FitsAssumption DEF Sound, WellFormed
  <2>2. Has(NewHistory(NoFiles)) \in Held
        /\ Allowed(NewHistory(NoFiles), Has(NewHistory(NoFiles)))
    BY <2>1, HasAllowed DEF Sound
  <2>3. new \in Snapshot /\ Kept(new)
    BY <2>1, <2>2 DEF Snapshot, Kept, Based, Placed
  <2> QED BY <1>3, <2>3, OpenKeepsIInv DEF Create
<1>4. ASSUME NEW id \in Sessions, NEW source \in Sessions, NEW i \in Ids(history[source]),
             ForkSession(source, i, id)
      PROVE  IInv'
  <2> DEFINE cp == At(history[source], i)
             new == [history |-> Fork(history[source], i),
                     parent |-> [session |-> source, checkpoint |-> i], branch |-> cp,
                     held |-> [held[source] EXCEPT !.count = 1]]
  <2>1. /\ source \in used /\ cp \in Checkpoint /\ cp.files \in FileMap /\ Fits(cp.files)
        /\ i \in Nat
    BY <1>1, <1>4 DEF ForkSession, Sound, Limited, Checkpoint, Ids
  <2>2. /\ Sound(NewHistory(cp.files)) /\ NewHistory(cp.files) \in History
        /\ At(NewHistory(cp.files), 0).files = cp.files /\ Count(NewHistory(cp.files)) = 1
    BY <2>1, NewHistorySound, NewHistoryFacts DEF Sound, WellFormed, EmptyCheckpoint
  <2>3. new.history = NewHistory(cp.files) /\ new.branch = cp /\ new.parent \in Ref
        /\ new.parent.session = source /\ new.parent.checkpoint = i
    BY <2>1 DEF Fork, Ref
  <2>a. new.held \in Held /\ new.held.count = 1 /\ new.held.files = held[source].files
    BY <1>1 DEF Held, TypeOK
  <2>4. new \in Snapshot
    BY <2>1, <2>2, <2>3, <2>a DEF Snapshot
  <2>b. Allowed(NewHistory(cp.files), new.held)
    <3>1. cp.files \in limits.fits \/ Left(cp.files, held[source].files)
      BY <1>1, <1>4, <2>1 DEF IInv, SessionInv, Allowed
    <3>2. Ids(NewHistory(cp.files)) = {0}
      BY <2>2 DEF Ids
    <3> HIDE DEF new, cp
    <3> QED BY <2>2, <2>a, <3>1, <3>2 DEF Allowed
  <2>5. Kept(new)
    <3>1. Placed(new.parent, new.branch)
      BY <2>1, <2>3 DEF Placed
    <3> HIDE DEF new
    <3> QED BY <2>2, <2>3, <2>b, <3>1 DEF Kept, Based
  <2>6. Open(id, new)
    BY <1>4 DEF ForkSession
  <2> HIDE DEF new
  <2> QED BY <2>4, <2>5, <2>6, OpenKeepsIInv
<1>5. ASSUME NEW id \in Sessions, NEW old \in Sessions, Restore(old, id) PROVE IInv'
  <2>1. snapshots[old] \in Snapshot /\ Kept(snapshots[old]) /\ Open(id, snapshots[old])
    BY <1>1, <1>5 DEF IInv, SnapshotInv, TypeOK, Restore
  <2> QED BY <2>1, OpenKeepsIInv
<1>6. ASSUME NEW id \in Sessions, Close(id) PROVE IInv'
  <2>1. id \in used /\ open' = open \ {id}
    BY <1>1, <1>6 DEF Close
  <2>2. open \ {id} \in SUBSET open
    OBVIOUS
  <2> QED BY <1>6, <2>1, <2>2, CloseKeepsIInv DEF Close, session
<1>7. ASSUME Restart PROVE IInv'
  <2>1. {} \in SUBSET open
    OBVIOUS
  <2> QED BY <1>7, <2>1, CloseKeepsIInv DEF Restart, session
<1>8. ASSUME NEW id \in Sessions, TakeSnapshot(id) PROVE IInv'
  <2>1. Fewer(history[id], history[id])
    BY <1>1, Shape DEF Fewer
  <2> QED BY <1>1, <1>8, <2>1, NotedKeepsIInv DEF TakeSnapshot
<1>9. ASSUME NEW id \in Sessions, NEW files \in FileMap, Commit(id, files) PROVE IInv'
  BY <1>9, CommitKeepsIInv
<1>10. ASSUME NEW id \in Sessions, NEW source \in Sessions, NEW i \in Ids(history[source]),
              NEW keys \in SUBSET Keys, Merge(id, source, i, keys)
       PROVE  IInv'
  <2> DEFINE from == At(history[source], i).files
  <2>1. from \in FileMap
    BY <1>1 DEF Checkpoint
  <2>2. Commit(id, Overlay(Current(history[id]).files, Only(from, keys)))
    BY <1>10 DEF Merge
  <2> HIDE DEF from
  <2>3. Only(from, keys) \in FileMap
    BY <2>1, FileMapFacts
  <2>4. Overlay(Current(history[id]).files, Only(from, keys)) \in FileMap
    BY <1>1, <2>3, FileMapFacts
  <2> QED BY <2>2, <2>4, CommitKeepsIInv
<1>11. ASSUME NEW id \in Sessions, NEW to \in Ids(history[id]), RollbackTo(id, to)
       PROVE  IInv'
  <2> DEFINE h == Rollback(history[id], to)
  <2>1. Sound(h) /\ to \in Ids(h) /\ At(h, 0).files = At(history[id], 0).files
    BY <1>1, RollbackSound, FirstKept
  <2>2. Fewer(h, history[id])
    <3>1. /\ Count(h) = Count(history[id]) /\ Count(h) \in Nat /\ Ids(h) = Ids(history[id])
          /\ \A j \in Ids(h) : At(h, j) = At(history[id], j)
      BY <1>1, <2>1, RollbackFacts, RollbackSound, Shape DEF Sound
    <3> HIDE DEF h
    <3> QED BY <3>1 DEF Fewer
  <2> QED BY <1>11, <2>1, <2>2, NotedKeepsIInv DEF RollbackTo
<1>12. ASSUME NEW id \in Sessions, NEW from \in Ids(history[id]), NEW to \in Ids(history[id]),
              SquashRange(id, from, to)
       PROVE  IInv'
  <2> DEFINE h == Squash(history[id], from, to, NoLabel)
  <2>1. from \in Nat /\ to \in Nat /\ CanSquash(history[id], from, to)
    BY <1>12 DEF Ids, SquashRange
  <2>2. Sound(h) /\ from \in Ids(h) /\ At(h, 0).files = At(history[id], 0).files
    BY <1>1, <2>1, SquashSound, FirstKept
  <2>3. Fewer(h, history[id])
    <3>1. PICK lo, hi : Contracts(history[id], h, lo, hi)
      BY <1>1, <2>1, SquashContracts
    <3> HIDE DEF h
    <3> QED BY <3>1 DEF Contracts, Fewer
  <2> QED BY <1>12, <2>2, <2>3, NotedKeepsIInv DEF SquashRange
<1>13. ASSUME NEW id \in Sessions, NEW from \in Ids(history[id]), NEW to \in Ids(history[id]),
              DropRange(id, from, to)
       PROVE  IInv'
  <2> DEFINE h == Drop(history[id], from, to)
  <2>1. from \in Nat /\ to \in Nat /\ CanDrop(history[id], from, to)
    BY <1>13 DEF Ids, DropRange
  <2>2. Sound(h) /\ h.head \in Ids(h) /\ At(h, 0).files = At(history[id], 0).files
    <3>1. Sound(h) /\ At(h, 0).files = At(history[id], 0).files
      BY <1>1, <2>1, DropSound, FirstKept
    <3> QED BY <3>1, Shape DEF Sound
  <2>3. Fewer(h, history[id])
    <3>1. PICK lo, hi : Contracts(history[id], h, lo, hi)
      BY <1>1, <2>1, DropContracts
    <3> HIDE DEF h
    <3> QED BY <3>1 DEF Contracts, Fewer
  <2> QED BY <1>13, <2>2, <2>3, NotedKeepsIInv DEF DropRange
<1>14. ASSUME NEW id \in Sessions, NEW gone \in SUBSET Keys, DeleteFiles(id, gone) PROVE IInv'
  BY <1>14, DeleteKeepsIInv
<1>15. ASSUME EditConfig PROVE IInv'
  BY <1>15, EditConfigKeepsIInv
<1>16. ASSUME UNCHANGED vars PROVE IInv'
  BY <1>16, CloseKeepsIInv DEF vars, session
<1> QED
  BY <1>3, <1>4, <1>5, <1>6, <1>7, <1>8, <1>9, <1>10, <1>11, <1>12, <1>13, <1>14, <1>15, <1>16
     DEF Next

\* Every session, open or not, and every snapshot is sound and well placed.
THEOREM Invariance == Spec => []IInv
  BY InitIInv, NextIInv, PTL DEF Spec

\* What is beyond max_workspace_mb or max_checkpoints was there when the limits were set:
\* in the session, in its source or in its snapshot file.  A fork and a restore, which
\* check neither, bring over no more than that, whenever the config was edited.
THEOREM LimitsCorrect == Spec => []LimitsEverywhere
<1>1. IInv => LimitsEverywhere
  BY DEF IInv, LimitsEverywhere, SessionInv, TypeOK
<1> QED BY <1>1, Invariance, PTL

\* A fork rolled back to 0 has the files it branched off with, whatever happened to
\* it or its source, and also when it went through a snapshot and a restore.
THEOREM BaseCorrect == Spec => []BaseKept
<1>1. IInv => BaseKept
  BY DEF IInv, BaseKept, SessionInv, Based, TypeOK
<1> QED BY <1>1, Invariance, PTL

-----------------------------------------------------------------------------
(***************************************************************************)
(* The forest.  Forest and Unbroken are recursive functions over parents.  *)
(* Each has a value that satisfies its equation, whatever the parents are: *)
(* the sessions with a set of ancestors closed under the equation.  That   *)
(* parents are acyclic is needed only to compare the two.                  *)
(***************************************************************************)

\* f says of every session of locked whether it is shown: good, if it is nested at
\* all, and its parent shown.
Follows(f, locked, good) ==
  f = [s \in locked |-> Nested(s, locked) => s \in good /\ f[parent[s].session]]

\* There is such an f, so a recursive definition of this form defines one.
LEMMA FollowsSome ==
  ASSUME NEW locked, NEW good
  PROVE  \E f : Follows(f, locked, good)
<1> DEFINE Closed(A) == \A a \in A : Nested(a, locked) => a \in good /\ parent[a].session \in A
           shown == {s \in locked : \E A \in SUBSET locked : s \in A /\ Closed(A)}
           f == [s \in locked |-> s \in shown]
<1>1. ASSUME NEW s \in locked
      PROVE  s \in shown <=> (Nested(s, locked) => s \in good /\ f[parent[s].session])
  <2>1. CASE ~Nested(s, locked)
    <3>1. {s} \in SUBSET locked /\ s \in {s} /\ Closed({s})
      BY <2>1
    <3> QED BY <2>1, <3>1
  <2>2. CASE Nested(s, locked)
    <3>1. parent[s].session \in locked
      BY <2>2 DEF Nested
    <3>2. f[parent[s].session] <=> parent[s].session \in shown
      BY <3>1
    <3>3. ASSUME s \in shown PROVE s \in good /\ parent[s].session \in shown
      <4>1. PICK A \in SUBSET locked : s \in A /\ Closed(A)
        BY <3>3
      <4> QED BY <2>2, <3>1, <4>1
    <3>4. ASSUME s \in good, parent[s].session \in shown PROVE s \in shown
      <4>1. PICK A \in SUBSET locked : parent[s].session \in A /\ Closed(A)
        BY <3>4
      <4>2. A \cup {s} \in SUBSET locked /\ s \in A \cup {s} /\ Closed(A \cup {s})
        BY <3>4, <4>1
      <4> QED BY <4>2
    <3> HIDE DEF shown, f
    <3> QED BY <2>2, <3>2, <3>3, <3>4
  <2> QED BY <2>1, <2>2
<1> HIDE DEF shown
<1>2. f = [s \in locked |-> Nested(s, locked) => s \in good /\ f[parent[s].session]]
  BY <1>1
<1> QED BY <1>2 DEF Follows

\* The sessions a forest over locked shows are those such an f shows.
LEMMA ForestFacts ==
  ASSUME NEW locked
  PROVE  \E f : /\ Follows(f, locked, {s \in locked : BranchPoints(s) /= {}})
                /\ Forest(locked) = {s \in locked : f[s]}
<1> DEFINE good == {s \in locked : BranchPoints(s) /= {}}
           f == CHOOSE g : g = [s \in locked |->
                  Nested(s, locked) => BranchPoints(s) /= {} /\ g[parent[s].session]]
<1>a. ASSUME NEW g
      PROVE  Follows(g, locked, good) <=>
               g = [s \in locked |->
                      Nested(s, locked) => BranchPoints(s) /= {} /\ g[parent[s].session]]
  <2>1. [s \in locked |-> Nested(s, locked) => s \in good /\ g[parent[s].session]] =
        [s \in locked |-> Nested(s, locked) => BranchPoints(s) /= {} /\ g[parent[s].session]]
    OBVIOUS
  <2> QED BY <2>1 DEF Follows
<1>1. \E g : g = [s \in locked |->
                    Nested(s, locked) => BranchPoints(s) /= {} /\ g[parent[s].session]]
  <2>1. PICK g : Follows(g, locked, good)
    BY FollowsSome
  <2> QED BY <2>1, <1>a
<1>2. f = [s \in locked |->
             Nested(s, locked) => BranchPoints(s) /= {} /\ f[parent[s].session]]
  BY <1>1
<1>3. Forest(locked) = {s \in locked : f[s]}
  BY DEF Forest
<1> HIDE DEF f
<1>4. Follows(f, locked, good)
  BY <1>2, <1>a
<1> QED BY <1>3, <1>4

\* The same of the sessions a forest has to show.
LEMMA UnbrokenFacts ==
  ASSUME NEW locked
  PROVE  \E f : /\ Follows(f, locked, {s \in locked : parent[s].session \notin rewritten})
                /\ Unbroken(locked) = {s \in locked : f[s]}
<1> DEFINE good == {s \in locked : parent[s].session \notin rewritten}
           f == CHOOSE g : g = [s \in locked |->
                  Nested(s, locked) => parent[s].session \notin rewritten /\ g[parent[s].session]]
<1>a. ASSUME NEW g
      PROVE  Follows(g, locked, good) <=>
               g = [s \in locked |->
                      Nested(s, locked) => parent[s].session \notin rewritten /\ g[parent[s].session]]
  <2>1. [s \in locked |-> Nested(s, locked) => s \in good /\ g[parent[s].session]] =
        [s \in locked |-> Nested(s, locked) => parent[s].session \notin rewritten /\ g[parent[s].session]]
    OBVIOUS
  <2> QED BY <2>1 DEF Follows
<1>1. \E g : g = [s \in locked |->
                    Nested(s, locked) => parent[s].session \notin rewritten /\ g[parent[s].session]]
  <2>1. PICK g : Follows(g, locked, good)
    BY FollowsSome
  <2> QED BY <2>1, <1>a
<1>2. f = [s \in locked |->
             Nested(s, locked) => parent[s].session \notin rewritten /\ f[parent[s].session]]
  BY <1>1
<1>3. Unbroken(locked) = {s \in locked : f[s]}
  BY DEF Unbroken
<1> HIDE DEF f
<1>4. Follows(f, locked, good)
  BY <1>2, <1>a
<1> QED BY <1>3, <1>4

\* The branch point of a fork is the one checkpoint of its parent with the id it
\* remembers, and it has kept the steps, unless the parent was rewritten.
LEMMA BranchPointKept ==
  ASSUME IInv, NEW s \in open, parent[s] /= NoParent, parent[s].session \notin rewritten
  PROVE  BranchPoints(s) = {parent[s].checkpoint} /\ UnderBranchPoint(s)
<1>1. /\ TypeOK /\ s \in used /\ s \in Sessions /\ SessionInv(s)
      /\ parent[s].session \in Sessions /\ parent[s].session \in used
  BY DEF IInv, TypeOK
<1>2. PICK h : h = history[parent[s].session]
  OBVIOUS
<1>3. Sound(h)
  BY <1>1, <1>2 DEF IInv, SessionInv
<1>4. /\ parent[s].checkpoint \in Ids(h)
      /\ branch[s].steps \subseteq At(h, parent[s].checkpoint).steps
  BY <1>1, <1>2 DEF SessionInv, Placed
<1>5. BranchPoints(s) = {i \in Ids(h) : At(h, i).id = parent[s].checkpoint}
  BY <1>2 DEF BranchPoints
<1>6. BranchPoints(s) = {parent[s].checkpoint}
  BY <1>3, <1>4, <1>5 DEF Sound, Indexed
<1> QED BY <1>2, <1>4, <1>6 DEF UnderBranchPoint

\* Of the sessions a forest has to show but does not, the oldest has a parent that is
\* shown and a branch point in it: there is none.
LEMMA ForestComplete ==
  ASSUME IInv, NEW locked \in SUBSET open
  PROVE  Unbroken(locked) \subseteq Forest(locked)
<1> DEFINE placed == {s \in locked : BranchPoints(s) /= {}}
           steady == {s \in locked : parent[s].session \notin rewritten}
<1>1. PICK f : Follows(f, locked, placed) /\ Forest(locked) = {s \in locked : f[s]}
  BY ForestFacts
<1>2. PICK g : Follows(g, locked, steady) /\ Unbroken(locked) = {s \in locked : g[s]}
  BY UnbrokenFacts
<1>3. PICK age \in [Sessions -> Nat] : Older(age)
  BY DEF IInv, Acyclic
<1>4. locked \subseteq used /\ locked \subseteq Sessions /\ locked \subseteq open
  BY DEF IInv, TypeOK
<1> DEFINE missing == {s \in locked : g[s] /\ ~f[s]}
           ages == {age[s] : s \in missing}
<1>5. SUFFICES ASSUME missing /= {} PROVE FALSE
  BY <1>1, <1>2
<1>6. ages \in SUBSET Nat /\ ages /= {}
  BY <1>3, <1>4, <1>5
<1>7. PICK s \in missing : \A other \in missing : age[s] <= age[other]
  <2> HIDE DEF missing
  <2>1. PICK m \in ages : \A n \in ages : m <= n
    <3> HIDE DEF ages
    <3> QED BY <1>6, LeastNatural
  <2> QED BY <2>1
<1>8. s \in locked /\ g[s] /\ ~f[s]
  BY <1>7
<1>9. Nested(s, locked) /\ ~(s \in placed /\ f[parent[s].session])
  BY <1>1, <1>8 DEF Follows
<1>10. s \in steady /\ g[parent[s].session]
  BY <1>2, <1>8, <1>9 DEF Follows
<1>11. parent[s] /= NoParent /\ parent[s].session \in locked
  BY <1>9 DEF Nested
<1>12. f[parent[s].session]
  <2>1. age[parent[s].session] < age[s]
    BY <1>3, <1>4, <1>8, <1>11 DEF Older
  <2>2. age[s] \in Nat /\ age[parent[s].session] \in Nat
    BY <1>3, <1>4, <1>8, <1>11
  <2>3. parent[s].session \notin missing
    BY <1>7, <2>1, <2>2
  <2> QED BY <1>10, <1>11, <2>3
<1>13. s \in placed
  BY <1>4, <1>8, <1>10, <1>11, BranchPointKept
<1> QED BY <1>9, <1>12, <1>13

\* The forest leaves out no session that has to be in it, however deep it is nested
\* and whichever sessions are busy, and draws a fork under its own branch point.
THEOREM TreeCorrect == Spec => []TreeComplete
<1>1. ASSUME IInv PROVE TreeComplete
  <2>1. ASSUME NEW tree \in Trees PROVE Unbroken(tree.locked) \subseteq tree.drawn
    <3>1. PICK locked \in SUBSET open : tree = [locked |-> locked, drawn |-> Forest(locked)]
      BY DEF Trees
    <3> QED BY <1>1, <3>1, ForestComplete
  <2>2. ASSUME NEW s \in open, Nested(s, open), parent[s].session \notin rewritten
        PROVE  UnderBranchPoint(s)
    BY <1>1, <2>2, BranchPointKept DEF Nested
  <2> QED BY <2>1, <2>2 DEF TreeComplete
<1> QED BY <1>1, Invariance, PTL
=============================================================================
