--------------------------- MODULE InternerProofs ---------------------------
(***************************************************************************)
(* Theorems about Interner: for every set of sessions, keys and contents,  *)
(* every hash function and any number of addresses.                        *)
(*                                                                         *)
(* Reads relates a history of references to one of contents, whatever the  *)
(* references are: addresses for a session, indices for a snapshot.        *)
(* Handled is what keeps copies single: the table leads from every content *)
(* that a session refers to and that does not collide to its one copy.     *)
(***************************************************************************)
EXTENDS Interner, CheckpointsProofs, FiniteSetTheorems

\* Files behind references out of `places`, read from `bytes`.
FilesRead(places, bytes, files, contents) ==
  /\ files \in [Keys -> places \cup {Absent}]
  /\ \A k \in Keys : files[k] /= Absent => bytes[files[k]] \in Contents
  /\ Read(bytes, files) = contents

\* A history of references reads as a history of contents.
Reads(places, bytes, h, m) ==
  /\ WellFormed(h) /\ WellFormed(m)
  /\ Count(h) = Count(m) /\ h.head = m.head
  /\ \A i \in Ids(h) : FilesRead(places, bytes, At(h, i).files, At(m, i).files)

\* The table leads from the contents at these places to these places.
Handled(t, bytes, places) ==
  \A a \in places : ~Collides(bytes[a]) => t[Hash[bytes[a]]] = a

\* Equal contents at these places are one copy.
Single(bytes, places) ==
  \A a, b \in places : bytes[a] = bytes[b] /\ ~Collides(bytes[a]) => a = b

Indices(blobs) == 0 .. Len(blobs) - 1
Blob(blobs) == [n \in Indices(blobs) |-> blobs[n + 1]]

SnapshotInv ==
  /\ snapshot.blobs \in Seq(Contents) /\ snapshot.merged \in BOOLEAN
  /\ Len(snapshot.blobs) <= Cardinality(Addresses)
  /\ Reads(Indices(snapshot.blobs), Blob(snapshot.blobs), snapshot.history, snapshot.meant)
  /\ ~snapshot.merged => Single(Blob(snapshot.blobs), Indices(snapshot.blobs))

IInv ==
  /\ TypeOK
  /\ \A s \in open :
       /\ Reads(Addresses, heap, history[s], meant[s])
       /\ s \notin merged => Handled(table[s], heap, References(history[s]))
  /\ SnapshotInv

-----------------------------------------------------------------------------
(***************************************************************************)
(* Files, and what their references are to.                                *)
(***************************************************************************)

\* Absent is neither bytes nor a reference, and bytes are no reference.
LEMMA NamesFacts ==
  /\ Absent \notin Contents /\ Absent \notin Addresses /\ Absent \notin Nat
  /\ Addresses \subseteq Nat /\ Contents \cap Nat = {}
  /\ Contents \subseteq Blobs /\ Addresses \subseteq Blobs
  /\ IsFiniteSet(Addresses) /\ IsFiniteSet(Keys)
  /\ Hash \in [Contents -> Hashes]
  BY InternerAssumption, AbsentAssumption

\* What files that read well are maps to.
LEMMA ReadTypes ==
  ASSUME NEW places, NEW bytes, NEW f, NEW g, FilesRead(places, bytes, f, g)
  PROVE  f \in [Keys -> places \cup {Absent}] /\ g \in [Keys -> Contents \cup {Absent}]
<1>1. /\ f \in [Keys -> places \cup {Absent}]
      /\ \A j \in Keys : f[j] /= Absent => bytes[f[j]] \in Contents
      /\ g = [j \in Keys |-> IF f[j] = Absent THEN Absent ELSE bytes[f[j]]]
  BY DEF FilesRead, Read
<1> QED BY <1>1

\* What is behind one reference.
LEMMA ReadAt ==
  ASSUME NEW places, NEW bytes, NEW f, NEW g, FilesRead(places, bytes, f, g), NEW k \in Keys
  PROVE  /\ f[k] = Absent => g[k] = Absent
         /\ f[k] /= Absent => f[k] \in places /\ g[k] = bytes[f[k]] /\ g[k] \in Contents
<1>1. /\ f \in [Keys -> places \cup {Absent}]
      /\ \A j \in Keys : f[j] /= Absent => bytes[f[j]] \in Contents
      /\ g = [j \in Keys |-> IF f[j] = Absent THEN Absent ELSE bytes[f[j]]]
  BY DEF FilesRead, Read
<1> QED BY <1>1

\* The other way round.
LEMMA ReadFrom ==
  ASSUME NEW places, NEW bytes, NEW f \in [Keys -> places \cup {Absent}],
         NEW g \in [Keys -> Contents \cup {Absent}],
         \A k \in Keys : IF f[k] = Absent THEN g[k] = Absent
                         ELSE bytes[f[k]] \in Contents /\ g[k] = bytes[f[k]]
  PROVE  FilesRead(places, bytes, f, g)
<1>1. g = [k \in Keys |-> IF f[k] = Absent THEN Absent ELSE bytes[f[k]]]
  <2>1. g = [k \in Keys |-> g[k]]
    OBVIOUS
  <2> QED BY <2>1
<1> QED BY <1>1 DEF FilesRead, Read

\* Files read the same from bytes that agree where they refer to.
LEMMA FilesMoved ==
  ASSUME NEW places, NEW bytes, NEW f, NEW g, FilesRead(places, bytes, f, g),
         NEW others, NEW new,
         \A k \in Keys : f[k] /= Absent => f[k] \in others /\ new[f[k]] = bytes[f[k]]
  PROVE  FilesRead(others, new, f, g)
<1>1. /\ f \in [Keys -> places \cup {Absent}]
      /\ \A j \in Keys : f[j] /= Absent => bytes[f[j]] \in Contents
      /\ g = [j \in Keys |-> IF f[j] = Absent THEN Absent ELSE bytes[f[j]]]
  BY DEF FilesRead, Read
<1>2. f \in [Keys -> others \cup {Absent}]
  BY <1>1
<1>3. g = [j \in Keys |-> IF f[j] = Absent THEN Absent ELSE new[f[j]]]
  BY <1>1
<1> QED BY <1>1, <1>2, <1>3 DEF FilesRead, Read

\* Files written over others, taken away or picked read as their contents do.
LEMMA FilesChanged ==
  ASSUME NEW places, NEW bytes, NEW f, NEW g, FilesRead(places, bytes, f, g),
         NEW f2, NEW g2, FilesRead(places, bytes, f2, g2), NEW ks \in SUBSET Keys
  PROVE  /\ FilesRead(places, bytes, Overlay(f, f2), Overlay(g, g2))
         /\ FilesRead(places, bytes, Without(f, ks), Without(g, ks))
         /\ FilesRead(places, bytes, Only(f, ks), Only(g, ks))
<1>1. /\ f \in [Keys -> places \cup {Absent}] /\ f2 \in [Keys -> places \cup {Absent}]
      /\ g \in [Keys -> Contents \cup {Absent}] /\ g2 \in [Keys -> Contents \cup {Absent}]
  BY ReadTypes
<1>2. \A k \in Keys : /\ IF f[k] = Absent THEN g[k] = Absent
                         ELSE bytes[f[k]] \in Contents /\ g[k] = bytes[f[k]]
                      /\ IF f2[k] = Absent THEN g2[k] = Absent
                         ELSE bytes[f2[k]] \in Contents /\ g2[k] = bytes[f2[k]]
  BY ReadAt
<1>3. FilesRead(places, bytes, Overlay(f, f2), Overlay(g, g2))
  <2>1. /\ Overlay(f, f2) \in [Keys -> places \cup {Absent}]
        /\ Overlay(g, g2) \in [Keys -> Contents \cup {Absent}]
    BY <1>1 DEF Overlay
  <2>2. \A k \in Keys : IF Overlay(f, f2)[k] = Absent THEN Overlay(g, g2)[k] = Absent
                        ELSE /\ bytes[Overlay(f, f2)[k]] \in Contents
                             /\ Overlay(g, g2)[k] = bytes[Overlay(f, f2)[k]]
    <3> SUFFICES ASSUME NEW k \in Keys
                 PROVE  IF Overlay(f, f2)[k] = Absent THEN Overlay(g, g2)[k] = Absent
                        ELSE /\ bytes[Overlay(f, f2)[k]] \in Contents
                             /\ Overlay(g, g2)[k] = bytes[Overlay(f, f2)[k]]
      OBVIOUS
    <3>1. /\ Overlay(f, f2)[k] = IF f2[k] /= Absent THEN f2[k] ELSE f[k]
          /\ Overlay(g, g2)[k] = IF g2[k] /= Absent THEN g2[k] ELSE g[k]
      BY DEF Overlay
    <3>2. f2[k] = Absent <=> g2[k] = Absent
      BY <1>2, NamesFacts
    <3> QED BY <1>2, <3>1, <3>2
  <2> QED BY <2>1, <2>2, ReadFrom
<1>4. FilesRead(places, bytes, Without(f, ks), Without(g, ks))
  <2>1. /\ Without(f, ks) \in [Keys -> places \cup {Absent}]
        /\ Without(g, ks) \in [Keys -> Contents \cup {Absent}]
    BY <1>1 DEF Without
  <2>2. \A k \in Keys : IF Without(f, ks)[k] = Absent THEN Without(g, ks)[k] = Absent
                        ELSE /\ bytes[Without(f, ks)[k]] \in Contents
                             /\ Without(g, ks)[k] = bytes[Without(f, ks)[k]]
    BY <1>2, NamesFacts DEF Without
  <2> QED BY <2>1, <2>2, ReadFrom
<1>5. FilesRead(places, bytes, Only(f, ks), Only(g, ks))
  <2>1. /\ Only(f, ks) \in [Keys -> places \cup {Absent}]
        /\ Only(g, ks) \in [Keys -> Contents \cup {Absent}]
    BY <1>1 DEF Only
  <2>2. \A k \in Keys : IF Only(f, ks)[k] = Absent THEN Only(g, ks)[k] = Absent
                        ELSE /\ bytes[Only(f, ks)[k]] \in Contents
                             /\ Only(g, ks)[k] = bytes[Only(f, ks)[k]]
    BY <1>2, NamesFacts DEF Only
  <2> QED BY <2>1, <2>2, ReadFrom
<1> QED BY <1>3, <1>4, <1>5

-----------------------------------------------------------------------------
(***************************************************************************)
(* Histories.  An edit gives every checkpoint the files of one there was,  *)
(* the same one in the history of references and in that of contents.      *)
(***************************************************************************)

\* The references of the files of a checkpoint.
To(files) == {files[k] : k \in Keys} \ {Absent}

\* The references of a history are those of its checkpoints.
LEMMA ReferencesFacts ==
  ASSUME NEW h
  PROVE  \A a : a \in References(h) <=> \E i \in Ids(h) : a \in To(At(h, i).files)
  BY DEF References, To

\* A history of references has references to places with contents.
LEMMA ReadsReferences ==
  ASSUME NEW places, NEW bytes, NEW h, NEW m, Reads(places, bytes, h, m)
  PROVE  /\ References(h) \subseteq places
         /\ \A a \in References(h) : bytes[a] \in Contents
<1>1. SUFFICES ASSUME NEW i \in Ids(h), NEW k \in Keys, At(h, i).files[k] /= Absent
               PROVE  At(h, i).files[k] \in places /\ bytes[At(h, i).files[k]] \in Contents
  BY DEF References
<1>2. FilesRead(places, bytes, At(h, i).files, At(m, i).files)
  BY DEF Reads
<1> QED BY <1>1, <1>2, ReadAt

\* A history reads the same from bytes that agree where it refers to.
LEMMA ReadsMoved ==
  ASSUME NEW places, NEW bytes, NEW h, NEW m, Reads(places, bytes, h, m),
         NEW others, NEW new,
         \A a \in References(h) : a \in others /\ new[a] = bytes[a]
  PROVE  Reads(others, new, h, m)
<1>1. SUFFICES ASSUME NEW i \in Ids(h)
               PROVE  FilesRead(others, new, At(h, i).files, At(m, i).files)
  BY DEF Reads
<1>2. FilesRead(places, bytes, At(h, i).files, At(m, i).files)
  BY DEF Reads
<1>3. \A k \in Keys : At(h, i).files[k] /= Absent => At(h, i).files[k] \in References(h)
  BY DEF References
<1> QED BY <1>2, <1>3, FilesMoved

\* Files that read well are file maps.
LEMMA FilesReadMaps ==
  ASSUME NEW places \in SUBSET Blobs, NEW bytes, NEW f, NEW g, FilesRead(places, bytes, f, g)
  PROVE  f \in FileMap /\ g \in FileMap
<1>1. f \in [Keys -> places \cup {Absent}] /\ g \in [Keys -> Contents \cup {Absent}]
  BY ReadTypes
<1> QED BY <1>1, NamesFacts DEF FileMap

\* An edit that only moves checkpoints reads as the same edit of the contents.
LEMMA EditReads ==
  ASSUME NEW places, NEW bytes, NEW h, NEW m, Reads(places, bytes, h, m),
         NEW new, NEW mnew, WellFormed(new), WellFormed(mnew),
         Count(new) = Count(mnew), new.head = mnew.head,
         \A i \in Ids(new) : \E j \in Ids(h) : /\ At(new, i).files = At(h, j).files
                                               /\ At(mnew, i).files = At(m, j).files
  PROVE  Reads(places, bytes, new, mnew) /\ References(new) \subseteq References(h)
<1>1. \A i \in Ids(new) : FilesRead(places, bytes, At(new, i).files, At(mnew, i).files)
  BY DEF Reads
<1>2. References(new) \subseteq References(h)
  BY DEF References
<1> QED BY <1>1, <1>2 DEF Reads

\* A rollback reads as that of the contents, and refers to nothing new.
LEMMA RollbackReads ==
  ASSUME NEW places, NEW bytes, NEW h, NEW m, Reads(places, bytes, h, m), NEW i \in Ids(h)
  PROVE  /\ Reads(places, bytes, Rollback(h, i), Rollback(m, i))
         /\ References(Rollback(h, i)) \subseteq References(h)
<1>1. WellFormed(h) /\ WellFormed(m) /\ Ids(h) = Ids(m) /\ Count(h) = Count(m)
  BY DEF Reads, Ids
<1>2. /\ WellFormed(Rollback(h, i)) /\ WellFormed(Rollback(m, i))
      /\ Count(Rollback(h, i)) = Count(Rollback(m, i))
      /\ Rollback(h, i).head = Rollback(m, i).head
      /\ Ids(Rollback(h, i)) = Ids(h)
      /\ \A j \in Ids(h) : At(Rollback(h, i), j) = At(h, j) /\ At(Rollback(m, i), j) = At(m, j)
  BY <1>1, RollbackFacts DEF Ids
<1> QED BY <1>2, EditReads

\* So does a squash: checkpoint i is the old one i, or the one as much farther on as
\* the range gets shorter.
LEMMA SquashReads ==
  ASSUME NEW places, NEW bytes, NEW h, NEW m, Reads(places, bytes, h, m),
         NEW from \in Nat, NEW to \in Nat, CanSquash(h, from, to)
  PROVE  /\ Reads(places, bytes, Squash(h, from, to, NoLabel), Squash(m, from, to, NoLabel))
         /\ References(Squash(h, from, to, NoLabel)) \subseteq References(h)
<1> DEFINE n == Squash(h, from, to, NoLabel)
           mn == Squash(m, from, to, NoLabel)
           old(i) == IF i < from THEN i ELSE i + (to - from)
<1>1. /\ WellFormed(h) /\ WellFormed(m) /\ Ids(h) = Ids(m) /\ Count(h) = Count(m)
      /\ h.head = m.head /\ CanSquash(m, from, to)
      /\ Count(h) \in Nat /\ from >= 1 /\ from <= to /\ to < Count(h)
  BY Shape DEF Reads, Ids, CanSquash, CanEdit
<1>2. /\ WellFormed(n) /\ WellFormed(mn)
      /\ Count(n) = Count(h) - (to - from) /\ Count(mn) = Count(h) - (to - from)
      /\ n.head = mn.head
  BY <1>1, SquashFacts DEF SquashedHead
<1>3. ASSUME NEW x, WellFormed(x), Count(x) = Count(h), CanSquash(x, from, to),
             NEW i \in Ids(n)
      PROVE  old(i) \in Ids(x) /\ At(Squash(x, from, to, NoLabel), i).files = At(x, old(i)).files
  <2>1. i \in Nat /\ i < Count(h) - (to - from)
    BY <1>1, <1>2 DEF Ids
  <2>2. old(i) \in 0 .. Count(h) - 1
    BY <1>1, <2>1
  <2>3. old(i) \in Ids(x)
    BY <1>3, <2>2 DEF Ids
  <2>4. /\ At(x, old(i)) \in Checkpoint
        /\ WithId(At(x, old(i)), i).files = At(x, old(i)).files
    BY <1>3, <2>1, <2>3, Shape, WithIdFacts
  <2>5. CASE i < from
    <3>1. At(Squash(x, from, to, NoLabel), i) = WithId(At(x, i), i)
      BY <1>3, <2>1, <2>5, SquashFacts
    <3> QED BY <2>3, <2>4, <2>5, <3>1
  <2>6. CASE i = from
    <3>1. At(Squash(x, from, to, NoLabel), from).files = At(x, to).files
      BY <1>3, SquashFacts
    <3>2. old(i) = to
      BY <2>6, <1>1
    <3> QED BY <2>3, <2>6, <3>1, <3>2
  <2>7. CASE i > from
    <3>1. At(Squash(x, from, to, NoLabel), i) = WithId(At(x, i + (to - from)), i)
      <4>1. i \in from + 1 .. Count(x) - (to - from) - 1
        BY <1>1, <1>3, <2>1, <2>7
      <4> QED BY <1>3, <4>1, SquashFacts
    <3> QED BY <2>1, <2>3, <2>4, <2>7, <3>1
  <2> QED BY <2>1, <2>5, <2>6, <2>7
<1> HIDE DEF n, mn, old
<1>4. \A i \in Ids(n) : /\ old(i) \in Ids(h)
                        /\ At(n, i).files = At(h, old(i)).files
                        /\ At(mn, i).files = At(m, old(i)).files
  BY <1>1, <1>3 DEF n, mn
<1>5. Reads(places, bytes, n, mn) /\ References(n) \subseteq References(h)
  BY <1>2, <1>4, EditReads
<1> QED BY <1>5 DEF n, mn

\* So does a drop.
LEMMA DropReads ==
  ASSUME NEW places, NEW bytes, NEW h, NEW m, Reads(places, bytes, h, m),
         NEW from \in Nat, NEW to \in Nat, CanDrop(h, from, to)
  PROVE  /\ Reads(places, bytes, Drop(h, from, to), Drop(m, from, to))
         /\ References(Drop(h, from, to)) \subseteq References(h)
<1> DEFINE n == Drop(h, from, to)
           mn == Drop(m, from, to)
           old(i) == IF i < from THEN i ELSE i + (to - from + 1)
<1>1. /\ WellFormed(h) /\ WellFormed(m) /\ Ids(h) = Ids(m) /\ Count(h) = Count(m)
      /\ h.head = m.head /\ CanDrop(m, from, to)
      /\ Count(h) \in Nat /\ from >= 1 /\ from <= to /\ to < Count(h)
  BY Shape DEF Reads, Ids, CanDrop, CanEdit
<1>2. /\ WellFormed(n) /\ WellFormed(mn)
      /\ Count(n) = Count(h) - (to - from + 1) /\ Count(mn) = Count(h) - (to - from + 1)
      /\ n.head = mn.head
  BY <1>1, DropFacts DEF DroppedHead
<1>3. ASSUME NEW x, WellFormed(x), Count(x) = Count(h), CanDrop(x, from, to),
             NEW i \in Ids(n)
      PROVE  old(i) \in Ids(x) /\ At(Drop(x, from, to), i).files = At(x, old(i)).files
  <2>1. i \in Nat /\ i < Count(h) - (to - from + 1)
    BY <1>1, <1>2 DEF Ids
  <2>2. old(i) \in 0 .. Count(h) - 1
    BY <1>1, <2>1
  <2>3. old(i) \in Ids(x)
    BY <1>3, <2>2 DEF Ids
  <2>4. /\ At(x, old(i)) \in Checkpoint
        /\ WithId(At(x, old(i)), i).files = At(x, old(i)).files
    BY <1>3, <2>1, <2>3, Shape, WithIdFacts
  <2>5. CASE i < from
    <3>1. At(Drop(x, from, to), i) = WithId(At(x, i), i)
      BY <1>3, <2>1, <2>5, DropFacts
    <3> QED BY <2>3, <2>4, <2>5, <3>1
  <2>6. CASE i >= from
    <3>1. At(Drop(x, from, to), i) = WithId(At(x, i + (to - from + 1)), i)
      <4>1. i \in from .. Count(x) - (to - from + 1) - 1
        BY <1>1, <1>3, <2>1, <2>6
      <4> QED BY <1>3, <4>1, DropFacts
    <3> QED BY <2>1, <2>3, <2>4, <2>6, <3>1
  <2> QED BY <2>1, <2>5, <2>6
<1> HIDE DEF n, mn, old
<1>4. \A i \in Ids(n) : /\ old(i) \in Ids(h)
                        /\ At(n, i).files = At(h, old(i)).files
                        /\ At(mn, i).files = At(m, old(i)).files
  BY <1>1, <1>3 DEF n, mn
<1>5. Reads(places, bytes, n, mn) /\ References(n) \subseteq References(h)
  BY <1>2, <1>4, EditReads
<1> QED BY <1>5 DEF n, mn

\* A push reads as a push of the contents.  It refers to what the checkpoints up to
\* the head and its files do; with nothing cut off, the old references stay.
LEMMA PushReads ==
  ASSUME NEW places \in SUBSET Blobs, NEW bytes, NEW h, NEW m, Reads(places, bytes, h, m),
         NEW f, NEW g, FilesRead(places, bytes, f, g)
  PROVE  /\ Reads(places, bytes, Push(h, f, 0), Push(m, g, 0))
         /\ References(Push(h, f, 0)) \subseteq References(h) \cup To(f)
<1> DEFINE n == Push(h, f, 0)
           mn == Push(m, g, 0)
<1>1. WellFormed(h) /\ WellFormed(m) /\ Count(h) = Count(m) /\ h.head = m.head
  BY DEF Reads
<1>2. f \in FileMap /\ g \in FileMap /\ 0 \in Nat
  BY FilesReadMaps
<1> DEFINE Pushed(x, files) ==
             [id |-> x.head + 1, files |-> files, label |-> NoLabel, steps |-> {0}]
<1>a. /\ WellFormed(n) /\ Count(n) = h.head + 2 /\ n.head = h.head + 1
      /\ \A i \in 0 .. h.head : At(n, i) = At(h, i)
      /\ At(n, h.head + 1) = Pushed(h, f)
  BY <1>1, <1>2, PushFacts
<1>b. /\ WellFormed(mn) /\ Count(mn) = m.head + 2 /\ mn.head = m.head + 1
      /\ \A i \in 0 .. m.head : At(mn, i) = At(m, i)
      /\ At(mn, m.head + 1) = Pushed(m, g)
  BY <1>1, <1>2, PushFacts
<1>c. Pushed(h, f).files = f /\ Pushed(m, g).files = g
  OBVIOUS
<1> HIDE DEF Pushed
<1>3. /\ WellFormed(n) /\ Count(n) = h.head + 2 /\ n.head = h.head + 1
      /\ \A i \in 0 .. h.head : At(n, i) = At(h, i)
      /\ At(n, h.head + 1).files = f
  BY <1>a, <1>c
<1>4. /\ WellFormed(mn) /\ Count(mn) = h.head + 2 /\ mn.head = h.head + 1
      /\ \A i \in 0 .. h.head : At(mn, i) = At(m, i)
      /\ At(mn, h.head + 1).files = g
  BY <1>1, <1>b, <1>c
<1> HIDE DEF n, mn
<1>5. h.head \in Nat /\ h.head < Count(h) /\ Count(h) \in Nat
  BY <1>1, Shape DEF WellFormed
<1>6. ASSUME NEW i \in Ids(n)
      PROVE  i = h.head + 1 \/ (i \in 0 .. h.head /\ i \in Ids(h))
  BY <1>3, <1>5 DEF Ids
<1>7. ASSUME NEW i \in Ids(n)
      PROVE  FilesRead(places, bytes, At(n, i).files, At(mn, i).files)
  <2>1. CASE i = h.head + 1
    BY <1>3, <1>4, <2>1
  <2>2. CASE i \in 0 .. h.head /\ i \in Ids(h)
    BY <1>3, <1>4, <2>2 DEF Reads
  <2> QED BY <1>6, <2>1, <2>2
<1>8. ASSUME NEW i \in Ids(n), NEW a \in To(At(n, i).files)
      PROVE  a \in References(h) \cup To(f)
  <2>1. CASE i = h.head + 1
    BY <1>3, <1>8, <2>1
  <2>2. CASE i \in 0 .. h.head /\ i \in Ids(h)
    BY <1>3, <1>8, <2>2, ReferencesFacts
  <2> QED BY <1>6, <2>1, <2>2
<1>9. References(n) \subseteq References(h) \cup To(f)
  BY <1>8, ReferencesFacts
<1>10. Reads(places, bytes, n, mn)
  BY <1>3, <1>4, <1>7 DEF Reads
<1> QED BY <1>9, <1>10 DEF n, mn

\* A history of one checkpoint.
LEMMA NewReads ==
  ASSUME NEW places \in SUBSET Blobs, NEW bytes, NEW f, NEW g, FilesRead(places, bytes, f, g)
  PROVE  /\ Reads(places, bytes, NewHistory(f), NewHistory(g))
         /\ References(NewHistory(f)) \subseteq To(f)
<1> DEFINE n == NewHistory(f)
           mn == NewHistory(g)
<1>1. f \in FileMap /\ g \in FileMap
  BY FilesReadMaps
<1>2. /\ WellFormed(n) /\ WellFormed(mn) /\ Count(n) = 1 /\ Count(mn) = 1
      /\ At(n, 0) = EmptyCheckpoint(f) /\ At(mn, 0) = EmptyCheckpoint(g)
  BY <1>1, NewHistoryFacts
<1>3. n.head = 0 /\ mn.head = 0
  BY DEF NewHistory
<1> HIDE DEF n, mn
<1>4. Ids(n) = {0} /\ At(n, 0).files = f /\ At(mn, 0).files = g
  BY <1>2 DEF Ids, EmptyCheckpoint
<1>5. Reads(places, bytes, n, mn)
  BY <1>2, <1>3, <1>4 DEF Reads
<1>6. References(n) \subseteq To(f)
  BY <1>4, ReferencesFacts
<1> QED BY <1>5, <1>6 DEF n, mn

-----------------------------------------------------------------------------
(***************************************************************************)
(* Tables.                                                                 *)
(***************************************************************************)

\* What the table leads to is single.
LEMMA HandledSingle ==
  ASSUME NEW t, NEW bytes, NEW places, Handled(t, bytes, places), NEW fewer \in SUBSET places
  PROVE  Single(bytes, fewer)
  BY DEF Handled, Single

\* Only contents with the hash of others can be confused with them.
LEMMA SameHash ==
  ASSUME NEW c \in Contents, NEW d \in Contents, ~Collides(c), Hash[c] = Hash[d]
  PROVE  c = d
  BY DEF Collides

\* Seeding gives a table, and one that leads to all the single copies.
LEMMA SeededFacts ==
  ASSUME NEW h, WellFormed(h), NEW bytes, References(h) \subseteq Addresses,
         \A a \in References(h) : bytes[a] \in Contents,
         NEW t \in Seeded(h, bytes)
  PROVE  /\ t \in Table
         /\ Single(bytes, References(h)) => Handled(t, bytes, References(h))
<1> DEFINE with(hash) == {i \in Ids(h) : Hashed(At(h, i), bytes, hash) /= {}}
<1>1. \A hash \in Hashes : t[hash] \in First(h, bytes, hash)
  BY DEF Seeded
<1>2. t \in [Hashes -> UNION {First(h, bytes, hash) : hash \in Hashes}]
  BY DEF Seeded
<1>3. ASSUME NEW hash \in Hashes, with(hash) /= {}
      PROVE  t[hash] \in References(h) /\ Hash[bytes[t[hash]]] = hash
  <2>1. with(hash) \in SUBSET Nat
    BY Shape DEF Ids
  <2>2. Lowest(with(hash)) \in with(hash)
    <3>1. \E m \in with(hash) : \A n \in with(hash) : m <= n
      BY <1>3, <2>1, LeastNatural
    <3> HIDE DEF with
    <3> QED BY <3>1 DEF Lowest
  <2>3. First(h, bytes, hash) = Hashed(At(h, Lowest(with(hash))), bytes, hash)
    BY <1>3 DEF First
  <2> DEFINE i == Lowest(with(hash))
  <2>4. i \in Ids(h)
    BY <2>2
  <2>5. t[hash] \in Hashed(At(h, i), bytes, hash)
    BY <1>1, <2>3
  <2> HIDE DEF i
  <2>6. PICK k \in Keys : /\ At(h, i).files[k] /= Absent /\ t[hash] = At(h, i).files[k]
                          /\ Hash[bytes[At(h, i).files[k]]] = hash
    BY <2>5 DEF Hashed, Present
  <2> QED BY <2>4, <2>6 DEF References
<1>4. ASSUME NEW hash \in Hashes, with(hash) = {}
      PROVE  t[hash] = Absent
  <2>1. First(h, bytes, hash) = {Absent}
    BY <1>4 DEF First
  <2> QED BY <1>1, <2>1
<1>5. t \in Table
  <2>1. \A hash \in Hashes : t[hash] \in Addresses \cup {Absent}
    BY <1>3, <1>4
  <2> QED BY <1>2, <2>1 DEF Table
<1>6. ASSUME Single(bytes, References(h)) PROVE Handled(t, bytes, References(h))
  <2> SUFFICES ASSUME NEW a \in References(h), ~Collides(bytes[a])
               PROVE  t[Hash[bytes[a]]] = a
    BY DEF Handled
  <2> DEFINE hash == Hash[bytes[a]]
  <2>1. bytes[a] \in Contents /\ hash \in Hashes
    BY NamesFacts
  <2>2. with(hash) /= {}
    <3>1. PICK i \in Ids(h), k \in Keys : a = At(h, i).files[k] /\ a /= Absent
      BY DEF References
    <3>2. a \in Hashed(At(h, i), bytes, hash)
      BY <3>1 DEF Hashed, Present
    <3> QED BY <3>2
  <2>3. t[hash] \in References(h) /\ Hash[bytes[t[hash]]] = hash
    BY <1>3, <2>1, <2>2
  <2>4. bytes[t[hash]] = bytes[a]
    BY <2>1, <2>3, SameHash
  <2> QED BY <1>6, <2>3, <2>4 DEF Single
<1> QED BY <1>5, <1>6

-----------------------------------------------------------------------------
(***************************************************************************)
(* A call interns its files one by one.                                    *)
(***************************************************************************)
Heap == [Addresses -> Contents \cup {Absent}]
Work == [heap : Heap, table : Table, held : SUBSET Addresses,
         files : [Keys -> Addresses \cup {Absent}]]

\* What a file that is to be interned is given as: bytes, or a reference.
Given(file) == IF file \in Contents THEN file ELSE heap[file]

\* The work when the keys of `done` are behind, after n rounds: nothing that was held
\* has changed, the files made so far read as what was given, the table leads to their
\* copies and those the session had, and there is room for the rest.
Walking(s, files, done, n, work) ==
  /\ work \in Work
  /\ Held(history, open) \subseteq work.held
  /\ \A a \in work.held : work.heap[a] \in Contents
  /\ \A a \in Held(history, open) : work.heap[a] = heap[a]
  /\ To(work.files) \subseteq work.held
  /\ \A k \in Keys :
       IF k \notin done \/ files[k] = Absent THEN work.files[k] = Absent
       ELSE work.files[k] /= Absent /\ work.heap[work.files[k]] = Given(files[k])
  /\ s \notin merged =>
       Handled(work.table, work.heap, References(history[s]) \cup To(work.files))
  /\ Cardinality(Unused(work)) >= Cardinality(Keys) - n

\* The file is one that is there.
LEMMA KeptFields ==
  ASSUME NEW work \in Work, NEW k \in Keys, NEW a \in Addresses
  PROVE  /\ Kept(work, k, a) \in Work
         /\ Kept(work, k, a).files = [work.files EXCEPT ![k] = a]
         /\ Kept(work, k, a).held = work.held \cup {a}
         /\ Kept(work, k, a).table = work.table
         /\ Kept(work, k, a).heap = work.heap
<1>1. /\ work = [heap |-> work.heap, table |-> work.table, held |-> work.held,
                 files |-> work.files]
      /\ work.files \in [Keys -> Addresses \cup {Absent}] /\ work.heap \in Heap
      /\ work.table \in Table /\ work.held \in SUBSET Addresses
  BY DEF Work
<1> DEFINE filed == [work EXCEPT !.files[k] = a]
<1>a. filed = [heap |-> work.heap, table |-> work.table, held |-> work.held,
               files |-> [work.files EXCEPT ![k] = a]]
  BY <1>1
<1>b. Kept(work, k, a) = [filed EXCEPT !.held = work.held \cup {a}]
  BY DEF Kept
<1> HIDE DEF filed
<1>2. Kept(work, k, a) = [heap |-> work.heap, table |-> work.table, held |-> work.held \cup {a},
                          files |-> [work.files EXCEPT ![k] = a]]
  BY <1>a, <1>b
<1>3. [work.files EXCEPT ![k] = a] \in [Keys -> Addresses \cup {Absent}]
  BY <1>1
<1> QED BY <1>1, <1>2, <1>3 DEF Work

\* The file gets a place of its own in heap and table.
LEMMA RegisteredFields ==
  ASSUME NEW work \in Work, NEW k \in Keys, NEW a \in Addresses, NEW c \in Contents
  PROVE  /\ Registered(work, k, a, c) \in Work
         /\ Registered(work, k, a, c).files = [work.files EXCEPT ![k] = a]
         /\ Registered(work, k, a, c).held = work.held \cup {a}
         /\ Registered(work, k, a, c).table = [work.table EXCEPT ![Hash[c]] = a]
         /\ Registered(work, k, a, c).heap = [work.heap EXCEPT ![a] = c]
<1> DEFINE kept == Kept(work, k, a)
<1>1. /\ kept \in Work
      /\ kept.files = [work.files EXCEPT ![k] = a]
      /\ kept.held = work.held \cup {a}
      /\ kept.table = work.table /\ kept.heap = work.heap
  BY KeptFields
<1>2. Registered(work, k, a, c) = [kept EXCEPT !.table[Hash[c]] = a, !.heap[a] = c]
  BY DEF Registered
<1> HIDE DEF kept
<1>3. kept = [heap |-> kept.heap, table |-> kept.table, held |-> kept.held,
              files |-> kept.files]
  BY <1>1 DEF Work
<1>4. Registered(work, k, a, c) =
        [heap |-> [kept.heap EXCEPT ![a] = c], table |-> [kept.table EXCEPT ![Hash[c]] = a],
         held |-> kept.held, files |-> kept.files]
  BY <1>2, <1>3
<1>5. /\ kept.files \in [Keys -> Addresses \cup {Absent}] /\ kept.heap \in Heap
      /\ kept.table \in Table /\ kept.held \in SUBSET Addresses
  BY <1>1 DEF Work
<1>6. Hash[c] \in Hashes
  BY NamesFacts
<1>7. [kept.heap EXCEPT ![a] = c] \in Heap /\ [kept.table EXCEPT ![Hash[c]] = a] \in Table
  BY <1>5, <1>6 DEF Heap, Table
<1> QED BY <1>1, <1>4, <1>5, <1>7 DEF Work

\* The addresses out of use are finitely many.
LEMMA UnusedFacts ==
  ASSUME NEW work, NEW other, NEW a, Unused(work) \ {a} \subseteq Unused(other),
         NEW n \in Nat, Cardinality(Unused(work)) >= n
  PROVE  /\ Cardinality(Unused(work)) \in Nat
         /\ Cardinality(Unused(other)) >= n - 1
         /\ n >= 1 => Unused(work) /= {}
<1>1. /\ Unused(work) \in SUBSET Addresses /\ Unused(other) \in SUBSET Addresses
      /\ IsFiniteSet(Addresses)
  BY NamesFacts DEF Unused
<1>2. IsFiniteSet(Unused(work)) /\ IsFiniteSet(Unused(other))
  BY <1>1, FS_Subset
<1>3. /\ Cardinality(Unused(work)) \in Nat
      /\ Cardinality(Unused(other)) \in Nat
  BY <1>2, FS_CardinalityType
<1>4. /\ IsFiniteSet(Unused(work) \ {a})
      /\ Cardinality(Unused(work) \ {a}) >= Cardinality(Unused(work)) - 1
  BY <1>2, <1>3, FS_RemoveElement
<1>5. Cardinality(Unused(work) \ {a}) <= Cardinality(Unused(other))
  BY <1>2, FS_Subset
<1>6. Cardinality(Unused(work) \ {a}) \in Nat
  BY <1>4, FS_CardinalityType
<1>7. n >= 1 => Unused(work) /= {}
  BY <1>3, FS_EmptySet
<1> QED BY <1>3, <1>4, <1>5, <1>6, <1>7

\* Where a file comes from does not matter to what was held.
LEMMA KeptWalks ==
  ASSUME NEW s, NEW files, NEW done, NEW n \in Nat, NEW work, n < Cardinality(Keys),
         Cardinality(Keys) \in Nat, Walking(s, files, done, n, work), NEW k \in Keys,
         files[k] /= Absent, NEW c \in Contents, c = Given(files[k]), Known(work, c)
  PROVE  Walking(s, files, done \cup {k}, n + 1, Kept(work, k, work.table[Hash[c]]))
<1> DEFINE a == work.table[Hash[c]]
           new == Kept(work, k, a)
<1>1. /\ work \in Work /\ a \in work.held /\ work.heap[a] = c
      /\ a \in Addresses
  BY DEF Walking, Known, Work
<1>2. /\ new \in Work /\ new.files = [work.files EXCEPT ![k] = a]
      /\ new.held = work.held \cup {a} /\ new.table = work.table /\ new.heap = work.heap
  BY <1>1, KeptFields
<1>3. new.held = work.held
  BY <1>1, <1>2
<1>4. work.files \in [Keys -> Addresses \cup {Absent}]
  BY <1>1 DEF Work
<1> HIDE DEF new
<1>5. To(new.files) \subseteq To(work.files) \cup {a}
  BY <1>2, <1>4 DEF To
<1>6. To(new.files) \subseteq new.held
  BY <1>1, <1>3, <1>5 DEF Walking
<1>7. ASSUME NEW j \in Keys
      PROVE  IF j \notin done \cup {k} \/ files[j] = Absent THEN new.files[j] = Absent
             ELSE new.files[j] /= Absent /\ new.heap[new.files[j]] = Given(files[j])
  <2>1. CASE j = k
    BY <1>1, <1>2, <1>4, <2>1, NamesFacts
  <2>2. CASE j /= k
    BY <1>2, <1>4, <2>2 DEF Walking
  <2> QED BY <2>1, <2>2
<1>8. ASSUME s \notin merged
      PROVE  Handled(new.table, new.heap, References(history[s]) \cup To(new.files))
  <2>1. Handled(work.table, work.heap, References(history[s]) \cup To(work.files))
    BY <1>8 DEF Walking
  <2>2. work.table[Hash[work.heap[a]]] = a
    BY <1>1
  <2> HIDE DEF a
  <2> QED BY <1>2, <1>5, <2>1, <2>2 DEF Handled
<1>9. Cardinality(Unused(new)) >= Cardinality(Keys) - (n + 1)
  <2>1. Unused(work) = Unused(new)
    BY <1>2, <1>3 DEF Unused
  <2>2. Cardinality(Unused(work)) >= Cardinality(Keys) - n /\ Cardinality(Keys) - n \in Nat
    BY DEF Walking
  <2>3. Cardinality(Unused(work)) \in Nat
    BY <2>1, <2>2, UnusedFacts
  <2> QED BY <2>1, <2>2, <2>3
<1>10. /\ Held(history, open) \subseteq new.held
       /\ \A b \in new.held : new.heap[b] \in Contents
       /\ \A b \in Held(history, open) : new.heap[b] = heap[b]
  BY <1>2, <1>3 DEF Walking
<1>11. Walking(s, files, done \cup {k}, n + 1, new)
  BY <1>2, <1>6, <1>7, <1>8, <1>9, <1>10 DEF Walking
<1> QED BY <1>11 DEF new

\* New bytes go to an address out of use, own ones stay where they are; neither takes
\* its handle from contents that do not collide.
LEMMA RegisteredWalks ==
  ASSUME NEW s, NEW files, NEW done, NEW n \in Nat, NEW work, n < Cardinality(Keys),
         Cardinality(Keys) \in Nat, Walking(s, files, done, n, work), NEW k \in Keys,
         files[k] /= Absent, NEW c \in Contents, c = Given(files[k]), ~Known(work, c),
         s \in open,
         NEW a \in Addresses, a \in Unused(work) \/ (a \in work.held /\ work.heap[a] = c)
  PROVE  Walking(s, files, done \cup {k}, n + 1, Registered(work, k, a, c))
<1> DEFINE new == Registered(work, k, a, c)
<1>1. /\ work \in Work /\ work.files \in [Keys -> Addresses \cup {Absent}]
      /\ work.heap \in Heap /\ work.table \in Table /\ work.held \subseteq Addresses
  BY DEF Walking, Work
<1>2. /\ new \in Work /\ new.files = [work.files EXCEPT ![k] = a]
      /\ new.held = work.held \cup {a} /\ new.table = [work.table EXCEPT ![Hash[c]] = a]
      /\ new.heap = [work.heap EXCEPT ![a] = c]
  BY <1>1, RegisteredFields
<1> HIDE DEF new
<1>3. \A b \in work.held : new.heap[b] = work.heap[b]
  <2>1. ASSUME NEW b \in work.held PROVE new.heap[b] = work.heap[b]
    <3>1. b = a => work.heap[a] = c
      BY DEF Unused
    <3> QED BY <1>1, <1>2, <3>1 DEF Heap
  <2> QED BY <2>1
<1>4. new.heap[a] = c
  BY <1>1, <1>2 DEF Heap
<1>5. To(new.files) \subseteq To(work.files) \cup {a}
  BY <1>1, <1>2 DEF To
<1>6. To(new.files) \subseteq new.held
  BY <1>2, <1>5 DEF Walking
<1>7. ASSUME NEW j \in Keys
      PROVE  IF j \notin done \cup {k} \/ files[j] = Absent THEN new.files[j] = Absent
             ELSE new.files[j] /= Absent /\ new.heap[new.files[j]] = Given(files[j])
  <2>1. CASE j = k
    BY <1>1, <1>2, <1>4, <2>1, NamesFacts
  <2>2. CASE j /= k
    <3>1. new.files[j] = work.files[j]
      BY <1>1, <1>2, <2>2
    <3>2. work.files[j] /= Absent => work.files[j] \in work.held
      BY DEF Walking, To
    <3> QED BY <1>3, <2>2, <3>1, <3>2 DEF Walking
  <2> QED BY <2>1, <2>2
<1>8. ASSUME s \notin merged
      PROVE  Handled(new.table, new.heap, References(history[s]) \cup To(new.files))
  <2>1. Handled(work.table, work.heap, References(history[s]) \cup To(work.files))
    BY <1>8 DEF Walking
  <2>2. SUFFICES ASSUME NEW b \in References(history[s]) \cup To(new.files),
                        ~Collides(new.heap[b])
                 PROVE  new.table[Hash[new.heap[b]]] = b
    BY DEF Handled
  <2>3. Hash[c] \in Hashes
    BY NamesFacts
  <2>4. CASE b = a
    BY <1>1, <1>2, <1>4, <2>3, <2>4 DEF Table
  <2>5. CASE b /= a
    <3>1. b \in References(history[s]) \cup To(work.files)
      BY <1>5, <2>5
    <3>2. b \in work.held
      BY <3>1 DEF Walking, Held
    <3>3. new.heap[b] = work.heap[b] /\ work.heap[b] \in Contents
      BY <1>3, <3>2 DEF Walking
    <3>4. work.table[Hash[work.heap[b]]] = b
      BY <2>1, <2>2, <3>1, <3>3 DEF Handled
    <3>5. Hash[work.heap[b]] /= Hash[c]
      <4> SUFFICES ASSUME Hash[work.heap[b]] = Hash[c] PROVE FALSE
        OBVIOUS
      <4>1. work.heap[b] = c
        BY <2>2, <3>3, SameHash
      <4>2. work.table[Hash[c]] = b
        BY <3>4
      <4> QED BY <3>2, <4>1, <4>2 DEF Known
    <3>6. Hash[work.heap[b]] \in Hashes
      BY <3>3, NamesFacts
    <3> QED BY <1>1, <1>2, <3>3, <3>4, <3>5, <3>6 DEF Table
  <2> QED BY <2>4, <2>5
<1>9. Cardinality(Unused(new)) >= Cardinality(Keys) - (n + 1)
  <2>1. \A hash \in Hashes : new.table[hash] \in {a, work.table[hash]}
    BY <1>1, <1>2 DEF Table
  <2>2. Unused(work) \ {a} \subseteq Unused(new)
    BY <1>2, <2>1 DEF Unused
  <2>3. Cardinality(Unused(work)) >= Cardinality(Keys) - n /\ Cardinality(Keys) - n \in Nat
    BY DEF Walking
  <2>4. Cardinality(Unused(new)) >= (Cardinality(Keys) - n) - 1
    BY <2>2, <2>3, UnusedFacts
  <2> QED BY <2>4
<1>10. /\ Held(history, open) \subseteq new.held
       /\ \A b \in new.held : new.heap[b] \in Contents
       /\ \A b \in Held(history, open) : new.heap[b] = heap[b]
  <2>1. Held(history, open) \subseteq work.held
    BY DEF Walking
  <2>2. \A b \in work.held : work.heap[b] \in Contents
    BY DEF Walking
  <2>3. \A b \in Held(history, open) : work.heap[b] = heap[b]
    BY DEF Walking
  <2> QED BY <1>2, <1>3, <1>4, <2>1, <2>2, <2>3
<1>11. Walking(s, files, done \cup {k}, n + 1, new)
  BY <1>2, <1>6, <1>7, <1>8, <1>9, <1>10 DEF Walking
<1> QED BY <1>11 DEF new

\* One round of intern_file_map.
LEMMA InternFileWalks ==
  ASSUME NEW s \in open, NEW files, NEW done, NEW n \in Nat, NEW work,
         n < Cardinality(Keys), Cardinality(Keys) \in Nat,
         Walking(s, files, done, n, work), NEW k \in Keys,
         files[k] \in Contents \cup {Absent} \cup Held(history, open)
  PROVE  Walking(s, files, done \cup {k}, n + 1, InternFile(work, k, files[k]))
<1>1. /\ work \in Work /\ Held(history, open) \subseteq work.held
      /\ work.held \subseteq Addresses
      /\ \A b \in work.held : work.heap[b] \in Contents
      /\ \A b \in Held(history, open) : work.heap[b] = heap[b]
  BY DEF Walking, Work
<1>2. CASE files[k] = Absent
  <2>1. InternFile(work, k, files[k]) = work
    BY <1>2, NamesFacts DEF InternFile
  <2>2. Cardinality(Unused(work)) >= Cardinality(Keys) - (n + 1)
    <3>1. Cardinality(Unused(work)) >= Cardinality(Keys) - n /\ Cardinality(Keys) - n \in Nat
      BY DEF Walking
    <3>2. Unused(work) \ {0} \subseteq Unused(work)
      OBVIOUS
    <3>3. Cardinality(Unused(work)) \in Nat
      BY <3>1, <3>2, UnusedFacts
    <3> QED BY <3>1, <3>3
  <2>3. \A j \in Keys :
          IF j \notin done \cup {k} \/ files[j] = Absent THEN work.files[j] = Absent
          ELSE work.files[j] /= Absent /\ work.heap[work.files[j]] = Given(files[j])
    BY <1>2 DEF Walking
  <2> QED BY <2>1, <2>2, <2>3 DEF Walking
<1>3. ASSUME NEW c \in Contents, c = Given(files[k]), NEW own, files[k] /= Absent,
             \/ own = Absent
             \/ own \in Addresses /\ own \in work.held /\ work.heap[own] = c
      PROVE  Walking(s, files, done \cup {k}, n + 1, Intern(work, k, c, own))
  <2>1. CASE Known(work, c)
    <3>1. Intern(work, k, c, own) = Kept(work, k, work.table[Hash[c]])
      BY <2>1 DEF Intern
    <3> QED BY <1>3, <2>1, <3>1, KeptWalks
  <2>2. CASE ~Known(work, c) /\ own /= Absent
    <3>1. Intern(work, k, c, own) = Registered(work, k, own, c)
      BY <2>2 DEF Intern
    <3>2. own \in Addresses /\ own \in work.held /\ work.heap[own] = c
      BY <1>3, <2>2
    <3>3. Walking(s, files, done \cup {k}, n + 1, Registered(work, k, own, c))
      BY <1>3, <2>2, <3>2, RegisteredWalks
    <3> QED BY <3>1, <3>3
  <2>3. CASE ~Known(work, c) /\ own = Absent
    <3>1. Intern(work, k, c, own) = Registered(work, k, Lowest(Unused(work)), c)
      BY <2>3 DEF Intern
    <3>2. Unused(work) /= {}
      <4>1. Cardinality(Unused(work)) >= Cardinality(Keys) - n
        BY DEF Walking
      <4>2. Cardinality(Keys) - n \in Nat /\ Cardinality(Keys) - n >= 1
        OBVIOUS
      <4>3. Unused(work) \ {0} \subseteq Unused(work)
        OBVIOUS
      <4> QED BY <4>1, <4>2, <4>3, UnusedFacts
    <3>3. Unused(work) \in SUBSET Nat /\ Unused(work) \subseteq Addresses
      BY NamesFacts DEF Unused
    <3>4. Lowest(Unused(work)) \in Unused(work)
      <4>1. \E m \in Unused(work) : \A j \in Unused(work) : m <= j
        BY <3>2, <3>3, LeastNatural
      <4> QED BY <4>1 DEF Lowest
    <3> DEFINE a == Lowest(Unused(work))
    <3>5. a \in Addresses /\ a \in Unused(work)
      BY <3>3, <3>4
    <3> HIDE DEF a
    <3>6. Walking(s, files, done \cup {k}, n + 1, Registered(work, k, a, c))
      BY <1>3, <2>3, <3>5, RegisteredWalks
    <3> QED BY <3>1, <3>6 DEF a
  <2> QED BY <2>1, <2>2, <2>3
<1>4. CASE files[k] \in Contents
  <2>1. InternFile(work, k, files[k]) = Intern(work, k, files[k], Absent)
    BY <1>4, NamesFacts DEF InternFile
  <2>2. files[k] = Given(files[k]) /\ files[k] /= Absent
    BY <1>4, NamesFacts DEF Given
  <2> QED BY <1>3, <1>4, <2>1, <2>2
<1>5. CASE files[k] \in Held(history, open)
  <2>1. files[k] \in Addresses /\ files[k] \notin Contents /\ files[k] /= Absent
    BY <1>1, <1>5, NamesFacts
  <2>2. InternFile(work, k, files[k]) = Intern(work, k, work.heap[files[k]], files[k])
    BY <2>1 DEF InternFile
  <2>3. work.heap[files[k]] \in Contents /\ work.heap[files[k]] = Given(files[k])
    BY <1>1, <1>5, <2>1 DEF Given
  <2> QED BY <1>1, <1>3, <1>5, <2>1, <2>2, <2>3
<1> QED BY <1>2, <1>4, <1>5

\* The first n rounds as a function, of which there is one for every n.
Rounds(s, files, order, n, f) ==
  f = [m \in 0 .. n |->
         IF m = 0 THEN Start(s) ELSE InternFile(f[m - 1], order[m], files[order[m]])]

LEMMA RoundsExist ==
  ASSUME NEW s, NEW files, NEW order, NEW n \in Nat
  PROVE  \E f : Rounds(s, files, order, n, f)
<1> DEFINE bad == {m \in Nat : ~ \E f : Rounds(s, files, order, m, f)}
<1>1. SUFFICES ASSUME bad /= {} PROVE FALSE
  OBVIOUS
<1>2. PICK m \in bad : \A j \in bad : m <= j
  <2>1. bad \in SUBSET Nat
    OBVIOUS
  <2> HIDE DEF bad
  <2> QED BY <1>1, <2>1, LeastNatural
<1>3. m /= 0
  <2> SUFFICES ASSUME m = 0 PROVE FALSE
    OBVIOUS
  <2> DEFINE f == [j \in 0 .. 0 |-> Start(s)]
  <2>1. \A j \in 0 .. 0 : j = 0
    OBVIOUS
  <2>2. f = [j \in 0 .. 0 |-> IF j = 0 THEN Start(s)
                              ELSE InternFile(f[j - 1], order[j], files[order[j]])]
    BY <2>1
  <2>3. Rounds(s, files, order, 0, f)
    BY <2>2 DEF Rounds
  <2> QED BY <1>2, <2>3
<1>4. m \in Nat /\ m - 1 \in Nat /\ m - 1 \notin bad
  BY <1>2, <1>3
<1>5. PICK f : Rounds(s, files, order, m - 1, f)
  BY <1>4
<1> DEFINE g == [j \in 0 .. m |-> IF j < m THEN f[j]
                                  ELSE InternFile(f[m - 1], order[m], files[order[m]])]
<1>6. \A j \in 0 .. m - 1 :
        f[j] = IF j = 0 THEN Start(s) ELSE InternFile(f[j - 1], order[j], files[order[j]])
  BY <1>5 DEF Rounds
<1>7. ASSUME NEW j \in 0 .. m
      PROVE  g[j] = IF j = 0 THEN Start(s) ELSE InternFile(g[j - 1], order[j], files[order[j]])
  <2>1. CASE j = m
    <3>1. g[m - 1] = f[m - 1] /\ g[m] = InternFile(f[m - 1], order[m], files[order[m]])
      BY <1>4
    <3> QED BY <1>3, <2>1, <3>1
  <2>2. CASE j < m
    <3>1. g[j] = f[j] /\ j \in 0 .. m - 1
      BY <1>4, <2>2
    <3>2. CASE j = 0
      BY <1>6, <3>1, <3>2
    <3>3. CASE j /= 0
      <4>1. g[j - 1] = f[j - 1]
        BY <2>2, <3>3
      <4> QED BY <1>6, <3>1, <3>3, <4>1
    <3> QED BY <3>2, <3>3
  <2> QED BY <1>4, <2>1, <2>2
<1>8. Rounds(s, files, order, m, g)
  <2>1. g = [j \in 0 .. m |-> g[j]]
    OBVIOUS
  <2> HIDE DEF g
  <2> QED BY <1>7, <2>1 DEF Rounds
<1> QED BY <1>2, <1>8

\* What a call's walk leaves, whatever the order: all that was held is as it was, the
\* files read as what was given, and the table leads to every copy.
LEMMA InternFilesFacts ==
  ASSUME IInv, NEW s \in open, Called(s), NEW files,
         \A k \in Keys : files[k] \in Contents \cup {Absent} \cup Held(history, open),
         NEW work \in InternFiles(s, files)
  PROVE  /\ work \in Work
         /\ \A a \in Held(history, open) : work.heap[a] = heap[a]
         /\ \A k \in Keys :
              IF files[k] = Absent THEN work.files[k] = Absent
              ELSE /\ work.files[k] \in Addresses
                   /\ work.heap[work.files[k]] = Given(files[k])
                   /\ work.heap[work.files[k]] \in Contents
         /\ s \notin merged =>
              Handled(work.table, work.heap, References(history[s]) \cup To(work.files))
<1>1. PICK order \in Orders : work = Walked(s, files, order)
  BY DEF InternFiles
<1> DEFINE N == Cardinality(Keys)
           F == CHOOSE f : Rounds(s, files, order, N, f)
           done(n) == {order[m] : m \in 1 .. n}
<1>2. N \in Nat
  BY NamesFacts, FS_CardinalityType
<1>3. order \in [1 .. N -> Keys] /\ \A k \in Keys : \E n \in 1 .. N : order[n] = k
  BY <1>1 DEF Orders
<1>4. Rounds(s, files, order, N, F)
  BY <1>2, RoundsExist
<1>5. work = F[N]
  <2>1. Walked(s, files, order) =
          (CHOOSE f : f = [n \in 0 .. N |->
             IF n = 0 THEN Start(s) ELSE InternFile(f[n - 1], order[n], files[order[n]])])[N]
    BY DEF Walked
  <2> QED BY <1>1, <2>1 DEF Rounds
<1>6. \A n \in 0 .. N :
        F[n] = IF n = 0 THEN Start(s) ELSE InternFile(F[n - 1], order[n], files[order[n]])
  BY <1>4 DEF Rounds
<1> HIDE DEF F, N
<1>7. Walking(s, files, done(0), 0, F[0])
  <2>1. done(0) = {}
    OBVIOUS
  <2>2. F[0] = Start(s)
    BY <1>2, <1>6
  <2>3. /\ s \in Sessions /\ heap \in Heap /\ table[s] \in Table
        /\ table \in [Sessions -> Table]
    BY DEF IInv, TypeOK, Heap
  <2>4. /\ Start(s).heap = heap /\ Start(s).table = table[s]
        /\ Start(s).held = Held(history, open) /\ Start(s).files = NoFiles
    BY DEF Start
  <2>5. \A t \in open : /\ References(history[t]) \subseteq Addresses
                        /\ \A a \in References(history[t]) : heap[a] \in Contents
    BY ReadsReferences DEF IInv
  <2>6. Held(history, open) \subseteq Addresses /\ \A a \in Held(history, open) : heap[a] \in Contents
    BY <2>5 DEF Held
  <2>7. Start(s) \in Work
    BY <2>3, <2>6 DEF Start, Work, NoFiles
  <2>8. To(Start(s).files) = {}
    BY <2>4 DEF To, NoFiles
  <2>9. \A k \in Keys : Start(s).files[k] = Absent
    BY <2>4 DEF NoFiles
  <2>10. s \notin merged =>
           Handled(Start(s).table, Start(s).heap, References(history[s]) \cup To(Start(s).files))
    BY <2>4, <2>8 DEF IInv
  <2>11. Cardinality(Unused(Start(s))) >= Cardinality(Keys) - 0
    <3>1. Unused(Start(s)) = Addresses \ (Held(history, open) \cup Weak(table))
      <4>1. \A h \in Hashes : table[s][h] \in Weak(table) \cup {Absent}
        BY <2>3 DEF Weak
      <4>2. Absent \notin Addresses
        BY NamesFacts
      <4> QED BY <2>4, <4>1, <4>2 DEF Unused
    <3> QED BY <1>2, <3>1 DEF Called, N
  <2> QED BY <2>1, <2>2, <2>4, <2>6, <2>7, <2>8, <2>9, <2>10, <2>11 DEF Walking
<1>8. ASSUME NEW n \in 0 .. N, n /= 0, Walking(s, files, done(n - 1), n - 1, F[n - 1])
      PROVE  Walking(s, files, done(n), n, F[n])
  <2>1. n - 1 \in Nat /\ n - 1 < N /\ n \in 1 .. N
    BY <1>2, <1>8
  <2>2. done(n) = done(n - 1) \cup {order[n]}
    <3>1. 1 .. n = (1 .. n - 1) \cup {n}
      BY <2>1
    <3> QED BY <3>1
  <2>3. order[n] \in Keys
    BY <1>3, <2>1
  <2>4. F[n] = InternFile(F[n - 1], order[n], files[order[n]])
    BY <1>6, <1>8
  <2> HIDE DEF done
  <2>5. Walking(s, files, done(n - 1) \cup {order[n]}, (n - 1) + 1,
                InternFile(F[n - 1], order[n], files[order[n]]))
    BY <1>2, <1>8, <2>1, <2>3, InternFileWalks DEF N
  <2>6. (n - 1) + 1 = n
    BY <2>1
  <2> QED BY <2>2, <2>4, <2>5, <2>6
<1> HIDE DEF done
<1>9. \A n \in 0 .. N : Walking(s, files, done(n), n, F[n])
  <2> DEFINE bad == {n \in 0 .. N : ~Walking(s, files, done(n), n, F[n])}
  <2>1. SUFFICES ASSUME bad /= {} PROVE FALSE
    OBVIOUS
  <2>2. PICK n \in bad : \A j \in bad : n <= j
    <3>1. bad \in SUBSET Nat
      BY <1>2
    <3> HIDE DEF bad
    <3> QED BY <2>1, <3>1, LeastNatural
  <2>3. n /= 0
    BY <1>7, <2>2
  <2>4. n - 1 \in 0 .. N /\ n - 1 \notin bad
    BY <1>2, <2>2, <2>3
  <2>5. Walking(s, files, done(n - 1), n - 1, F[n - 1])
    BY <2>4
  <2> QED BY <1>8, <2>2, <2>3, <2>5
<1>10. Walking(s, files, done(N), N, work)
  BY <1>2, <1>5, <1>9
<1>11. \A k \in Keys : k \in done(N)
  BY <1>3 DEF done
<1>12. \A k \in Keys :
         IF files[k] = Absent THEN work.files[k] = Absent
         ELSE /\ work.files[k] \in Addresses
              /\ work.heap[work.files[k]] = Given(files[k])
              /\ work.heap[work.files[k]] \in Contents
  <2> SUFFICES ASSUME NEW k \in Keys
               PROVE  IF files[k] = Absent THEN work.files[k] = Absent
                      ELSE /\ work.files[k] \in Addresses
                           /\ work.heap[work.files[k]] = Given(files[k])
                           /\ work.heap[work.files[k]] \in Contents
    OBVIOUS
  <2>1. IF files[k] = Absent THEN work.files[k] = Absent
        ELSE work.files[k] /= Absent /\ work.heap[work.files[k]] = Given(files[k])
    BY <1>10, <1>11 DEF Walking
  <2>2. work.files[k] /= Absent => work.files[k] \in work.held
    BY <1>10 DEF Walking, To
  <2>3. work.held \subseteq Addresses /\ \A a \in work.held : work.heap[a] \in Contents
    BY <1>10 DEF Walking, Work
  <2> QED BY <2>1, <2>2, <2>3
<1> QED BY <1>10, <1>12 DEF Walking

-----------------------------------------------------------------------------
(***************************************************************************)
(* Sessions: what the actions are made of.                                 *)
(***************************************************************************)

\* The parts of the invariant, for the provers.
LEMMA Parts ==
  ASSUME IInv
  PROVE  /\ open \subseteq used /\ used \subseteq Sessions /\ merged \subseteq used
         /\ history \in [Sessions -> History] /\ meant \in [Sessions -> History]
         /\ table \in [Sessions -> Table] /\ heap \in Heap /\ calls \in 0 .. MaxCalls
         /\ Addresses \in SUBSET Blobs
         /\ \A s \in open : /\ Reads(Addresses, heap, history[s], meant[s])
                            /\ References(history[s]) \subseteq Held(history, open)
         /\ \A s \in open \ merged : Handled(table[s], heap, References(history[s]))
         /\ Held(history, open) \subseteq Addresses
         /\ \A a \in Held(history, open) : heap[a] \in Contents
         /\ SnapshotInv
<1>1. \A s \in open : References(history[s]) \subseteq Held(history, open)
  BY DEF Held
<1>2. \A s \in open : References(history[s]) \subseteq Addresses
  BY ReadsReferences DEF IInv
<1>3. Held(history, open) \subseteq Addresses
  BY <1>2 DEF Held
<1> QED BY <1>1, <1>3, NamesFacts DEF IInv, TypeOK, Heap

\* A step that gives one open session a new history and table, adds bytes and drops
\* what nobody refers to.
LEMMA BecomesKeepsIInv ==
  ASSUME IInv, NEW s \in Sessions, NEW h, NEW m, NEW ts, NEW bytes \in Heap,
         Becomes(s, h, m, ts, bytes),
         \A a \in Held(history, open) : bytes[a] = heap[a],
         Reads(Addresses, bytes, h, m),
         merged' \subseteq used, merged \subseteq merged',
         \A t \in ts : t \in Table /\ (s \notin merged' => Handled(t, bytes, References(h)))
  PROVE  IInv'
<1>1. /\ s \in open /\ calls < MaxCalls /\ calls' = calls + 1
      /\ history' = [history EXCEPT ![s] = h]
      /\ meant' = [meant EXCEPT ![s] = m]
      /\ heap' = Swept(bytes, history', open)
      /\ open' = open /\ used' = used /\ snapshot' = snapshot
  BY DEF Becomes
<1>2. PICK t \in ts : table' = [table EXCEPT ![s] = t]
  BY DEF Becomes
<1>3. /\ history'[s] = h /\ meant'[s] = m /\ table'[s] = t
      /\ \A r \in open : r /= s => /\ history'[r] = history[r] /\ meant'[r] = meant[r]
                                   /\ table'[r] = table[r]
  BY <1>1, <1>2, Parts
<1>4. \A a \in Held(history', open) : a \in Addresses => heap'[a] = bytes[a]
  BY <1>1 DEF Swept
<1>5. \A r \in open : References(history'[r]) \subseteq Held(history', open)
  BY DEF Held
<1>6. ASSUME NEW r \in open PROVE Reads(Addresses, heap', history'[r], meant'[r])
  <2>1. Reads(Addresses, bytes, history'[r], meant'[r])
    <3>1. CASE r = s
      BY <1>3, <3>1
    <3>2. CASE r /= s
      <4>1. Reads(Addresses, heap, history[r], meant[r])
        BY Parts
      <4>2. \A a \in References(history[r]) : a \in Addresses /\ bytes[a] = heap[a]
        BY Parts
      <4> QED BY <1>3, <3>2, <4>1, <4>2, ReadsMoved
    <3> QED BY <3>1, <3>2
  <2>2. \A a \in References(history'[r]) : a \in Addresses /\ heap'[a] = bytes[a]
    BY <1>4, <1>5, <2>1, ReadsReferences
  <2> QED BY <2>1, <2>2, ReadsMoved
<1>7. ASSUME NEW r \in open, r \notin merged'
      PROVE  Handled(table'[r], heap', References(history'[r]))
  <2>1. Handled(table'[r], bytes, References(history'[r]))
    <3>1. CASE r = s
      BY <1>2, <1>3, <1>7, <3>1
    <3>2. CASE r /= s
      <4>1. Handled(table[r], heap, References(history[r]))
        BY <1>7, Parts
      <4>2. \A a \in References(history[r]) : bytes[a] = heap[a]
        BY Parts
      <4> QED BY <1>3, <3>2, <4>1, <4>2 DEF Handled
    <3> QED BY <3>1, <3>2
  <2>2. \A a \in References(history'[r]) : heap'[a] = bytes[a]
    BY <1>4, <1>5, <1>6, ReadsReferences
  <2> QED BY <2>1, <2>2 DEF Handled
<1>8. \A a \in Held(history', open) : heap'[a] \in Contents
  BY <1>6, ReadsReferences DEF Held
<1>9. TypeOK'
  <2>1. h \in History /\ m \in History
    BY DEF Reads, WellFormed
  <2>2. history' \in [Sessions -> History] /\ meant' \in [Sessions -> History]
    BY <1>1, <2>1, Parts
  <2>3. table' \in [Sessions -> Table]
    BY <1>2, Parts
  <2>4. heap' \in [Addresses -> Contents \cup {Absent}]
    BY <1>1 DEF Swept, Heap
  <2>5. calls' \in 0 .. MaxCalls
    BY <1>1, Parts, InternerAssumption
  <2> QED BY <1>1, <1>8, <2>2, <2>3, <2>4, <2>5, Parts DEF TypeOK
<1>10. SnapshotInv'
  BY <1>1, Parts DEF SnapshotInv
<1> QED BY <1>1, <1>6, <1>7, <1>9, <1>10 DEF IInv

\* A step that brings a session in.
LEMMA JoinKeepsIInv ==
  ASSUME IInv, NEW s \in Sessions, NEW h, NEW m, NEW bytes \in Heap, NEW tainted \in BOOLEAN,
         Join(s, h, m, bytes, tainted),
         \A a \in Held(history, open) : bytes[a] = heap[a],
         Reads(Addresses, bytes, h, m),
         ~tainted => Single(bytes, References(h))
  PROVE  IInv'
<1>1. /\ s \notin used /\ open' = open \cup {s} /\ used' = used \cup {s}
      /\ history' = [history EXCEPT ![s] = h]
      /\ meant' = [meant EXCEPT ![s] = m]
      /\ heap' = bytes
      /\ merged' = IF tainted THEN merged \cup {s} ELSE merged
      /\ snapshot' = snapshot /\ calls' = calls
  BY DEF Join
<1>2. PICK t \in Seeded(h, bytes) : table' = [table EXCEPT ![s] = t]
  BY DEF Join
<1>3. s \notin open /\ s \notin merged
  BY <1>1, Parts
<1>4. /\ history'[s] = h /\ meant'[s] = m /\ table'[s] = t
      /\ \A r \in open : /\ history'[r] = history[r] /\ meant'[r] = meant[r]
                         /\ table'[r] = table[r]
  BY <1>1, <1>2, <1>3, Parts
<1>5. /\ WellFormed(h) /\ References(h) \subseteq Addresses
      /\ \A a \in References(h) : bytes[a] \in Contents
  BY ReadsReferences DEF Reads
<1>6. t \in Table /\ (~tainted => Handled(t, bytes, References(h)))
  BY <1>5, SeededFacts
<1>7. ASSUME NEW r \in open' PROVE Reads(Addresses, heap', history'[r], meant'[r])
  <2>1. CASE r = s
    BY <1>1, <1>4, <2>1
  <2>2. CASE r \in open
    <3>1. Reads(Addresses, heap, history[r], meant[r])
      BY <2>2, Parts
    <3>2. \A a \in References(history[r]) : a \in Addresses /\ bytes[a] = heap[a]
      BY <2>2, Parts
    <3> QED BY <1>1, <1>4, <2>2, <3>1, <3>2, ReadsMoved
  <2> QED BY <1>1, <2>1, <2>2
<1>8. ASSUME NEW r \in open', r \notin merged'
      PROVE  Handled(table'[r], heap', References(history'[r]))
  <2>1. CASE r = s
    <3>1. ~tainted
      BY <1>1, <1>8, <2>1
    <3> QED BY <1>1, <1>4, <1>6, <2>1, <3>1
  <2>2. CASE r \in open
    <3>1. r \notin merged
      BY <1>1, <1>8
    <3>2. Handled(table[r], heap, References(history[r]))
      BY <2>2, <3>1, Parts
    <3>3. \A a \in References(history[r]) : bytes[a] = heap[a]
      BY <2>2, Parts
    <3> QED BY <1>1, <1>4, <2>2, <3>2, <3>3 DEF Handled
  <2> QED BY <1>1, <2>1, <2>2
<1>9. \A a \in Held(history', open') : heap'[a] \in Contents
  BY <1>7, ReadsReferences DEF Held
<1>10. TypeOK'
  <2>1. h \in History /\ m \in History
    BY DEF Reads, WellFormed
  <2>2. history' \in [Sessions -> History] /\ meant' \in [Sessions -> History]
    BY <1>1, <2>1, Parts
  <2>3. table' \in [Sessions -> Table]
    BY <1>2, <1>6, Parts
  <2> QED BY <1>1, <1>9, <2>2, <2>3, Parts DEF TypeOK, Heap
<1>11. SnapshotInv'
  BY <1>1, Parts DEF SnapshotInv
<1> QED BY <1>7, <1>8, <1>10, <1>11 DEF IInv

\* push_checkpoint, let through or not, with a truncation or without.
LEMMA CommitKeepsIInv ==
  ASSUME IInv, NEW s \in open, NEW f, NEW g, NEW t \in Table, NEW bytes \in Heap,
         Commit(s, f, g, t, bytes),
         \A a \in Held(history, open) : bytes[a] = heap[a],
         FilesRead(Addresses, bytes, f, g),
         merged' \subseteq used, merged \subseteq merged',
         s \notin merged' => Handled(t, bytes, References(history[s]) \cup To(f))
  PROVE  IInv'
<1>1. s \in Sessions /\ Addresses \in SUBSET Blobs
  BY Parts
<1>2. Reads(Addresses, bytes, history[s], meant[s])
  <2>1. Reads(Addresses, heap, history[s], meant[s])
    BY Parts
  <2>2. \A a \in References(history[s]) : a \in Addresses /\ bytes[a] = heap[a]
    BY Parts
  <2> QED BY <2>1, <2>2, ReadsMoved
<1>3. CASE LimitReached(history[s], MaxCheckpoints)
  <2>1. Becomes(s, history[s], meant[s], {t}, bytes)
    BY <1>3 DEF Commit
  <2>2. s \notin merged' => Handled(t, bytes, References(history[s]))
    BY DEF Handled
  <2> QED BY <1>1, <1>2, <2>1, <2>2, BecomesKeepsIInv
<1>4. CASE ~LimitReached(history[s], MaxCheckpoints)
  <2> DEFINE new == Push(history[s], f, 0)
             mnew == Push(meant[s], g, 0)
             cut == history[s].head < Count(history[s]) - 1
             ts == IF cut THEN Seeded(new, bytes) ELSE {t}
  <2>1. Becomes(s, new, mnew, ts, bytes)
    BY <1>4 DEF Commit
  <2>2. /\ Reads(Addresses, bytes, new, mnew)
        /\ References(new) \subseteq References(history[s]) \cup To(f)
    BY <1>1, <1>2, PushReads
  <2> HIDE DEF new, mnew, cut
  <2>3. s \notin merged' =>
          Handled(t, bytes, References(new)) /\ Single(bytes, References(new))
    <3>1. s \notin merged' => Handled(t, bytes, References(new))
      BY <2>2 DEF Handled
    <3> QED BY <3>1, HandledSingle
  <2>4. \A u \in Seeded(new, bytes) :
          u \in Table /\ (s \notin merged' => Handled(u, bytes, References(new)))
    <3>1. /\ WellFormed(new) /\ References(new) \subseteq Addresses
          /\ \A a \in References(new) : bytes[a] \in Contents
      BY <2>2, ReadsReferences DEF Reads
    <3> QED BY <2>3, <3>1, SeededFacts
  <2>5. \A u \in ts : u \in Table /\ (s \notin merged' => Handled(u, bytes, References(new)))
    BY <2>3, <2>4
  <2> HIDE DEF ts
  <2> QED BY <1>1, <2>1, <2>2, <2>5, BecomesKeepsIInv
<1> QED BY <1>3, <1>4

\* The present files of an open session.
LEMMA PresentReads ==
  ASSUME IInv, NEW s \in open
  PROVE  /\ FilesRead(Addresses, heap, Current(history[s]).files, Current(meant[s]).files)
         /\ To(Current(history[s]).files) \subseteq References(history[s])
         /\ Current(history[s]).files \in [Keys -> Addresses \cup {Absent}]
         /\ Current(meant[s]).files \in [Keys -> Contents \cup {Absent}]
<1>1. Reads(Addresses, heap, history[s], meant[s])
  BY Parts
<1>2. history[s].head \in Ids(history[s]) /\ history[s].head = meant[s].head
  BY <1>1, Shape DEF Reads
<1>3. FilesRead(Addresses, heap, Current(history[s]).files, Current(meant[s]).files)
  BY <1>1, <1>2 DEF Reads, Current
<1>4. To(Current(history[s]).files) \subseteq References(history[s])
  BY <1>2, ReferencesFacts DEF Current
<1> QED BY <1>3, <1>4, ReadTypes

\* Files that are written, fetched, mounted or extracted.
LEMMA WriteKeepsIInv ==
  ASSUME IInv, NEW s \in Sessions, NEW keys \in SUBSET Keys, NEW c \in Contents,
         WriteFiles(s, [k \in keys |-> c])
  PROVE  IInv'
<1> DEFINE written == Updated(NoFiles, [k \in keys |-> c])
           cur == Current(history[s]).files
           mcur == Current(meant[s]).files
<1>1. s \in open /\ Called(s) /\ merged' = merged
  BY DEF WriteFiles, Called
<1>2. PICK work \in InternFiles(s, written) :
        Commit(s, Overlay(cur, work.files), Overlay(mcur, written), work.table, work.heap)
  BY DEF WriteFiles
<1>3. written = [k \in Keys |-> IF k \in keys THEN c ELSE Absent]
  BY DEF NoFiles, Updated
<1> HIDE DEF written, cur, mcur
<1>4. \A k \in Keys : written[k] \in Contents \cup {Absent}
  BY <1>3
<1>5. /\ work \in Work
      /\ \A a \in Held(history, open) : work.heap[a] = heap[a]
      /\ \A k \in Keys :
           IF written[k] = Absent THEN work.files[k] = Absent
           ELSE /\ work.files[k] \in Addresses
                /\ work.heap[work.files[k]] = Given(written[k])
                /\ work.heap[work.files[k]] \in Contents
      /\ s \notin merged =>
           Handled(work.table, work.heap, References(history[s]) \cup To(work.files))
  BY <1>1, <1>2, <1>4, InternFilesFacts
<1>6. work.heap \in Heap /\ work.table \in Table /\ work.files \in [Keys -> Addresses \cup {Absent}]
  BY <1>5 DEF Work
<1>7. FilesRead(Addresses, work.heap, work.files, written)
  <2>1. written \in [Keys -> Contents \cup {Absent}]
    BY <1>3
  <2>2. \A k \in Keys : IF work.files[k] = Absent THEN written[k] = Absent
                        ELSE /\ work.heap[work.files[k]] \in Contents
                             /\ written[k] = work.heap[work.files[k]]
    <3> SUFFICES ASSUME NEW k \in Keys
                 PROVE  IF work.files[k] = Absent THEN written[k] = Absent
                        ELSE /\ work.heap[work.files[k]] \in Contents
                             /\ written[k] = work.heap[work.files[k]]
      OBVIOUS
    <3>1. written[k] /= Absent => Given(written[k]) = written[k]
      BY <1>4 DEF Given
    <3> QED BY <1>5, <3>1, NamesFacts
  <2> QED BY <1>6, <2>1, <2>2, ReadFrom
<1>8. FilesRead(Addresses, work.heap, cur, mcur) /\ To(cur) \subseteq References(history[s])
      /\ cur \in [Keys -> Addresses \cup {Absent}]
  <2>1. FilesRead(Addresses, heap, cur, mcur) /\ To(cur) \subseteq References(history[s])
        /\ cur \in [Keys -> Addresses \cup {Absent}]
    BY <1>1, PresentReads DEF cur, mcur
  <2>2. \A k \in Keys : cur[k] /= Absent => cur[k] \in Addresses /\ work.heap[cur[k]] = heap[cur[k]]
    BY <1>1, <1>5, <2>1, Parts DEF To
  <2> QED BY <2>1, <2>2, FilesMoved
<1>9. FilesRead(Addresses, work.heap, Overlay(cur, work.files), Overlay(mcur, written))
  BY <1>7, <1>8, FilesChanged
<1>10. To(Overlay(cur, work.files)) \subseteq References(history[s]) \cup To(work.files)
  <2>1. To(Overlay(cur, work.files)) \subseteq To(cur) \cup To(work.files)
    BY DEF To, Overlay
  <2> QED BY <1>8, <2>1
<1>11. s \notin merged =>
         Handled(work.table, work.heap, References(history[s]) \cup To(Overlay(cur, work.files)))
  BY <1>5, <1>10 DEF Handled
<1> QED BY <1>1, <1>2, <1>5, <1>6, <1>9, <1>11, Parts, CommitKeepsIInv

\* Files that a command or an install left behind.
LEMMA BashKeepsIInv ==
  ASSUME IInv, NEW s \in Sessions, NEW keys \in SUBSET Keys, NEW c \in Contents \cup {Absent},
         RunBash(s, [k \in keys |-> c])
  PROVE  IInv'
<1> DEFINE cur == Current(history[s]).files
           mcur == Current(meant[s]).files
           collected == Updated(cur, [k \in keys |-> c])
           contents == Updated(mcur, [k \in keys |-> c])
<1>1. s \in open /\ Called(s) /\ merged' = merged
  BY DEF RunBash, Called
<1>2. PICK work \in InternFiles(s, collected) :
        Commit(s, work.files, contents, work.table, work.heap)
  BY DEF RunBash
<1>3. /\ FilesRead(Addresses, heap, cur, mcur) /\ To(cur) \subseteq References(history[s])
      /\ cur \in [Keys -> Addresses \cup {Absent}] /\ mcur \in [Keys -> Contents \cup {Absent}]
  BY <1>1, PresentReads
<1> HIDE DEF cur, mcur
<1>4. /\ collected = [k \in Keys |-> IF k \in keys THEN c ELSE cur[k]]
      /\ contents = [k \in Keys |-> IF k \in keys THEN c ELSE mcur[k]]
  BY <1>3 DEF Updated
<1> HIDE DEF collected, contents
<1>5. \A k \in Keys : cur[k] /= Absent => cur[k] \in Held(history, open)
  BY <1>1, <1>3, Parts DEF To
<1>6. \A k \in Keys : collected[k] \in Contents \cup {Absent} \cup Held(history, open)
  BY <1>3, <1>4, <1>5
<1>7. /\ work \in Work
      /\ \A a \in Held(history, open) : work.heap[a] = heap[a]
      /\ \A k \in Keys :
           IF collected[k] = Absent THEN work.files[k] = Absent
           ELSE /\ work.files[k] \in Addresses
                /\ work.heap[work.files[k]] = Given(collected[k])
                /\ work.heap[work.files[k]] \in Contents
      /\ s \notin merged =>
           Handled(work.table, work.heap, References(history[s]) \cup To(work.files))
  BY <1>1, <1>2, <1>6, InternFilesFacts
<1>8. work.heap \in Heap /\ work.table \in Table /\ work.files \in [Keys -> Addresses \cup {Absent}]
  BY <1>7 DEF Work
<1>9. FilesRead(Addresses, work.heap, work.files, contents)
  <2>1. contents \in [Keys -> Contents \cup {Absent}]
    BY <1>3, <1>4
  <2>2. \A k \in Keys : IF work.files[k] = Absent THEN contents[k] = Absent
                        ELSE /\ work.heap[work.files[k]] \in Contents
                             /\ contents[k] = work.heap[work.files[k]]
    <3> SUFFICES ASSUME NEW k \in Keys
                 PROVE  IF work.files[k] = Absent THEN contents[k] = Absent
                        ELSE /\ work.heap[work.files[k]] \in Contents
                             /\ contents[k] = work.heap[work.files[k]]
      OBVIOUS
    <3>1. collected[k] = Absent <=> contents[k] = Absent
      BY <1>3, <1>4, ReadAt, NamesFacts
    <3>2. collected[k] /= Absent => Given(collected[k]) = contents[k]
      <4>1. CASE k \in keys
        BY <1>4, <4>1 DEF Given
      <4>2. CASE k \notin keys
        <5>1. collected[k] = cur[k] /\ contents[k] = mcur[k]
          BY <1>4, <4>2
        <5>2. cur[k] /= Absent => cur[k] \notin Contents
          BY <1>3, NamesFacts
        <5>3. cur[k] /= Absent => mcur[k] = heap[cur[k]]
          BY <1>3, ReadAt
        <5> QED BY <5>1, <5>2, <5>3 DEF Given
      <4> QED BY <4>1, <4>2
    <3> QED BY <1>7, <3>1, <3>2, NamesFacts
  <2> QED BY <1>8, <2>1, <2>2, ReadFrom
<1> QED BY <1>1, <1>2, <1>7, <1>8, <1>9, Parts, CommitKeepsIInv

\* Files taken away, by their keys.
LEMMA DeleteKeepsIInv ==
  ASSUME IInv, NEW s \in Sessions, NEW gone \in SUBSET Keys, DeleteFiles(s, gone)
  PROVE  IInv'
<1> DEFINE cur == Current(history[s]).files
           mcur == Current(meant[s]).files
<1>1. /\ s \in open /\ merged' = merged
      /\ Commit(s, Without(cur, gone), Without(mcur, gone), table[s], heap)
  BY DEF DeleteFiles, Called
<1>2. FilesRead(Addresses, heap, cur, mcur) /\ To(cur) \subseteq References(history[s])
  BY <1>1, PresentReads
<1> HIDE DEF cur, mcur
<1>3. FilesRead(Addresses, heap, Without(cur, gone), Without(mcur, gone))
  BY <1>2, FilesChanged
<1>4. To(Without(cur, gone)) \subseteq To(cur)
  BY DEF To, Without
<1>5. s \notin merged =>
        Handled(table[s], heap, References(history[s]) \cup To(Without(cur, gone)))
  <2>1. References(history[s]) \cup To(Without(cur, gone)) = References(history[s])
    BY <1>2, <1>4
  <2> QED BY <1>1, <2>1, Parts
<1>6. heap \in Heap /\ table[s] \in Table
  BY Parts
<1> QED BY <1>1, <1>3, <1>5, <1>6, Parts, CommitKeepsIInv

\* Files taken over from a checkpoint of another session.
LEMMA MergeKeepsIInv ==
  ASSUME IInv, NEW s \in Sessions, NEW source \in Sessions, NEW i \in Ids(history[source]),
         NEW keys \in SUBSET Keys, MergeFrom(s, source, i, keys)
  PROVE  IInv'
<1> DEFINE cur == Current(history[s]).files
           mcur == Current(meant[s]).files
           taken == At(history[source], i).files
           mtaken == At(meant[source], i).files
<1>1. /\ s \in open /\ source \in open /\ merged' = merged \cup {s}
      /\ Commit(s, Overlay(cur, Only(taken, keys)), Overlay(mcur, Only(mtaken, keys)),
                table[s], heap)
  BY DEF MergeFrom, Called
<1>2. FilesRead(Addresses, heap, cur, mcur)
  BY <1>1, PresentReads
<1>3. FilesRead(Addresses, heap, taken, mtaken)
  BY <1>1, Parts DEF Reads
<1> HIDE DEF cur, mcur, taken, mtaken
<1>4. FilesRead(Addresses, heap, Only(taken, keys), Only(mtaken, keys))
  BY <1>3, FilesChanged
<1>5. FilesRead(Addresses, heap, Overlay(cur, Only(taken, keys)), Overlay(mcur, Only(mtaken, keys)))
  BY <1>2, <1>4, FilesChanged
<1>6. heap \in Heap /\ table[s] \in Table /\ merged' \subseteq used
  BY <1>1, Parts
<1> QED BY <1>1, <1>5, <1>6, CommitKeepsIInv

\* An edit of the history that moves checkpoints, with the table as it was or seeded.
LEMMA EditKeepsIInv ==
  ASSUME IInv, NEW s \in open, NEW h, NEW m, NEW ts, Becomes(s, h, m, ts, heap),
         Reads(Addresses, heap, h, m), References(h) \subseteq References(history[s]),
         ts \in {{table[s]}, Seeded(h, heap)}, merged' = merged
  PROVE  IInv'
<1>1. s \in Sessions /\ heap \in Heap /\ table[s] \in Table /\ merged \subseteq used
  BY Parts
<1>2. s \notin merged => Handled(table[s], heap, References(history[s]))
  BY Parts
<1>3. s \notin merged =>
        Handled(table[s], heap, References(h)) /\ Single(heap, References(h))
  <2>1. s \notin merged => Handled(table[s], heap, References(h))
    BY <1>2 DEF Handled
  <2> QED BY <2>1, HandledSingle
<1>4. /\ WellFormed(h) /\ References(h) \subseteq Addresses
      /\ \A a \in References(h) : heap[a] \in Contents
  BY ReadsReferences DEF Reads
<1>5. \A t \in Seeded(h, heap) :
        t \in Table /\ (s \notin merged => Handled(t, heap, References(h)))
  BY <1>3, <1>4, SeededFacts
<1>6. \A t \in ts : t \in Table /\ (s \notin merged => Handled(t, heap, References(h)))
  BY <1>1, <1>3, <1>5
<1> QED BY <1>1, <1>6, BecomesKeepsIInv

\* Rollback, squash and drop.
LEMMA MovesKeepIInv ==
  ASSUME IInv, NEW s \in Sessions, NEW i \in Ids(history[s]), NEW j \in Ids(history[s]),
         RollbackTo(s, i) \/ SquashRange(s, i, j) \/ DropRange(s, i, j)
  PROVE  IInv'
<1>1. s \in open /\ merged' = merged
  BY DEF RollbackTo, SquashRange, DropRange, Becomes
<1>2. Reads(Addresses, heap, history[s], meant[s])
  BY <1>1, Parts
<1>3. i \in Nat /\ j \in Nat
  BY DEF Ids
<1>4. CASE RollbackTo(s, i)
  <2>1. Becomes(s, Rollback(history[s], i), Rollback(meant[s], i), {table[s]}, heap)
    BY <1>4 DEF RollbackTo
  <2> QED BY <1>1, <1>2, <2>1, RollbackReads, EditKeepsIInv
<1>5. CASE SquashRange(s, i, j)
  <2> DEFINE new == Squash(history[s], i, j, NoLabel)
  <2>1. /\ CanSquash(history[s], i, j)
        /\ Becomes(s, new, Squash(meant[s], i, j, NoLabel), Seeded(new, heap), heap)
    BY <1>5 DEF SquashRange
  <2>2. /\ Reads(Addresses, heap, new, Squash(meant[s], i, j, NoLabel))
        /\ References(new) \subseteq References(history[s])
    BY <1>2, <1>3, <2>1, SquashReads
  <2> HIDE DEF new
  <2> QED BY <1>1, <2>1, <2>2, EditKeepsIInv
<1>6. CASE DropRange(s, i, j)
  <2> DEFINE new == Drop(history[s], i, j)
  <2>1. /\ CanDrop(history[s], i, j)
        /\ Becomes(s, new, Drop(meant[s], i, j), Seeded(new, heap), heap)
    BY <1>6 DEF DropRange
  <2>2. /\ Reads(Addresses, heap, new, Drop(meant[s], i, j))
        /\ References(new) \subseteq References(history[s])
    BY <1>2, <1>3, <2>1, DropReads
  <2> HIDE DEF new
  <2> QED BY <1>1, <2>1, <2>2, EditKeepsIInv
<1> QED BY <1>4, <1>5, <1>6

-----------------------------------------------------------------------------
(***************************************************************************)
(* Sessions that come and go.                                              *)
(***************************************************************************)

\* A session with nothing in it.
LEMMA FreshReads ==
  ASSUME NEW bytes
  PROVE  /\ Fresh \in History /\ Reads(Addresses, bytes, Fresh, Fresh)
         /\ References(Fresh) = {}
<1>1. FilesRead(Addresses, bytes, NoFiles, NoFiles)
  BY DEF FilesRead, Read, NoFiles
<1>2. To(NoFiles) = {}
  BY DEF To, NoFiles
<1>3. Addresses \in SUBSET Blobs
  BY NamesFacts
<1> QED BY <1>1, <1>2, <1>3, NewReads DEF Fresh, Reads, WellFormed

\* A session from nothing.
LEMMA CreateKeepsIInv ==
  ASSUME IInv, NEW s \in Sessions, Create(s)
  PROVE  IInv'
<1>1. Join(s, Fresh, Fresh, heap, FALSE)
  BY DEF Create
<1>2. Reads(Addresses, heap, Fresh, Fresh) /\ Single(heap, References(Fresh)) /\ heap \in Heap
  BY FreshReads, Parts DEF Single
<1> QED BY <1>1, <1>2, JoinKeepsIInv

\* A session from one checkpoint of another.
LEMMA ForkKeepsIInv ==
  ASSUME IInv, NEW s \in Sessions, NEW source \in Sessions, NEW i \in Ids(history[source]),
         ForkSession(s, source, i)
  PROVE  IInv'
<1> DEFINE taken == At(history[source], i).files
           mtaken == At(meant[source], i).files
           h == NewHistory(taken)
           m == NewHistory(mtaken)
<1>1. source \in open /\ Join(s, h, m, heap, source \in merged)
  BY DEF ForkSession, Fork
<1>2. FilesRead(Addresses, heap, taken, mtaken) /\ heap \in Heap
  BY <1>1, Parts DEF Reads
<1>3. To(taken) \subseteq References(history[source])
  BY ReferencesFacts
<1> HIDE DEF taken, mtaken
<1>4. Reads(Addresses, heap, h, m) /\ References(h) \subseteq References(history[source])
  BY <1>2, <1>3, Parts, NewReads
<1> HIDE DEF h, m
<1> DEFINE tainted == source \in merged
<1>5. tainted \in BOOLEAN /\ (~tainted => Single(heap, References(h)))
  BY <1>1, <1>4, Parts, HandledSingle
<1>6. Join(s, h, m, heap, tainted)
  BY <1>1
<1> HIDE DEF tainted
<1> QED BY <1>2, <1>4, <1>5, <1>6, JoinKeepsIInv

\* A session that goes, and the bytes that only it referred to.
LEMMA CloseKeepsIInv ==
  ASSUME IInv, NEW s \in Sessions, Close(s)
  PROVE  IInv'
<1>1. /\ s \in open /\ open' = open \ {s} /\ used' = used /\ merged' = merged
      /\ history' = [history EXCEPT ![s] = Fresh]
      /\ meant' = [meant EXCEPT ![s] = Fresh]
      /\ table' = [table EXCEPT ![s] = NoTable]
      /\ heap' = Swept(heap, history', open')
      /\ snapshot' = snapshot /\ calls' = calls
  BY DEF Close
<1>2. \A r \in open' : /\ r \in open /\ history'[r] = history[r] /\ meant'[r] = meant[r]
                       /\ table'[r] = table[r]
  BY <1>1, Parts
<1>3. \A r \in open' : \A a \in References(history[r]) : a \in Addresses /\ heap'[a] = heap[a]
  <2>1. \A r \in open' : References(history[r]) \subseteq Held(history', open')
    BY <1>2 DEF Held
  <2>2. \A r \in open' : References(history[r]) \subseteq Addresses
    BY <1>2, Parts
  <2> QED BY <1>1, <2>1, <2>2 DEF Swept
<1>4. ASSUME NEW r \in open' PROVE Reads(Addresses, heap', history'[r], meant'[r])
  <2>1. Reads(Addresses, heap, history[r], meant[r])
    BY <1>2, Parts
  <2> QED BY <1>2, <1>3, <2>1, ReadsMoved
<1>5. ASSUME NEW r \in open', r \notin merged'
      PROVE  Handled(table'[r], heap', References(history'[r]))
  <2>1. Handled(table[r], heap, References(history[r]))
    BY <1>1, <1>2, <1>5, Parts
  <2> QED BY <1>2, <1>3, <2>1 DEF Handled
<1>6. \A a \in Held(history', open') : heap'[a] \in Contents
  BY <1>4, ReadsReferences DEF Held
<1>7. TypeOK'
  <2>1. history' \in [Sessions -> History] /\ meant' \in [Sessions -> History]
    BY <1>1, FreshReads, Parts
  <2>2. table' \in [Sessions -> Table]
    BY <1>1, Parts DEF Table, NoTable
  <2>3. heap' \in [Addresses -> Contents \cup {Absent}]
    BY <1>1, Parts DEF Swept, Heap
  <2>4. open' \subseteq used'
    BY <1>1, Parts
  <2> QED BY <1>1, <1>6, <2>1, <2>2, <2>3, <2>4, Parts DEF TypeOK
<1>8. SnapshotInv'
  BY <1>1, Parts DEF SnapshotInv
<1> QED BY <1>4, <1>5, <1>7, <1>8 DEF IInv

-----------------------------------------------------------------------------
(***************************************************************************)
(* A snapshot numbers references by rank, a restore takes free addresses   *)
(* by rank.                                                                *)
(***************************************************************************)

\* Ranks in a finite set are its indices, no two the same, none left out.
LEMMA RankFacts ==
  ASSUME NEW S \in SUBSET Nat, IsFiniteSet(S)
  PROVE  /\ Cardinality(S) \in Nat
         /\ \A a \in S : Rank(a, S) \in 0 .. Cardinality(S) - 1
         /\ \A a, b \in S : Rank(a, S) = Rank(b, S) => a = b
         /\ \A n \in 0 .. Cardinality(S) - 1 : \E a \in S : Rank(a, S) = n
<1> DEFINE Below(a) == {b \in S : b < a}
           N == Cardinality(S)
           ranks == [a \in S |-> Rank(a, S)]
<1>1. N \in Nat
  BY FS_CardinalityType
<1>2. ASSUME NEW a \in S
      PROVE  IsFiniteSet(Below(a)) /\ Rank(a, S) = Cardinality(Below(a)) /\ Rank(a, S) \in 0 .. N - 1
  <2>1. IsFiniteSet(Below(a)) /\ Cardinality(Below(a)) <= N
        /\ (N = Cardinality(Below(a)) => S = Below(a))
    BY FS_Subset
  <2>2. S /= Below(a)
    OBVIOUS
  <2>3. Cardinality(Below(a)) \in Nat
    BY <2>1, FS_CardinalityType
  <2>4. Rank(a, S) = Cardinality(Below(a))
    BY DEF Rank
  <2> HIDE DEF Below, N
  <2> QED BY <1>1, <2>1, <2>2, <2>3, <2>4
<1>3. ASSUME NEW a \in S, NEW b \in S, a < b PROVE Rank(a, S) < Rank(b, S)
  <2>1. Below(a) \in SUBSET Below(b)
    <3> SUFFICES ASSUME NEW c \in S, c < a PROVE c < b
      OBVIOUS
    <3>1. a \in Nat /\ b \in Nat /\ c \in Nat
      OBVIOUS
    <3> QED BY <1>3, <3>1
  <2>2. Below(a) /= Below(b)
    BY <1>3
  <2>3. /\ Cardinality(Below(a)) <= Cardinality(Below(b))
        /\ Cardinality(Below(b)) = Cardinality(Below(a)) => Below(b) = Below(a)
    BY <1>2, <2>1, FS_Subset
  <2> HIDE DEF Below, N
  <2>4. Rank(a, S) \in Nat /\ Rank(b, S) \in Nat
    BY <1>1, <1>2
  <2> QED BY <1>2, <2>2, <2>3, <2>4
<1>4. \A a, b \in S : Rank(a, S) = Rank(b, S) => a = b
  <2> SUFFICES ASSUME NEW a \in S, NEW b \in S, Rank(a, S) = Rank(b, S), a /= b PROVE FALSE
    OBVIOUS
  <2>1. a \in Nat /\ b \in Nat /\ Rank(a, S) \in Nat
    <3>1. Rank(a, S) \in 0 .. N - 1
      BY <1>2
    <3> HIDE DEF N
    <3> QED BY <1>1, <3>1
  <2>2. a < b \/ b < a
    BY <2>1
  <2> QED BY <1>3, <2>1, <2>2
<1>5. ranks \in Injection(S, 0 .. N - 1)
  BY <1>2, <1>4 DEF Injection, IsInjective
<1>6. IsFiniteSet(0 .. N - 1) /\ Cardinality(0 .. N - 1) = N
  <2>1. 0 \in Int /\ N - 1 \in Int
    BY <1>1
  <2>2. /\ IsFiniteSet(0 .. N - 1)
        /\ Cardinality(0 .. N - 1) = IF 0 > N - 1 THEN 0 ELSE N - 1 - 0 + 1
    BY <2>1, FS_Interval
  <2> QED BY <1>1, <2>2
<1>7. ranks \in Surjection(S, 0 .. N - 1)
  <2> HIDE DEF ranks, N
  <2>1. Cardinality(S) = Cardinality(0 .. N - 1)
    BY <1>6 DEF N
  <2> QED BY <1>5, <1>6, <2>1, FS_Injection
<1>8. \A n \in 0 .. N - 1 : \E a \in S : Rank(a, S) = n
  BY <1>7 DEF Surjection
<1> QED BY <1>1, <1>2, <1>4, <1>8

\* Nth finds by rank.
LEMMA NthFacts ==
  ASSUME NEW S \in SUBSET Nat, IsFiniteSet(S)
  PROVE  /\ \A n \in 0 .. Cardinality(S) - 1 : Nth(S, n) \in S /\ Rank(Nth(S, n), S) = n
         /\ \A a \in S : Nth(S, Rank(a, S)) = a
<1>1. \A n \in 0 .. Cardinality(S) - 1 : Nth(S, n) \in S /\ Rank(Nth(S, n), S) = n
  <2> SUFFICES ASSUME NEW n \in 0 .. Cardinality(S) - 1
               PROVE  Nth(S, n) \in S /\ Rank(Nth(S, n), S) = n
    OBVIOUS
  <2>1. \E a \in S : Rank(a, S) = n
    BY RankFacts
  <2> QED BY <2>1 DEF Nth
<1>2. ASSUME NEW a \in S PROVE Nth(S, Rank(a, S)) = a
  <2>1. Rank(a, S) \in 0 .. Cardinality(S) - 1
    BY RankFacts
  <2>2. Nth(S, Rank(a, S)) \in S /\ Rank(Nth(S, Rank(a, S)), S) = Rank(a, S)
    BY <1>1, <2>1
  <2> QED BY <2>2, RankFacts
<1> QED BY <1>1, <1>2

\* A history with its references replaced by others has the same checkpoints.
LEMMA MappedFacts ==
  ASSUME NEW h, WellFormed(h), NEW to,
         \A i \in Ids(h) : Read(to, At(h, i).files) \in FileMap
  PROVE  /\ WellFormed(Mapped(h, to)) /\ Count(Mapped(h, to)) = Count(h)
         /\ Mapped(h, to).head = h.head
         /\ \A i \in Ids(h) : At(Mapped(h, to), i).files = Read(to, At(h, i).files)
<1> DEFINE Of(cp) == [cp EXCEPT !.files = Read(to, cp.files)]
           cps == [n \in DOMAIN h.checkpoints |-> Of(h.checkpoints[n])]
<1>1. /\ h.checkpoints \in Seq(Checkpoint) /\ h.head \in Nat /\ Count(h) \in Nat
      /\ h = [checkpoints |-> h.checkpoints, head |-> h.head] /\ h.head < Count(h)
      /\ DOMAIN h.checkpoints = 1 .. Count(h)
  BY Shape DEF WellFormed, Count
<1>2. ASSUME NEW n \in 1 .. Count(h)
      PROVE  /\ h.checkpoints[n] \in Checkpoint
             /\ Read(to, h.checkpoints[n].files) \in FileMap
  <2>1. n - 1 \in Ids(h) /\ (n - 1) + 1 = n
    BY <1>1 DEF Ids
  <2>2. At(h, n - 1) = h.checkpoints[n]
    BY <2>1 DEF At
  <2> QED BY <2>1, <2>2, Shape
<1>3. \A cp \in Checkpoint : Read(to, cp.files) \in FileMap =>
        Of(cp) \in Checkpoint /\ Of(cp).files = Read(to, cp.files)
  BY DEF Checkpoint
<1> HIDE DEF Of
<1>4. cps \in Seq(Checkpoint) /\ Len(cps) = Count(h)
  BY <1>1, <1>2, <1>3
<1>5. Mapped(h, to) = [checkpoints |-> cps, head |-> h.head]
  <2>1. Mapped(h, to) = [h EXCEPT !.checkpoints = cps]
    BY DEF Mapped, Of
  <2> HIDE DEF cps
  <2> QED BY <1>1, <2>1
<1>6. ASSUME NEW i \in Ids(h) PROVE cps[i + 1].files = Read(to, At(h, i).files)
  <2>1. i + 1 \in 1 .. Count(h)
    BY <1>1 DEF Ids
  <2>2. cps[i + 1] = Of(h.checkpoints[i + 1])
    BY <1>1, <2>1
  <2> QED BY <1>2, <1>3, <2>1, <2>2 DEF At
<1> HIDE DEF cps
<1>7. Mapped(h, to).checkpoints = cps /\ Mapped(h, to).head = h.head
  BY <1>5
<1>8. Mapped(h, to) \in History
  BY <1>1, <1>4, <1>5 DEF History
<1> QED BY <1>1, <1>4, <1>6, <1>7, <1>8 DEF WellFormed, Count, At

\* It reads as the old one did, if the new references lead to the same bytes.
LEMMA MappedReads ==
  ASSUME NEW places, NEW bytes, NEW h, NEW m, Reads(places, bytes, h, m),
         NEW others \in SUBSET Blobs, NEW new, NEW to,
         \A a \in References(h) : to[a] \in others /\ new[to[a]] = bytes[a]
  PROVE  /\ Reads(others, new, Mapped(h, to), m)
         /\ \A b \in References(Mapped(h, to)) : \E a \in References(h) : b = to[a]
<1>1. WellFormed(h) /\ WellFormed(m) /\ Count(h) = Count(m) /\ h.head = m.head
  BY DEF Reads
<1>2. Absent \notin others
  BY AbsentAssumption
<1>3. ASSUME NEW i \in Ids(h)
      PROVE  /\ FilesRead(others, new, Read(to, At(h, i).files), At(m, i).files)
             /\ Read(to, At(h, i).files) \in FileMap
             /\ \A b \in To(Read(to, At(h, i).files)) : \E a \in References(h) : b = to[a]
  <2> DEFINE f == At(h, i).files
             g == At(m, i).files
             r == Read(to, f)
  <2>1. FilesRead(places, bytes, f, g)
    BY DEF Reads
  <2>2. \A k \in Keys : f[k] /= Absent => f[k] \in References(h)
    BY DEF References
  <2> HIDE DEF f, g
  <2>3. g \in [Keys -> Contents \cup {Absent}]
    BY <2>1, ReadTypes
  <2>4. \A k \in Keys : r[k] = IF f[k] = Absent THEN Absent ELSE to[f[k]]
    BY DEF Read
  <2>5. r \in [Keys -> others \cup {Absent}]
    BY <2>2 DEF Read
  <2> HIDE DEF r
  <2>6. \A k \in Keys : IF r[k] = Absent THEN g[k] = Absent
                        ELSE new[r[k]] \in Contents /\ g[k] = new[r[k]]
    <3> SUFFICES ASSUME NEW k \in Keys
                 PROVE  IF r[k] = Absent THEN g[k] = Absent
                        ELSE new[r[k]] \in Contents /\ g[k] = new[r[k]]
      OBVIOUS
    <3>1. CASE f[k] = Absent
      BY <2>1, <2>4, <3>1, ReadAt
    <3>2. CASE f[k] /= Absent
      <4>1. r[k] = to[f[k]] /\ to[f[k]] \in others /\ new[to[f[k]]] = bytes[f[k]]
        BY <2>2, <2>4, <3>2
      <4>2. g[k] = bytes[f[k]] /\ g[k] \in Contents
        BY <2>1, <3>2, ReadAt
      <4> QED BY <1>2, <4>1, <4>2
    <3> QED BY <3>1, <3>2
  <2>7. FilesRead(others, new, r, g)
    BY <2>3, <2>5, <2>6, ReadFrom
  <2>8. \A b \in To(r) : \E a \in References(h) : b = to[a]
    BY <2>2, <2>4 DEF To
  <2> QED BY <2>7, <2>8, FilesReadMaps DEF r, f, g
<1> DEFINE mapped == Mapped(h, to)
<1>4. /\ WellFormed(mapped) /\ Count(mapped) = Count(h) /\ mapped.head = h.head
      /\ \A i \in Ids(h) : At(mapped, i).files = Read(to, At(h, i).files)
  BY <1>1, <1>3, MappedFacts
<1> HIDE DEF mapped
<1>5. Ids(mapped) = Ids(h)
  BY <1>4 DEF Ids
<1>6. Reads(others, new, mapped, m)
  BY <1>1, <1>3, <1>4, <1>5 DEF Reads
<1>7. \A b \in References(mapped) : \E a \in References(h) : b = to[a]
  BY <1>3, <1>4, <1>5, ReferencesFacts
<1> QED BY <1>6, <1>7 DEF mapped

\* A session is written to a file.
LEMMA TakeSnapshotKeepsIInv ==
  ASSUME IInv, NEW s \in Sessions, TakeSnapshot(s)
  PROVE  IInv'
<1> DEFINE refs == References(history[s])
           N == Cardinality(refs)
           blobs == [n \in 1 .. N |-> heap[Nth(refs, n - 1)]]
           to == [a \in refs |-> Rank(a, refs)]
           h == Mapped(history[s], to)
<1>1. /\ s \in open
      /\ snapshot' = [blobs |-> blobs, history |-> h, meant |-> meant[s], merged |-> s \in merged]
      /\ open' = open /\ used' = used /\ history' = history /\ table' = table /\ heap' = heap
      /\ meant' = meant /\ merged' = merged /\ calls' = calls
  BY DEF TakeSnapshot, Encode
<1>2. /\ Reads(Addresses, heap, history[s], meant[s])
      /\ refs \in SUBSET Nat /\ refs \in SUBSET Addresses /\ \A a \in refs : heap[a] \in Contents
  BY <1>1, Parts, ReadsReferences, NamesFacts
<1> HIDE DEF refs
<1>3. IsFiniteSet(refs) /\ N <= Cardinality(Addresses) /\ Cardinality(Addresses) \in Nat
  BY <1>2, NamesFacts, FS_Subset, FS_CardinalityType
<1>4. /\ N \in Nat
      /\ \A a \in refs : Rank(a, refs) \in 0 .. N - 1 /\ Nth(refs, Rank(a, refs)) = a
      /\ \A n \in 0 .. N - 1 : Nth(refs, n) \in refs /\ Rank(Nth(refs, n), refs) = n
  BY <1>2, <1>3, RankFacts, NthFacts
<1> HIDE DEF N
<1>5. blobs \in Seq(Contents) /\ Len(blobs) = N
  <2>1. \A n \in 1 .. N : n - 1 \in 0 .. N - 1
    BY <1>4
  <2>2. \A n \in 1 .. N : heap[Nth(refs, n - 1)] \in Contents
    BY <1>2, <1>4, <2>1
  <2> QED BY <1>4, <2>2
<1>6. \A n \in 0 .. N - 1 : Blob(blobs)[n] = heap[Nth(refs, n)]
  <2> SUFFICES ASSUME NEW n \in 0 .. N - 1 PROVE Blob(blobs)[n] = heap[Nth(refs, n)]
    OBVIOUS
  <2>1. n + 1 \in 1 .. N /\ (n + 1) - 1 = n /\ n \in Indices(blobs)
    BY <1>4, <1>5 DEF Indices
  <2>2. blobs[n + 1] = heap[Nth(refs, n)]
    BY <2>1
  <2> HIDE DEF blobs
  <2> QED BY <2>1, <2>2 DEF Blob
<1> HIDE DEF blobs
<1>7. Indices(blobs) = 0 .. N - 1 /\ Indices(blobs) \in SUBSET Blobs
  <2>1. Indices(blobs) = 0 .. N - 1
    BY <1>5 DEF Indices
  <2>2. 0 .. N - 1 \subseteq 0 .. Cardinality(Addresses) - 1
    BY <1>3, <1>4
  <2> QED BY <2>1, <2>2, InternerAssumption
<1>8. \A a \in refs : to[a] \in Indices(blobs) /\ Blob(blobs)[to[a]] = heap[a]
  BY <1>4, <1>6, <1>7
<1> HIDE DEF to
<1>9. Reads(Indices(blobs), Blob(blobs), h, meant[s])
  <2> DEFINE others == Indices(blobs)
             new == Blob(blobs)
             x == history[s]
             m == meant[s]
  <2>1. others \in SUBSET Blobs /\ Reads(Addresses, heap, x, m)
    BY <1>2, <1>7
  <2>2. \A a \in References(x) : to[a] \in others /\ new[to[a]] = heap[a]
    BY <1>8 DEF refs
  <2> HIDE DEF others, new, x, m
  <2>3. Reads(others, new, Mapped(x, to), m)
    BY <2>1, <2>2, MappedReads
  <2> QED BY <2>3 DEF others, new, x, m
<1>10. s \notin merged => Single(Blob(blobs), Indices(blobs))
  <2> SUFFICES ASSUME s \notin merged, NEW n \in 0 .. N - 1, NEW k \in 0 .. N - 1,
                      Blob(blobs)[n] = Blob(blobs)[k], ~Collides(Blob(blobs)[n])
               PROVE  n = k
    BY <1>7 DEF Single
  <2>1. Single(heap, refs)
    BY <1>1, Parts, HandledSingle DEF refs
  <2>2. /\ Nth(refs, n) \in refs /\ Rank(Nth(refs, n), refs) = n
        /\ Nth(refs, k) \in refs /\ Rank(Nth(refs, k), refs) = k
    BY <1>4
  <2>3. Blob(blobs)[n] = heap[Nth(refs, n)] /\ Blob(blobs)[k] = heap[Nth(refs, k)]
    BY <1>6
  <2>4. Nth(refs, n) = Nth(refs, k)
    BY <2>1, <2>2, <2>3 DEF Single
  <2> QED BY <2>2, <2>4
<1> HIDE DEF h
<1>11. /\ snapshot'.blobs = blobs /\ snapshot'.history = h /\ snapshot'.meant = meant[s]
       /\ snapshot'.merged = (s \in merged)
  BY <1>1
<1>12. SnapshotInv'
  <2>1. snapshot'.merged \in BOOLEAN /\ (~snapshot'.merged => s \notin merged)
    <3> DEFINE tainted == s \in merged
    <3>1. tainted \in BOOLEAN /\ (~tainted => s \notin merged)
      OBVIOUS
    <3>2. snapshot'.merged = tainted
      BY <1>11
    <3> HIDE DEF tainted
    <3> QED BY <3>1, <3>2
  <2>2. snapshot'.blobs \in Seq(Contents) /\ Len(snapshot'.blobs) <= Cardinality(Addresses)
    BY <1>3, <1>5, <1>11
  <2>3. Reads(Indices(snapshot'.blobs), Blob(snapshot'.blobs), snapshot'.history, snapshot'.meant)
    BY <1>9, <1>11
  <2>4. ~snapshot'.merged => Single(Blob(snapshot'.blobs), Indices(snapshot'.blobs))
    BY <1>10, <1>11, <2>1
  <2> QED BY <2>1, <2>2, <2>3, <2>4 DEF SnapshotInv
<1>13. TypeOK'
  BY <1>1 DEF IInv, TypeOK
<1> QED BY <1>1, <1>12, <1>13 DEF IInv

\* A session is read from a file, its bytes where there was room.
LEMMA RestoreKeepsIInv ==
  ASSUME IInv, NEW s \in Sessions, Restore(s)
  PROVE  IInv'
<1> DEFINE free == Addresses \ (Held(history, open) \cup Weak(table))
           blobs == snapshot.blobs
           N == Len(blobs)
           to == [n \in 0 .. N - 1 |-> Nth(free, n)]
           h == Mapped(snapshot.history, to)
           m == snapshot.meant
           tainted == snapshot.merged
           bytes == [a \in Addresses |-> IF a \in free /\ Rank(a, free) < N
                                           THEN blobs[Rank(a, free) + 1] ELSE heap[a]]
<1>1. Cardinality(free) >= N /\ Join(s, h, m, bytes, tainted)
  BY DEF Restore
<1>2. /\ blobs \in Seq(Contents) /\ N \in Nat /\ tainted \in BOOLEAN
      /\ Reads(Indices(blobs), Blob(blobs), snapshot.history, m)
      /\ ~tainted => Single(Blob(blobs), Indices(blobs))
  BY Parts DEF SnapshotInv
<1>3. /\ free \in SUBSET Addresses /\ free \in SUBSET Nat /\ IsFiniteSet(free)
      /\ \A a \in Held(history, open) : a \in Addresses /\ a \notin free
  BY Parts, NamesFacts, FS_Subset
<1> HIDE DEF free
<1>4. /\ Cardinality(free) \in Nat
      /\ \A a \in free : Rank(a, free) \in 0 .. Cardinality(free) - 1
      /\ \A n \in 0 .. Cardinality(free) - 1 : Nth(free, n) \in free /\ Rank(Nth(free, n), free) = n
  BY <1>3, RankFacts, NthFacts
<1>5. \A n \in 0 .. N - 1 : Nth(free, n) \in free /\ Rank(Nth(free, n), free) = n
  <2>1. \A n \in 0 .. N - 1 : n \in 0 .. Cardinality(free) - 1
    BY <1>1, <1>2, <1>4
  <2> QED BY <1>4, <2>1
<1>6. Indices(blobs) = 0 .. N - 1
  BY DEF Indices
<1>7. \A n \in 0 .. N - 1 : blobs[n + 1] \in Contents /\ Blob(blobs)[n] = blobs[n + 1]
  BY <1>2, <1>6 DEF Blob
<1>8. bytes \in Heap
  <2>1. \A a \in free : Rank(a, free) < N => blobs[Rank(a, free) + 1] \in Contents
    <3> SUFFICES ASSUME NEW a \in free, Rank(a, free) < N
                 PROVE  blobs[Rank(a, free) + 1] \in Contents
      OBVIOUS
    <3>1. Rank(a, free) \in 0 .. N - 1
      <4>1. Rank(a, free) \in 0 .. Cardinality(free) - 1
        BY <1>4
      <4> QED BY <1>2, <1>4, <4>1
    <3> QED BY <1>7, <3>1
  <2> HIDE DEF blobs, N
  <2> QED BY <2>1, Parts DEF Heap
<1>9. \A a \in Held(history, open) : bytes[a] = heap[a]
  BY <1>3
<1>10. ASSUME NEW n \in 0 .. N - 1
       PROVE  /\ to[n] \in free /\ to[n] \in Addresses /\ Rank(to[n], free) = n
              /\ bytes[to[n]] = Blob(blobs)[n]
  <2>1. to[n] = Nth(free, n)
    OBVIOUS
  <2>2. to[n] \in free /\ to[n] \in Addresses /\ Rank(to[n], free) = n
    BY <1>3, <1>5, <2>1
  <2>3. n < N
    BY <1>2
  <2> HIDE DEF to, blobs, N
  <2>4. bytes[to[n]] = blobs[n + 1]
    BY <2>2, <2>3
  <2> QED BY <1>7, <2>2, <2>4 DEF N
<1> HIDE DEF to, bytes
<1>11. References(snapshot.history) \subseteq Indices(blobs)
  BY <1>2, ReadsReferences
<1>12. /\ Reads(Addresses, bytes, h, m)
       /\ \A b \in References(h) : \E a \in References(snapshot.history) : b = to[a]
  <2>1. \A a \in References(snapshot.history) : to[a] \in Addresses /\ bytes[to[a]] = Blob(blobs)[a]
    BY <1>6, <1>10, <1>11
  <2>2. Addresses \in SUBSET Blobs
    BY Parts
  <2> DEFINE places == Indices(blobs)
             old == Blob(blobs)
             x == snapshot.history
  <2>3. /\ Reads(places, old, x, m)
        /\ \A a \in References(x) : to[a] \in Addresses /\ bytes[to[a]] = old[a]
    BY <1>2, <2>1
  <2> HIDE DEF places, old, x, m
  <2>4. /\ Reads(Addresses, bytes, Mapped(x, to), m)
        /\ \A b \in References(Mapped(x, to)) : \E a \in References(x) : b = to[a]
    BY <2>2, <2>3, MappedReads
  <2> QED BY <2>4 DEF x
<1> HIDE DEF h
<1>13. ~tainted => Single(bytes, References(h))
  <2> SUFFICES ASSUME ~tainted, NEW b \in References(h), NEW c \in References(h),
                      bytes[b] = bytes[c], ~Collides(bytes[b])
               PROVE  b = c
    BY DEF Single
  <2>1. PICK n \in 0 .. N - 1 : b = to[n]
    BY <1>6, <1>11, <1>12
  <2>2. PICK k \in 0 .. N - 1 : c = to[k]
    BY <1>6, <1>11, <1>12
  <2>3. Blob(blobs)[n] = Blob(blobs)[k] /\ ~Collides(Blob(blobs)[n])
    BY <1>10, <2>1, <2>2
  <2>4. n = k
    BY <1>2, <1>6, <2>3 DEF Single
  <2> QED BY <2>1, <2>2, <2>4
<1> HIDE DEF blobs, N, m, tainted
<1> QED BY <1>1, <1>2, <1>8, <1>9, <1>12, <1>13, JoinKeepsIInv

-----------------------------------------------------------------------------
(***************************************************************************)
(* The theorems.                                                           *)
(***************************************************************************)

\* A daemon with no sessions and no snapshot.
LEMMA InitIInv == Init => IInv
<1> SUFFICES ASSUME Init PROVE IInv
  OBVIOUS
<1>1. /\ open = {} /\ used = {} /\ merged = {} /\ calls = 0
      /\ history = [s \in Sessions |-> Fresh] /\ meant = [s \in Sessions |-> Fresh]
      /\ table = [s \in Sessions |-> NoTable] /\ heap = [a \in Addresses |-> Absent]
      /\ snapshot = NoSnapshot
  BY DEF Init
<1>2. TypeOK
  <2>1. history \in [Sessions -> History] /\ meant \in [Sessions -> History]
    BY <1>1, FreshReads
  <2>2. table \in [Sessions -> Table]
    BY <1>1 DEF Table, NoTable
  <2>3. Held(history, open) = {}
    BY <1>1 DEF Held
  <2> QED BY <1>1, <2>1, <2>2, <2>3, InternerAssumption DEF TypeOK
<1>3. SnapshotInv
  <2>1. /\ snapshot.blobs = <<>> /\ snapshot.history = Fresh /\ snapshot.meant = Fresh
        /\ snapshot.merged = FALSE
    BY <1>1 DEF NoSnapshot
  <2>2. Indices(<<>>) = {} /\ Len(<<>>) = 0 /\ <<>> \in Seq(Contents)
    BY DEF Indices
  <2>3. Cardinality(Addresses) \in Nat
    BY NamesFacts, FS_CardinalityType
  <2>4. Reads(Indices(<<>>), Blob(<<>>), Fresh, Fresh)
    BY FreshReads, ReadsMoved
  <2>5. Single(Blob(<<>>), Indices(<<>>))
    BY <2>2 DEF Single
  <2>6. /\ Reads(Indices(snapshot.blobs), Blob(snapshot.blobs), snapshot.history, snapshot.meant)
        /\ Single(Blob(snapshot.blobs), Indices(snapshot.blobs))
    BY <2>1, <2>4, <2>5
  <2>7. /\ snapshot.blobs \in Seq(Contents) /\ snapshot.merged \in BOOLEAN
        /\ Len(snapshot.blobs) <= Cardinality(Addresses)
    <3>1. snapshot.blobs \in Seq(Contents) /\ Len(snapshot.blobs) = 0
      BY <2>1, <2>2
    <3>2. snapshot.merged \in BOOLEAN
      BY <2>1
    <3> QED BY <2>3, <3>1, <3>2
  <2> QED BY <2>6, <2>7 DEF SnapshotInv
<1> QED BY <1>1, <1>2, <1>3 DEF IInv

\* Every step keeps the invariant.
LEMMA NextIInv == IInv /\ [Next]_vars => IInv'
<1> SUFFICES ASSUME IInv, [Next]_vars PROVE IInv'
  OBVIOUS
<1>1. CASE UNCHANGED vars
  BY <1>1 DEF vars, IInv, TypeOK, SnapshotInv
<1>2. CASE Next
  <2>1. PICK s \in Sessions :
          \/ Create(s) \/ Restore(s) \/ TakeSnapshot(s) \/ Close(s)
          \/ \E source \in Sessions : \E i \in Ids(history[source]) : ForkSession(s, source, i)
          \/ \E keys \in SUBSET Keys, c \in Contents : WriteFiles(s, [k \in keys |-> c])
          \/ \E keys \in SUBSET Keys, c \in Contents \cup {Absent} : RunBash(s, [k \in keys |-> c])
          \/ \E gone \in SUBSET Keys : DeleteFiles(s, gone)
          \/ \E source \in Sessions : \E i \in Ids(history[source]), keys \in SUBSET Keys :
               MergeFrom(s, source, i, keys)
          \/ \E i \in Ids(history[s]) : RollbackTo(s, i)
          \/ \E from, to \in Ids(history[s]) : SquashRange(s, from, to) \/ DropRange(s, from, to)
    BY <1>2 DEF Next
  <2>2. CASE Create(s)
    BY <2>2, CreateKeepsIInv
  <2>3. CASE Restore(s)
    BY <2>3, RestoreKeepsIInv
  <2>4. CASE TakeSnapshot(s)
    BY <2>4, TakeSnapshotKeepsIInv
  <2>5. CASE Close(s)
    BY <2>5, CloseKeepsIInv
  <2>6. CASE \E source \in Sessions : \E i \in Ids(history[source]) : ForkSession(s, source, i)
    BY <2>6, ForkKeepsIInv
  <2>7. CASE \E keys \in SUBSET Keys, c \in Contents : WriteFiles(s, [k \in keys |-> c])
    BY <2>7, WriteKeepsIInv
  <2>8. CASE \E keys \in SUBSET Keys, c \in Contents \cup {Absent} : RunBash(s, [k \in keys |-> c])
    BY <2>8, BashKeepsIInv
  <2>9. CASE \E gone \in SUBSET Keys : DeleteFiles(s, gone)
    BY <2>9, DeleteKeepsIInv
  <2>10. CASE \E source \in Sessions : \E i \in Ids(history[source]), keys \in SUBSET Keys :
                MergeFrom(s, source, i, keys)
    BY <2>10, MergeKeepsIInv
  <2>11. CASE \E i \in Ids(history[s]) : RollbackTo(s, i)
    BY <2>11, MovesKeepIInv
  <2>12. CASE \E from, to \in Ids(history[s]) : SquashRange(s, from, to) \/ DropRange(s, from, to)
    BY <2>12, MovesKeepIInv
  <2> QED BY <2>1, <2>2, <2>3, <2>4, <2>5, <2>6, <2>7, <2>8, <2>9, <2>10, <2>11, <2>12
<1> QED BY <1>1, <1>2

\* The invariant is inductive: in every reachable state the references of every open
\* session, and the indices of a snapshot, lead to what its files are meant to be, and
\* every table leads to the copies it stands for.
THEOREM Invariance == Spec => []IInv
  BY InitIInv, NextIInv, PTL DEF Spec

\* Every file of every checkpoint of every open session reads as what its calls gave,
\* however hashes collide and references are shared, dropped, numbered and restored.
THEOREM ContentsSafe == Spec => []SameContents
<1>1. IInv => SameContents
  <2> SUFFICES ASSUME IInv PROVE SameContents
    OBVIOUS
  <2>1. ASSUME NEW s \in open
        PROVE  /\ Count(history[s]) = Count(meant[s])
               /\ \A i \in Ids(history[s]) : Read(heap, At(history[s], i).files) = At(meant[s], i).files
    <3>1. Reads(Addresses, heap, history[s], meant[s])
      BY Parts
    <3> QED BY <3>1 DEF Reads, FilesRead
  <2> QED BY <2>1 DEF SameContents, IInv
<1> QED BY <1>1, Invariance, PTL

\* A session that merged nothing has one copy of every content whose hash is its own.
THEOREM CopiesSingle == Spec => []OneCopy
<1>1. IInv => OneCopy
  <2> SUFFICES ASSUME IInv, NEW s \in open \ merged PROVE Single(heap, References(history[s]))
    BY DEF OneCopy, Single
  <2> QED BY Parts, HandledSingle
<1> QED BY <1>1, Invariance, PTL
=============================================================================
