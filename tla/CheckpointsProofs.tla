------------------------- MODULE CheckpointsProofs -------------------------
(***************************************************************************)
(* What every edit of a history returns, checkpoint by checkpoint, for     *)
(* every value of the constants.  Provers see At, WithId and Spliced as    *)
(* symbols, so each position needs one fact only.                          *)
(***************************************************************************)
EXTENDS Checkpoints, TLAPS, WellFoundedInduction

\* A history whose head is one of its checkpoints: all the edits are given one.
WellFormed(h) == h \in History /\ h.head < Count(h)

-----------------------------------------------------------------------------
\* A set of naturals that is not empty has a least element: the first checkpoint
\* with a label, the oldest session of a kind.
LEMMA LeastNatural ==
  ASSUME NEW S \in SUBSET Nat, S /= {}
  PROVE  \E m \in S : \A n \in S : m <= n
<1> DEFINE R == {p \in Nat \X Nat : p[1] < p[2]}
<1>1. R = OpToRel(<, Nat)
  BY DEF OpToRel
<1>2. IsWellFoundedOn(R, Nat)
  BY <1>1, NatLessThanWellFounded
<1>3. PICK m \in S : \A n \in S : <<n, m>> \notin R
  BY <1>2, WFMin
<1>4. ASSUME NEW n \in S PROVE m <= n
  <2>1. m \in Nat /\ n \in Nat /\ <<n, m>> \in Nat \X Nat
    OBVIOUS
  <2>2. ~ (n < m)
    BY <1>3, <2>1
  <2> QED BY <2>1, <2>2
<1> QED BY <1>4

\* The operators on file maps return file maps.
LEMMA FileMapFacts ==
  ASSUME NEW base \in FileMap, NEW top \in FileMap, NEW ks \in SUBSET Keys
  PROVE  /\ Overlay(base, top) \in FileMap
         /\ Without(base, ks) \in FileMap
         /\ Only(base, ks) \in FileMap
         /\ NoFiles \in FileMap
  BY DEF FileMap, Overlay, Without, Only, NoFiles

\* The shape of a well-formed history, for the provers.
LEMMA Shape ==
  ASSUME NEW h, WellFormed(h)
  PROVE  /\ h.checkpoints \in Seq(Checkpoint)
         /\ h.head \in Nat
         /\ Count(h) \in Nat
         /\ Count(h) >= 1
         /\ h = [checkpoints |-> h.checkpoints, head |-> h.head]
         /\ \A i \in Ids(h) : At(h, i) \in Checkpoint
         /\ h.head \in Ids(h)
         /\ Current(h) \in Checkpoint
         /\ Current(h).files \in FileMap
<1> USE DEF WellFormed, History, Count
<1>1. /\ h.checkpoints \in Seq(Checkpoint)
      /\ h.head \in Nat
      /\ h = [checkpoints |-> h.checkpoints, head |-> h.head]
  OBVIOUS
<1>2. Count(h) \in Nat /\ h.head < Count(h)
  BY <1>1
<1>3. h.head \in Ids(h) /\ Count(h) >= 1
  BY <1>1, <1>2 DEF Ids
<1>4. \A i \in Ids(h) : At(h, i) \in Checkpoint
  BY <1>1, <1>2 DEF At, Ids
<1> QED BY <1>1, <1>2, <1>3, <1>4 DEF Current, Checkpoint

\* A new history is one checkpoint with id 0.
LEMMA NewHistoryFacts ==
  ASSUME NEW files \in FileMap
  PROVE  /\ WellFormed(NewHistory(files))
         /\ Count(NewHistory(files)) = 1
         /\ At(NewHistory(files), 0) = EmptyCheckpoint(files)
  BY DEF NewHistory, EmptyCheckpoint, WellFormed, History, Checkpoint, Count, At

\* push_checkpoint: what is kept, what is new, where the head is.
LEMMA PushFacts ==
  ASSUME NEW h, WellFormed(h), NEW files \in FileMap, NEW call \in Nat
  PROVE  /\ WellFormed(Push(h, files, call))
         /\ Count(Push(h, files, call)) = h.head + 2
         /\ Push(h, files, call).head = h.head + 1
         /\ \A i \in 0 .. h.head : At(Push(h, files, call), i) = At(h, i)
         /\ At(Push(h, files, call), h.head + 1) =
              [id |-> h.head + 1, files |-> files, label |-> NoLabel, steps |-> {call}]
<1> DEFINE kept == SubSeq(h.checkpoints, 1, h.head + 1)
           new == [id |-> Len(kept), files |-> files, label |-> NoLabel, steps |-> {call}]
           p == Push(h, files, call)
<1>1. /\ h.checkpoints \in Seq(Checkpoint)
      /\ h.head \in Nat
      /\ h.head < Len(h.checkpoints)
  BY Shape DEF WellFormed, Count
<1>2. /\ kept \in Seq(Checkpoint)
      /\ Len(kept) = h.head + 1
      /\ \A i \in 1 .. h.head + 1 : kept[i] = h.checkpoints[i]
  BY <1>1
<1>3. new \in Checkpoint
  BY <1>2, <1>1 DEF Checkpoint
<1>4. p = [checkpoints |-> Append(kept, new), head |-> h.head + 1]
  BY <1>2 DEF Push
<1> HIDE DEF kept, new
<1>5. /\ Append(kept, new) \in Seq(Checkpoint)
      /\ Len(Append(kept, new)) = h.head + 2
      /\ Append(kept, new)[h.head + 2] = new
      /\ \A i \in 1 .. h.head + 1 : Append(kept, new)[i] = h.checkpoints[i]
  BY <1>1, <1>2, <1>3
<1>6. p.checkpoints = Append(kept, new) /\ p.head = h.head + 1
  BY <1>4
<1>7. WellFormed(p) /\ Count(p) = h.head + 2
  BY <1>1, <1>4, <1>5 DEF WellFormed, History, Count
<1>8. \A i \in 0 .. h.head : At(p, i) = At(h, i)
  BY <1>1, <1>5, <1>6 DEF At
<1>9. At(p, h.head + 1) = new
  BY <1>1, <1>5, <1>6 DEF At
<1> QED BY <1>2, <1>6, <1>7, <1>8, <1>9 DEF new

\* Replacing one checkpoint by another one touches nothing else.
LEMMA AmendFacts ==
  ASSUME NEW h, WellFormed(h), NEW i \in Ids(h), NEW cp \in Checkpoint
  PROVE  /\ WellFormed(Amend(h, i, cp))
         /\ Count(Amend(h, i, cp)) = Count(h)
         /\ Amend(h, i, cp).head = h.head
         /\ \A j \in Ids(h) : At(Amend(h, i, cp), j) = IF j = i THEN cp ELSE At(h, j)
<1> DEFINE r == Amend(h, i, cp)
           cps == [h.checkpoints EXCEPT ![i + 1] = cp]
<1>1. /\ h.checkpoints \in Seq(Checkpoint)
      /\ h.head \in Nat
      /\ h.head < Len(h.checkpoints)
      /\ i \in 0 .. Len(h.checkpoints) - 1
  BY Shape DEF WellFormed, Count, Ids
<1>2. r = [checkpoints |-> cps, head |-> h.head]
  BY Shape DEF Amend
<1>3. /\ cps \in Seq(Checkpoint)
      /\ Len(cps) = Len(h.checkpoints)
      /\ \A j \in 1 .. Len(h.checkpoints) :
           cps[j] = IF j = i + 1 THEN cp ELSE h.checkpoints[j]
  BY <1>1
<1> HIDE DEF cps
<1>4. WellFormed(r) /\ Count(r) = Count(h) /\ r.head = h.head
  BY <1>1, <1>2, <1>3 DEF WellFormed, History, Count
<1>5. \A j \in Ids(h) : At(r, j) = IF j = i THEN cp ELSE At(h, j)
  BY <1>1, <1>2, <1>3 DEF At, Ids, Count
<1> QED BY <1>4, <1>5

\* record_step: only the steps of one checkpoint change.
LEMMA RecordStepFacts ==
  ASSUME NEW h, WellFormed(h), NEW i \in Ids(h), NEW call \in Nat
  PROVE  /\ WellFormed(RecordStep(h, i, call))
         /\ Count(RecordStep(h, i, call)) = Count(h)
         /\ RecordStep(h, i, call).head = h.head
         /\ \A j \in Ids(h) : At(RecordStep(h, i, call), j) =
              IF j = i THEN [At(h, i) EXCEPT !.steps = At(h, i).steps \cup {call}]
                       ELSE At(h, j)
<1> DEFINE cp == [At(h, i) EXCEPT !.steps = At(h, i).steps \cup {call}]
<1>1. cp \in Checkpoint
  BY Shape DEF Checkpoint
<1>2. RecordStep(h, i, call) = Amend(h, i, cp)
  BY Shape DEF Ids, RecordStep
<1> HIDE DEF cp
<1>3. /\ WellFormed(Amend(h, i, cp))
      /\ Count(Amend(h, i, cp)) = Count(h)
      /\ Amend(h, i, cp).head = h.head
      /\ \A j \in Ids(h) : At(Amend(h, i, cp), j) = IF j = i THEN cp ELSE At(h, j)
  BY <1>1, AmendFacts
<1> QED BY <1>2, <1>3 DEF cp

\* set_checkpoint_label: only the label of one checkpoint changes.
LEMMA SetLabelFacts ==
  ASSUME NEW h, WellFormed(h), NEW i \in Ids(h), NEW l \in Labels \cup {NoLabel}
  PROVE  /\ WellFormed(SetLabel(h, i, l))
         /\ Count(SetLabel(h, i, l)) = Count(h)
         /\ SetLabel(h, i, l).head = h.head
         /\ \A j \in Ids(h) : At(SetLabel(h, i, l), j) =
              IF j = i THEN [At(h, i) EXCEPT !.label = l] ELSE At(h, j)
<1>1. [At(h, i) EXCEPT !.label = l] \in Checkpoint
  BY Shape DEF Checkpoint
<1> QED BY <1>1, AmendFacts DEF SetLabel

\* rollback: only the head changes.
LEMMA RollbackFacts ==
  ASSUME NEW h, WellFormed(h), NEW i \in Ids(h)
  PROVE  /\ WellFormed(Rollback(h, i))
         /\ Count(Rollback(h, i)) = Count(h)
         /\ Rollback(h, i).head = i
         /\ \A j \in Ids(h) : At(Rollback(h, i), j) = At(h, j)
<1>1. Rollback(h, i) = [checkpoints |-> h.checkpoints, head |-> i]
  BY Shape DEF Rollback
<1> QED BY <1>1, Shape DEF WellFormed, History, Count, Ids, At

-----------------------------------------------------------------------------
(***************************************************************************)
(* Squash and drop: what a splice followed by renumbering holds at each    *)
(* position, and where the head ends up.                                   *)
(***************************************************************************)

\* Concatenation and renumbering, position by position.
LEMMA ConcatFacts ==
  ASSUME NEW S, NEW a \in Seq(S), NEW b \in Seq(S)
  PROVE  /\ a \o b \in Seq(S)
         /\ Len(a \o b) = Len(a) + Len(b)
         /\ \A i \in 1 .. Len(a) : (a \o b)[i] = a[i]
         /\ \A i \in Len(a) + 1 .. Len(a) + Len(b) : (a \o b)[i] = b[i - Len(a)]
  OBVIOUS

\* The loop behind a squash and a drop makes every id the index.
LEMMA RenumberFacts ==
  ASSUME NEW cps \in Seq(Checkpoint)
  PROVE  /\ Renumber(cps) \in Seq(Checkpoint)
         /\ Len(Renumber(cps)) = Len(cps)
         /\ \A i \in 1 .. Len(cps) : Renumber(cps)[i] = WithId(cps[i], i - 1)
<1>1. Len(cps) \in Nat
  OBVIOUS
<1>2. \A i \in 1 .. Len(cps) : WithId(cps[i], i - 1) \in Checkpoint
  <2> SUFFICES ASSUME NEW i \in 1 .. Len(cps)
               PROVE  WithId(cps[i], i - 1) \in Checkpoint
    OBVIOUS
  <2>1. cps[i] \in Checkpoint /\ i - 1 \in Nat
    OBVIOUS
  <2> QED BY <2>1 DEF Checkpoint, WithId
<1> QED BY <1>1, <1>2 DEF Renumber

Spliced(h, from, to, middle) == Renumber(Splice(h.checkpoints, from, to, middle))

\* The vector after a splice: what is below from is left alone, then comes
\* middle, then what was above to, every id the new index.
SplicedAsMeant(h, from, to, middle) ==
  /\ Spliced(h, from, to, middle) \in Seq(Checkpoint)
  /\ Len(Spliced(h, from, to, middle)) = Count(h) - (to - from + 1) + Len(middle)
  /\ \A i \in 0 .. from - 1 :
       Spliced(h, from, to, middle)[i + 1] = WithId(At(h, i), i)
  /\ \A i \in 0 .. Len(middle) - 1 :
       Spliced(h, from, to, middle)[from + i + 1] = WithId(middle[i + 1], from + i)
  /\ \A i \in from + Len(middle) .. Count(h) - (to - from + 1) + Len(middle) - 1 :
       Spliced(h, from, to, middle)[i + 1] =
         WithId(At(h, i + (to - from + 1) - Len(middle)), i)

\* Which checkpoint ends at which index after a splice and a renumbering.
LEMMA SpliceFacts ==
  ASSUME NEW h, WellFormed(h), NEW from \in Nat, NEW to \in Nat, CanEdit(h, from, to),
         NEW middle \in Seq(Checkpoint)
  PROVE  SplicedAsMeant(h, from, to, middle)
<1> DEFINE cps == h.checkpoints
           a == SubSeq(cps, 1, from)
           c == SubSeq(cps, to + 2, Len(cps))
           ab == a \o middle
           raw == ab \o c
<1>1. /\ cps \in Seq(Checkpoint)
      /\ Len(cps) \in Nat
      /\ from >= 1 /\ from <= to /\ to < Len(cps)
  BY Shape DEF CanEdit, Count
<1> HIDE DEF cps
<1>2. /\ a \in Seq(Checkpoint) /\ Len(a) = from
      /\ \A i \in 1 .. from : a[i] = cps[i]
  BY <1>1
<1>3. /\ c \in Seq(Checkpoint) /\ Len(c) = Len(cps) - to - 1
      /\ \A i \in 1 .. Len(c) : c[i] = cps[to + 1 + i]
  BY <1>1
<1> HIDE DEF a, c
<1>4. /\ ab \in Seq(Checkpoint)
      /\ Len(ab) = from + Len(middle)
      /\ \A i \in 1 .. from : ab[i] = a[i]
      /\ \A i \in from + 1 .. from + Len(middle) : ab[i] = middle[i - from]
  BY <1>1, <1>2
<1> HIDE DEF ab
<1> DEFINE n == Len(cps)
           m == Len(middle)
           k == to - from + 1
<1>a. /\ n \in Nat /\ m \in Nat /\ k \in Nat
      /\ Len(ab) = from + m /\ Len(c) = n - from - k
      /\ Len(c) \in Nat
      /\ from + k = to + 1
  BY <1>1, <1>3, <1>4
<1> HIDE DEF n, m, k
<1>5. /\ raw \in Seq(Checkpoint)
      /\ Len(raw) = from + m + Len(c)
      /\ \A i \in 1 .. from + m : raw[i] = ab[i]
      /\ \A i \in from + m + 1 .. from + m + Len(c) : raw[i] = c[i - (from + m)]
  <2>1. /\ raw \in Seq(Checkpoint)
        /\ Len(raw) = Len(ab) + Len(c)
        /\ \A i \in 1 .. Len(ab) : raw[i] = ab[i]
        /\ \A i \in Len(ab) + 1 .. Len(ab) + Len(c) : raw[i] = c[i - Len(ab)]
    BY <1>3, <1>4, ConcatFacts
  <2> HIDE DEF raw
  <2> QED BY <2>1, <1>a
<1> HIDE DEF raw
<1> DEFINE spliced == Renumber(raw)
<1>6. /\ Len(raw) \in Nat
      /\ Len(raw) = n - k + m
  BY <1>5, <1>a
<1>7. /\ spliced \in Seq(Checkpoint)
      /\ Len(spliced) = Len(raw)
      /\ \A i \in 1 .. Len(raw) : spliced[i] = WithId(raw[i], i - 1)
  BY <1>5, RenumberFacts
<1> HIDE DEF spliced
<1>8. \A i \in 0 .. from - 1 : spliced[i + 1] = WithId(At(h, i), i)
  <2> SUFFICES ASSUME NEW i \in 0 .. from - 1
               PROVE  spliced[i + 1] = WithId(At(h, i), i)
    OBVIOUS
  <2>1. /\ i + 1 \in 1 .. from + m /\ i + 1 \in 1 .. from
        /\ i + 1 \in 1 .. Len(raw) /\ i + 1 - 1 = i
    BY <1>5, <1>a
  <2>2. raw[i + 1] = cps[i + 1]
    BY <2>1, <1>2, <1>4, <1>5
  <2> QED BY <2>1, <2>2, <1>7 DEF At, cps
<1>9. \A i \in 0 .. m - 1 : spliced[from + i + 1] = WithId(middle[i + 1], from + i)
  <2> SUFFICES ASSUME NEW i \in 0 .. m - 1
               PROVE  spliced[from + i + 1] = WithId(middle[i + 1], from + i)
    OBVIOUS
  <2>1. /\ from + i + 1 \in 1 .. from + m
        /\ from + i + 1 \in from + 1 .. from + m
        /\ from + i + 1 \in 1 .. Len(raw)
        /\ from + i + 1 - from = i + 1
        /\ from + i + 1 - 1 = from + i
    BY <1>5, <1>a
  <2>2. raw[from + i + 1] = middle[i + 1]
    BY <2>1, <1>4, <1>5 DEF m
  <2> QED BY <2>1, <2>2, <1>7
<1>10. \A i \in from + m .. n - k + m - 1 : spliced[i + 1] = WithId(At(h, i + k - m), i)
  <2> SUFFICES ASSUME NEW i \in from + m .. n - k + m - 1
               PROVE  spliced[i + 1] = WithId(At(h, i + k - m), i)
    OBVIOUS
  <2>1. /\ from + m \in Nat /\ i \in Nat
        /\ i + 1 \in from + m + 1 .. from + m + Len(c)
        /\ i + 1 \in 1 .. from + m + Len(c)
        /\ i + 1 - (from + m) \in 1 .. Len(c)
        /\ i + 1 - 1 = i
    BY <1>a
  <2>2. raw[i + 1] = cps[to + 1 + (i + 1 - (from + m))]
    <3>1. raw[i + 1] = c[i + 1 - (from + m)]
      BY <2>1, <1>5
    <3> QED BY <3>1, <2>1, <1>3
  <2>3. i + k - m + 1 = to + 1 + (i + 1 - (from + m))
    BY <2>1, <1>a
  <2>4. At(h, i + k - m) = raw[i + 1]
    BY <2>2, <2>3 DEF At, cps
  <2>5. spliced[i + 1] = WithId(raw[i + 1], i)
    BY <2>1, <1>5, <1>7
  <2> QED BY <2>4, <2>5
<1> QED
  BY <1>6, <1>7, <1>8, <1>9, <1>10
  DEF spliced, raw, ab, a, c, n, m, k, Splice, Spliced, SplicedAsMeant, Count, cps

\* squash_checkpoints: length, head and every checkpoint of the result.
LEMMA SquashFacts ==
  ASSUME NEW h, WellFormed(h), NEW from \in Nat, NEW to \in Nat, CanSquash(h, from, to),
         NEW l \in Labels \cup {NoLabel}
  PROVE  /\ WellFormed(Squash(h, from, to, l))
         /\ Count(Squash(h, from, to, l)) = Count(h) - (to - from)
         /\ Squash(h, from, to, l).head = SquashedHead(h, from, to)
         /\ \A i \in 0 .. from - 1 : At(Squash(h, from, to, l), i) = WithId(At(h, i), i)
         /\ At(Squash(h, from, to, l), from) =
              [id |-> from, files |-> At(h, to).files, label |-> l,
               steps |-> UNION {At(h, i).steps : i \in from .. to}]
         /\ \A i \in from + 1 .. Count(h) - (to - from) - 1 :
              At(Squash(h, from, to, l), i) = WithId(At(h, i + (to - from)), i)
<1> DEFINE cp == [id |-> from, files |-> At(h, to).files, label |-> l,
                  steps |-> UNION {At(h, i).steps : i \in from .. to}]
           middle == <<cp>>
           cps == Spliced(h, from, to, middle)
           s == Squash(h, from, to, l)
<1>1. /\ Count(h) \in Nat /\ h.head \in Nat /\ h.head < Count(h)
      /\ from >= 1 /\ from <= to /\ to < Count(h)
      /\ CanEdit(h, from, to)
  BY Shape DEF WellFormed, CanSquash, CanEdit
<1>2. cp \in Checkpoint
  <2>1. \A i \in from .. to : At(h, i) \in Checkpoint
    BY <1>1, Shape DEF Ids
  <2>2. At(h, to).files \in FileMap
    BY <1>1, <2>1 DEF Checkpoint
  <2>3. (UNION {At(h, i).steps : i \in from .. to}) \in SUBSET Nat
    BY <2>1 DEF Checkpoint
  <2> QED BY <2>2, <2>3 DEF Checkpoint
<1> HIDE DEF cp
<1>3. middle \in Seq(Checkpoint) /\ Len(middle) = 1 /\ middle[1] = cp
  BY <1>2
<1> HIDE DEF middle
<1>4. /\ cps \in Seq(Checkpoint)
      /\ Len(cps) = Count(h) - (to - from)
      /\ \A i \in 0 .. from - 1 : cps[i + 1] = WithId(At(h, i), i)
      /\ cps[from + 1] = WithId(cp, from)
      /\ \A i \in from + 1 .. Count(h) - (to - from) - 1 :
           cps[i + 1] = WithId(At(h, i + (to - from)), i)
  <2>1. /\ cps \in Seq(Checkpoint)
        /\ Len(cps) = Count(h) - (to - from + 1) + Len(middle)
        /\ \A i \in 0 .. from - 1 : cps[i + 1] = WithId(At(h, i), i)
        /\ \A i \in 0 .. Len(middle) - 1 :
             cps[from + i + 1] = WithId(middle[i + 1], from + i)
        /\ \A i \in from + Len(middle) .. Count(h) - (to - from + 1) + Len(middle) - 1 :
             cps[i + 1] = WithId(At(h, i + (to - from + 1) - Len(middle)), i)
    <3>1. SplicedAsMeant(h, from, to, middle)
      BY <1>1, <1>3, SpliceFacts
    <3> QED BY <3>1 DEF SplicedAsMeant
  <2> HIDE DEF cps
  <2>2. cps[from + 1] = WithId(cp, from)
    <3>1. 0 \in 0 .. Len(middle) - 1 /\ from + 0 + 1 = from + 1 /\ 0 + 1 = 1 /\ from + 0 = from
      BY <1>1, <1>3
    <3>2. cps[from + 0 + 1] = WithId(middle[0 + 1], from + 0)
      BY <2>1, <3>1
    <3> QED BY <1>3, <3>1, <3>2
  <2>3. ASSUME NEW i \in from + 1 .. Count(h) - (to - from) - 1
        PROVE  cps[i + 1] = WithId(At(h, i + (to - from)), i)
    <3>1. /\ i \in from + Len(middle) .. Count(h) - (to - from + 1) + Len(middle) - 1
          /\ i + (to - from + 1) - Len(middle) = i + (to - from)
      BY <1>1, <1>3
    <3> QED BY <2>1, <3>1
  <2>4. Len(cps) = Count(h) - (to - from)
    BY <1>1, <1>3, <2>1
  <2> QED BY <2>1, <2>2, <2>3, <2>4
<1>5. s = [checkpoints |-> cps, head |-> SquashedHead(h, from, to)]
  BY DEF Squash, Spliced, cp, middle
<1> HIDE DEF cps
<1>6. Len(cps) = Count(h) - (to - from) /\ SquashedHead(h, from, to) \in 0 .. Len(cps) - 1
  BY <1>1, <1>4 DEF SquashedHead
<1>7. WellFormed(s) /\ Count(s) = Len(cps) /\ s.head = SquashedHead(h, from, to)
  BY <1>4, <1>5, <1>6 DEF WellFormed, History, Count
<1>8. \A i \in 0 .. from - 1 : At(s, i) = WithId(At(h, i), i)
  BY <1>4, <1>5 DEF At
<1>9. At(s, from) = cp
  <2>1. WithId(cp, from) = cp
    BY DEF cp, WithId
  <2> QED BY <2>1, <1>4, <1>5 DEF At
<1>10. \A i \in from + 1 .. Count(h) - (to - from) - 1 :
         At(s, i) = WithId(At(h, i + (to - from)), i)
  BY <1>4, <1>5 DEF At
<1> QED BY <1>6, <1>7, <1>8, <1>9, <1>10 DEF cp

\* drop_checkpoints: length, head and every checkpoint of the result.
LEMMA DropFacts ==
  ASSUME NEW h, WellFormed(h), NEW from \in Nat, NEW to \in Nat, CanDrop(h, from, to)
  PROVE  /\ WellFormed(Drop(h, from, to))
         /\ Count(Drop(h, from, to)) = Count(h) - (to - from + 1)
         /\ Drop(h, from, to).head = DroppedHead(h, from, to)
         /\ \A i \in 0 .. from - 1 : At(Drop(h, from, to), i) = WithId(At(h, i), i)
         /\ \A i \in from .. Count(h) - (to - from + 1) - 1 :
              At(Drop(h, from, to), i) = WithId(At(h, i + (to - from + 1)), i)
<1> DEFINE middle == <<>>
           cps == Spliced(h, from, to, middle)
           d == Drop(h, from, to)
<1>1. /\ Count(h) \in Nat /\ h.head \in Nat /\ h.head < Count(h)
      /\ from >= 1 /\ from <= to /\ to < Count(h)
      /\ h.head < from \/ h.head > to
      /\ CanEdit(h, from, to)
  BY Shape DEF WellFormed, CanDrop, CanEdit
<1>2. middle \in Seq(Checkpoint) /\ Len(middle) = 0
  OBVIOUS
<1> HIDE DEF middle
<1>3. /\ cps \in Seq(Checkpoint)
      /\ Len(cps) = Count(h) - (to - from + 1)
      /\ \A i \in 0 .. from - 1 : cps[i + 1] = WithId(At(h, i), i)
      /\ \A i \in from .. Count(h) - (to - from + 1) - 1 :
           cps[i + 1] = WithId(At(h, i + (to - from + 1)), i)
  <2>1. /\ cps \in Seq(Checkpoint)
        /\ Len(cps) = Count(h) - (to - from + 1) + Len(middle)
        /\ \A i \in 0 .. from - 1 : cps[i + 1] = WithId(At(h, i), i)
        /\ \A i \in from + Len(middle) .. Count(h) - (to - from + 1) + Len(middle) - 1 :
             cps[i + 1] = WithId(At(h, i + (to - from + 1) - Len(middle)), i)
    <3>1. SplicedAsMeant(h, from, to, middle)
      BY <1>1, <1>2, SpliceFacts
    <3> QED BY <3>1 DEF SplicedAsMeant
  <2> HIDE DEF cps
  <2>2. ASSUME NEW i \in from .. Count(h) - (to - from + 1) - 1
        PROVE  cps[i + 1] = WithId(At(h, i + (to - from + 1)), i)
    <3>1. /\ i \in from + Len(middle) .. Count(h) - (to - from + 1) + Len(middle) - 1
          /\ i + (to - from + 1) - Len(middle) = i + (to - from + 1)
      BY <1>1, <1>2
    <3> QED BY <2>1, <3>1
  <2> QED BY <1>1, <1>2, <2>1, <2>2
<1>4. d = [checkpoints |-> cps, head |-> DroppedHead(h, from, to)]
  BY DEF Drop, Spliced, middle
<1> HIDE DEF cps
<1>5. /\ Len(cps) = Count(h) - (to - from + 1)
      /\ DroppedHead(h, from, to) \in 0 .. Len(cps) - 1
  BY <1>1, <1>3 DEF DroppedHead
<1>6. WellFormed(d) /\ Count(d) = Len(cps) /\ d.head = DroppedHead(h, from, to)
  BY <1>3, <1>4, <1>5 DEF WellFormed, History, Count
<1>7. \A i \in 0 .. from - 1 : At(d, i) = WithId(At(h, i), i)
  BY <1>3, <1>4 DEF At
<1>8. \A i \in from .. Count(h) - (to - from + 1) - 1 :
        At(d, i) = WithId(At(h, i + (to - from + 1)), i)
  BY <1>3, <1>4 DEF At
<1> QED BY <1>5, <1>6, <1>7, <1>8

-----------------------------------------------------------------------------
(***************************************************************************)
(* What every edit keeps of a history within its limits.                   *)
(***************************************************************************)

\* Ids are indices, and both limits hold of every checkpoint.
Indexed(h) == \A i \in Ids(h) : At(h, i).id = i
Limited(h) == /\ Count(h) <= MaxCheckpoints
              /\ \A i \in Ids(h) : Fits(At(h, i).files)

\* What every edit keeps of a history.
Sound(h) == WellFormed(h) /\ Indexed(h) /\ Limited(h)

\* A new session, and a fork of files that fit, is sound.
LEMMA NewHistorySound ==
  ASSUME NEW files \in FileMap, Fits(files)
  PROVE  Sound(NewHistory(files))
<1>1. /\ WellFormed(NewHistory(files))
      /\ Count(NewHistory(files)) = 1
      /\ At(NewHistory(files), 0) = EmptyCheckpoint(files)
  BY NewHistoryFacts
<1>2. Ids(NewHistory(files)) = {0}
  BY <1>1 DEF Ids
<1>3. EmptyCheckpoint(files).id = 0 /\ EmptyCheckpoint(files).files = files
  BY DEF EmptyCheckpoint
<1> QED BY <1>1, <1>2, <1>3, LimitAssumption DEF Sound, Indexed, Limited

\* A push that is let through at all stays within the limit, because the
\* limit is checked on the vector before its tail is cut off.
LEMMA PushSound ==
  ASSUME NEW h, Sound(h), ~LimitReached(h, MaxCheckpoints), NEW files \in FileMap, Fits(files),
         NEW call \in Nat
  PROVE  Sound(Push(h, files, call))
<1> DEFINE p == Push(h, files, call)
<1>1. /\ WellFormed(p)
      /\ Count(p) = h.head + 2
      /\ \A i \in 0 .. h.head : At(p, i) = At(h, i)
      /\ At(p, h.head + 1).id = h.head + 1
      /\ At(p, h.head + 1).files = files
  <2>1. WellFormed(h)
    BY DEF Sound
  <2>2. At(p, h.head + 1) =
          [id |-> h.head + 1, files |-> files, label |-> NoLabel, steps |-> {call}]
    BY <2>1, PushFacts
  <2>3. At(p, h.head + 1).id = h.head + 1 /\ At(p, h.head + 1).files = files
    BY <2>2
  <2> QED BY <2>1, <2>3, PushFacts
<1>2. /\ h.head \in Nat /\ Count(h) \in Nat /\ h.head < Count(h)
      /\ Count(h) < MaxCheckpoints
  BY Shape, LimitAssumption DEF Sound, WellFormed, LimitReached
<1>3. Ids(p) = (0 .. h.head) \cup {h.head + 1} /\ 0 .. h.head \subseteq Ids(h)
  BY <1>1, <1>2 DEF Ids
<1> HIDE DEF p
<1>4. Count(p) <= MaxCheckpoints
  BY <1>1, <1>2, LimitAssumption
<1>5. \A i \in Ids(p) : At(p, i).id = i /\ Fits(At(p, i).files)
  <2>1. \A i \in 0 .. h.head : At(p, i).id = i /\ Fits(At(p, i).files)
    BY <1>1, <1>3 DEF Sound, Indexed, Limited
  <2> QED BY <1>1, <1>3, <2>1
<1> QED BY <1>1, <1>4, <1>5 DEF Sound, Indexed, Limited, p

\* Recording a step (record_step) changes no id, no files and no length.
LEMMA RecordStepSound ==
  ASSUME NEW h, Sound(h), NEW i \in Ids(h), NEW call \in Nat
  PROVE  Sound(RecordStep(h, i, call))
<1> DEFINE r == RecordStep(h, i, call)
           cp == [At(h, i) EXCEPT !.steps = At(h, i).steps \cup {call}]
<1>1. /\ WellFormed(r)
      /\ Count(r) = Count(h)
      /\ \A j \in Ids(h) : At(r, j) = IF j = i THEN cp ELSE At(h, j)
  BY RecordStepFacts DEF Sound
<1>2. At(h, i) \in Checkpoint
  BY Shape DEF Sound
<1>3. cp.id = At(h, i).id /\ cp.files = At(h, i).files
  BY <1>2 DEF Checkpoint
<1>4. Ids(r) = Ids(h)
  BY <1>1 DEF Ids
<1> HIDE DEF r, cp
<1> QED BY <1>1, <1>3, <1>4 DEF Sound, Indexed, Limited, r

\* A label changes no id, no files and no length.
LEMMA SetLabelSound ==
  ASSUME NEW h, Sound(h), NEW i \in Ids(h), NEW l \in Labels \cup {NoLabel}
  PROVE  Sound(SetLabel(h, i, l)) /\ Ids(SetLabel(h, i, l)) = Ids(h)
<1> DEFINE r == SetLabel(h, i, l)
           cp == [At(h, i) EXCEPT !.label = l]
<1>1. /\ WellFormed(r)
      /\ Count(r) = Count(h)
      /\ \A j \in Ids(h) : At(r, j) = IF j = i THEN cp ELSE At(h, j)
  BY SetLabelFacts DEF Sound
<1>2. At(h, i) \in Checkpoint
  BY Shape DEF Sound
<1>3. cp.id = At(h, i).id /\ cp.files = At(h, i).files
  BY <1>2 DEF Checkpoint
<1>4. Ids(r) = Ids(h)
  BY <1>1 DEF Ids
<1> HIDE DEF r, cp
<1> QED BY <1>1, <1>3, <1>4 DEF Sound, Indexed, Limited, r

\* A rollback moves the head inside the vector and touches no checkpoint.
LEMMA RollbackSound ==
  ASSUME NEW h, Sound(h), NEW i \in Ids(h)
  PROVE  /\ Sound(Rollback(h, i))
         /\ Ids(Rollback(h, i)) = Ids(h)
         /\ Rollback(h, i).head = i
<1>1. /\ WellFormed(Rollback(h, i))
      /\ Count(Rollback(h, i)) = Count(h)
      /\ Rollback(h, i).head = i
      /\ \A j \in Ids(h) : At(Rollback(h, i), j) = At(h, j)
  BY RollbackFacts DEF Sound
<1>2. Ids(Rollback(h, i)) = Ids(h)
  BY <1>1 DEF Ids
<1> QED BY <1>1, <1>2 DEF Sound, Indexed, Limited

\* What renumbering does to one checkpoint.
LEMMA WithIdFacts ==
  ASSUME NEW cp \in Checkpoint, NEW i \in Nat
  PROVE  /\ WithId(cp, i).id = i
         /\ WithId(cp, i).files = cp.files
         /\ WithId(cp, i).steps = cp.steps
  BY DEF WithId, Checkpoint

\* A squash renumbers what is left, shortens the vector and keeps the head in it.
LEMMA SquashSound ==
  ASSUME NEW h, Sound(h), NEW from \in Nat, NEW to \in Nat, CanSquash(h, from, to),
         NEW l \in Labels \cup {NoLabel}
  PROVE  Sound(Squash(h, from, to, l)) /\ from \in Ids(Squash(h, from, to, l))
<1> DEFINE s == Squash(h, from, to, l)
           gone == to - from
<1>1. /\ WellFormed(s)
      /\ Count(s) = Count(h) - gone
      /\ \A i \in 0 .. from - 1 : At(s, i) = WithId(At(h, i), i)
      /\ At(s, from).id = from /\ At(s, from).files = At(h, to).files
      /\ \A i \in from + 1 .. Count(h) - gone - 1 : At(s, i) = WithId(At(h, i + gone), i)
  BY SquashFacts DEF Sound
<1>2. Count(h) \in Nat /\ from >= 1 /\ from <= to /\ to < Count(h) /\ gone \in Nat
  BY Shape DEF Sound, CanSquash, CanEdit
<1>3. to \in Ids(h)
  BY <1>2 DEF Ids
<1> HIDE DEF s
<1>4. ASSUME NEW i \in Ids(s)
      PROVE  At(s, i).id = i /\ Fits(At(s, i).files)
  <2>1. i \in Nat /\ i < Count(h) - gone
    BY <1>1, <1>2 DEF Ids
  <2>2. CASE i \in 0 .. from - 1
    <3>1. i \in Ids(h)
      BY <1>2, <2>2 DEF Ids
    <3>2. At(h, i) \in Checkpoint /\ Fits(At(h, i).files)
      BY <3>1, Shape DEF Sound, Limited
    <3> QED BY <1>1, <2>1, <2>2, <3>2, WithIdFacts
  <2>3. CASE i = from
    BY <1>1, <1>3, <2>3 DEF Sound, Limited
  <2>4. CASE i \in from + 1 .. Count(h) - gone - 1
    <3>1. i + gone \in Ids(h)
      BY <1>2, <2>1, <2>4 DEF Ids
    <3>2. At(h, i + gone) \in Checkpoint /\ Fits(At(h, i + gone).files)
      BY <3>1, Shape DEF Sound, Limited
    <3>3. At(s, i) = WithId(At(h, i + gone), i)
      BY <1>1, <2>4
    <3> HIDE DEF gone
    <3> QED BY <2>1, <3>2, <3>3, WithIdFacts
  <2>5. i \in 0 .. from - 1 \/ i = from \/ i \in from + 1 .. Count(h) - gone - 1
    BY <1>2, <2>1
  <2> QED BY <2>2, <2>3, <2>4, <2>5
<1>5. Count(s) <= MaxCheckpoints
  BY <1>1, <1>2, LimitAssumption DEF Sound, Limited
<1>6. from \in Ids(s)
  BY <1>1, <1>2 DEF Ids
<1> QED BY <1>1, <1>4, <1>5, <1>6 DEF Sound, Indexed, Limited, s

\* A drop renumbers what is left, shortens the vector and keeps the head in it.
LEMMA DropSound ==
  ASSUME NEW h, Sound(h), NEW from \in Nat, NEW to \in Nat, CanDrop(h, from, to)
  PROVE  Sound(Drop(h, from, to))
<1> DEFINE d == Drop(h, from, to)
           gone == to - from + 1
<1>1. /\ WellFormed(d)
      /\ Count(d) = Count(h) - gone
      /\ \A i \in 0 .. from - 1 : At(d, i) = WithId(At(h, i), i)
      /\ \A i \in from .. Count(h) - gone - 1 : At(d, i) = WithId(At(h, i + gone), i)
  BY DropFacts DEF Sound
<1>2. Count(h) \in Nat /\ from >= 1 /\ from <= to /\ to < Count(h) /\ gone \in Nat
  BY Shape DEF Sound, CanDrop, CanEdit
<1> HIDE DEF d
<1>3. ASSUME NEW i \in Ids(d)
      PROVE  At(d, i).id = i /\ Fits(At(d, i).files)
  <2>1. i \in Nat /\ i < Count(h) - gone
    BY <1>1, <1>2 DEF Ids
  <2>2. CASE i \in 0 .. from - 1
    <3>1. i \in Ids(h)
      BY <1>2, <2>2 DEF Ids
    <3>2. At(h, i) \in Checkpoint /\ Fits(At(h, i).files)
      BY <3>1, Shape DEF Sound, Limited
    <3> QED BY <1>1, <2>1, <2>2, <3>2, WithIdFacts
  <2>3. CASE i \in from .. Count(h) - gone - 1
    <3>1. i + gone \in Ids(h)
      BY <1>2, <2>1, <2>3 DEF Ids
    <3>2. At(h, i + gone) \in Checkpoint /\ Fits(At(h, i + gone).files)
      BY <3>1, Shape DEF Sound, Limited
    <3>3. At(d, i) = WithId(At(h, i + gone), i)
      BY <1>1, <2>3
    <3> HIDE DEF gone
    <3> QED BY <2>1, <3>2, <3>3, WithIdFacts
  <2>4. i \in 0 .. from - 1 \/ i \in from .. Count(h) - gone - 1
    BY <1>2, <2>1
  <2> QED BY <2>2, <2>3, <2>4
<1>4. Count(d) <= MaxCheckpoints
  BY <1>1, <1>2, LimitAssumption DEF Sound, Limited
<1> QED BY <1>1, <1>3, <1>4 DEF Sound, Indexed, Limited, d

\* No edit touches the files of checkpoint 0: a push cuts off behind the head, and
\* neither a squash nor a drop may take checkpoint 0.
LEMMA FirstKept ==
  ASSUME NEW h, WellFormed(h)
  PROVE  /\ \A files \in FileMap, call \in Nat :
              At(Push(h, files, call), 0).files = At(h, 0).files
         /\ \A i \in Ids(h), call \in Nat :
              At(RecordStep(h, i, call), 0).files = At(h, 0).files
         /\ \A i \in Ids(h) : At(Rollback(h, i), 0).files = At(h, 0).files
         /\ \A from, to \in Nat, l \in Labels \cup {NoLabel} : CanSquash(h, from, to) =>
              At(Squash(h, from, to, l), 0).files = At(h, 0).files
         /\ \A from, to \in Nat : CanDrop(h, from, to) =>
              At(Drop(h, from, to), 0).files = At(h, 0).files
<1>1. 0 \in Ids(h) /\ 0 \in 0 .. h.head /\ At(h, 0) \in Checkpoint
  BY Shape DEF Ids
<1>2. ASSUME NEW files \in FileMap, NEW call \in Nat
      PROVE  At(Push(h, files, call), 0).files = At(h, 0).files
  BY <1>1, PushFacts
<1>3. ASSUME NEW i \in Ids(h), NEW call \in Nat
      PROVE  At(RecordStep(h, i, call), 0).files = At(h, 0).files
  <2>1. At(RecordStep(h, i, call), 0) =
          IF 0 = i THEN [At(h, i) EXCEPT !.steps = At(h, i).steps \cup {call}] ELSE At(h, 0)
    BY <1>1, RecordStepFacts
  <2> QED BY <1>1, <2>1 DEF Checkpoint
<1>4. ASSUME NEW i \in Ids(h) PROVE At(Rollback(h, i), 0).files = At(h, 0).files
  BY <1>1, RollbackFacts
<1>5. ASSUME NEW from \in Nat, NEW to \in Nat, NEW l \in Labels \cup {NoLabel},
             CanSquash(h, from, to)
      PROVE  At(Squash(h, from, to, l), 0).files = At(h, 0).files
  <2>1. 0 \in 0 .. from - 1
    BY <1>5 DEF CanSquash, CanEdit
  <2>2. At(Squash(h, from, to, l), 0) = WithId(At(h, 0), 0)
    BY <1>5, <2>1, SquashFacts
  <2> QED BY <1>1, <2>2, WithIdFacts
<1>6. ASSUME NEW from \in Nat, NEW to \in Nat, CanDrop(h, from, to)
      PROVE  At(Drop(h, from, to), 0).files = At(h, 0).files
  <2>1. 0 \in 0 .. from - 1
    BY <1>6 DEF CanDrop, CanEdit
  <2>2. At(Drop(h, from, to), 0) = WithId(At(h, 0), 0)
    BY <1>6, <2>1, DropFacts
  <2> QED BY <1>1, <2>2, WithIdFacts
<1> QED BY <1>2, <1>3, <1>4, <1>5, <1>6

-----------------------------------------------------------------------------
(***************************************************************************)
(* Squash and drop as one operation: the checkpoints of s are runs of      *)
(* checkpoints of h, in order, each with the files of the last checkpoint  *)
(* of its run and the steps of all of it.  Drop's runs are single          *)
(* checkpoints; what is in no run is gone.                                 *)
(***************************************************************************)
StepsOf(h, a, b) == UNION {At(h, m).steps : m \in a .. b}

Contracts(h, s, lo, hi) ==
  /\ Count(s) <= Count(h)
  /\ lo \in [Ids(s) -> Ids(h)] /\ hi \in [Ids(s) -> Ids(h)]
  /\ lo[0] = 0 /\ hi[0] = 0
  /\ \A i \in Ids(s) : lo[i] <= hi[i]
  /\ \A i, j \in Ids(s) : i < j => hi[i] < lo[j]
  /\ \A i \in Ids(s) : /\ At(s, i).files = At(h, hi[i]).files
                       /\ At(s, i).steps = StepsOf(h, lo[i], hi[i])
  /\ hi[s.head] >= h.head
  /\ s.head > 0 => hi[s.head - 1] < h.head

\* A run of one checkpoint.
LEMMA SingleRun ==
  ASSUME NEW h, NEW i \in Nat
  PROVE  StepsOf(h, i, i) = At(h, i).steps
<1>1. i .. i = {i}
  OBVIOUS
<1> QED BY <1>1 DEF StepsOf

\* The run of a checkpoint that a squash leaves ends where its files are from.
SquashLo(h, from, to) ==
  [i \in 0 .. Count(h) - (to - from) - 1 |-> IF i <= from THEN i ELSE i + (to - from)]
SquashHi(h, from, to) ==
  [i \in 0 .. Count(h) - (to - from) - 1 |-> IF i < from THEN i ELSE i + (to - from)]

\* A squash keeps a run of the old checkpoints for each that it leaves, in order.
LEMMA SquashContracts ==
  ASSUME NEW h, WellFormed(h), NEW from \in Nat, NEW to \in Nat, CanSquash(h, from, to),
         NEW l \in Labels \cup {NoLabel}
  PROVE  Contracts(h, Squash(h, from, to, l), SquashLo(h, from, to), SquashHi(h, from, to))
<1> DEFINE s == Squash(h, from, to, l)
           lo == SquashLo(h, from, to)
           hi == SquashHi(h, from, to)
<1>a. from >= 1 /\ from <= to /\ to < Count(h)
  BY DEF CanSquash, CanEdit
<1>b. PICK gone \in Nat : gone = to - from
  BY <1>a
<1>1. /\ WellFormed(s)
      /\ Count(s) = Count(h) - gone
      /\ s.head = SquashedHead(h, from, to)
      /\ \A i \in 0 .. from - 1 : At(s, i) = WithId(At(h, i), i)
      /\ At(s, from).files = At(h, to).files
      /\ At(s, from).steps = StepsOf(h, from, to)
      /\ \A i \in from + 1 .. Count(h) - gone - 1 : At(s, i) = WithId(At(h, i + gone), i)
  BY <1>b, SquashFacts DEF StepsOf
<1>2. /\ Count(h) \in Nat /\ from >= 1 /\ from <= to /\ to < Count(h) /\ gone \in Nat
      /\ from + gone = to /\ h.head \in Nat /\ h.head < Count(h)
      /\ \A i \in Ids(h) : At(h, i) \in Checkpoint
  BY <1>a, <1>b, Shape DEF WellFormed
<1> HIDE DEF s
<1>3. /\ Ids(s) = 0 .. Count(h) - gone - 1 /\ Ids(h) = 0 .. Count(h) - 1
      /\ s.head = (IF h.head \in from .. to THEN from
                   ELSE IF h.head > to THEN h.head - gone ELSE h.head)
      /\ s.head \in Ids(s)
  BY <1>1, <1>b, Shape DEF Ids, SquashedHead
<1>4. /\ lo = [i \in Ids(s) |-> IF i <= from THEN i ELSE i + gone]
      /\ hi = [i \in Ids(s) |-> IF i < from THEN i ELSE i + gone]
  BY <1>b, <1>3 DEF SquashLo, SquashHi
<1> HIDE DEF lo, hi
<1>5. /\ lo \in [Ids(s) -> Ids(h)] /\ hi \in [Ids(s) -> Ids(h)]
      /\ 0 \in Ids(s) /\ lo[0] = 0 /\ hi[0] = 0
      /\ \A i \in Ids(s) : lo[i] <= hi[i]
  BY <1>2, <1>3, <1>4
<1>6. \A i, j \in Ids(s) : i < j => hi[i] < lo[j]
  BY <1>2, <1>3, <1>4
<1>7. ASSUME NEW i \in Ids(s)
      PROVE  At(s, i).files = At(h, hi[i]).files /\ At(s, i).steps = StepsOf(h, lo[i], hi[i])
  <2>1. CASE i < from
    <3>1. i \in 0 .. from - 1 /\ i \in Ids(h) /\ i \in Nat /\ lo[i] = i /\ hi[i] = i
      BY <1>2, <1>3, <1>4, <2>1
    <3> QED BY <1>1, <1>2, <3>1, WithIdFacts, SingleRun
  <2>2. CASE i = from
    <3>1. lo[i] = from /\ hi[i] = to
      BY <1>2, <1>3, <1>4, <2>2
    <3> QED BY <1>1, <2>2, <3>1
  <2>3. CASE i > from
    <3>1. /\ i \in from + 1 .. Count(h) - gone - 1 /\ i + gone \in Ids(h) /\ i \in Nat
          /\ i + gone \in Nat /\ lo[i] = i + gone /\ hi[i] = i + gone
      BY <1>2, <1>3, <1>4, <2>3
    <3> QED BY <1>1, <1>2, <3>1, WithIdFacts, SingleRun
  <2>4. i < from \/ i = from \/ i > from
    BY <1>3
  <2> QED BY <2>1, <2>2, <2>3, <2>4
<1>8. hi[s.head] >= h.head /\ (s.head > 0 => hi[s.head - 1] < h.head)
  <2>1. s.head > 0 => s.head - 1 \in Ids(s)
    BY <1>2, <1>3
  <2> QED BY <1>2, <1>3, <1>4, <2>1
<1>9. Count(s) <= Count(h)
  BY <1>1, <1>2
<1> QED BY <1>5, <1>6, <1>7, <1>8, <1>9 DEF Contracts, s, lo, hi

\* Where a checkpoint that a drop leaves was.
DropOrigin(h, from, to) ==
  [i \in 0 .. Count(h) - (to - from + 1) - 1 |-> IF i < from THEN i ELSE i + (to - from + 1)]

\* A drop keeps the checkpoints outside its range, in order, and the head stays on the
\* old one whose files are current.
LEMMA DropContracts ==
  ASSUME NEW h, WellFormed(h), NEW from \in Nat, NEW to \in Nat, CanDrop(h, from, to)
  PROVE  /\ Contracts(h, Drop(h, from, to), DropOrigin(h, from, to), DropOrigin(h, from, to))
         /\ DropOrigin(h, from, to)[Drop(h, from, to).head] = h.head
<1> DEFINE s == Drop(h, from, to)
           o == DropOrigin(h, from, to)
           gone == to - from + 1
<1>1. /\ WellFormed(s)
      /\ Count(s) = Count(h) - gone
      /\ s.head = DroppedHead(h, from, to)
      /\ \A i \in 0 .. from - 1 : At(s, i) = WithId(At(h, i), i)
      /\ \A i \in from .. Count(h) - gone - 1 : At(s, i) = WithId(At(h, i + gone), i)
  BY DropFacts
<1>2. /\ Count(h) \in Nat /\ from >= 1 /\ from <= to /\ to < Count(h) /\ gone \in Nat
      /\ from + gone = to + 1 /\ h.head \in Nat /\ h.head < Count(h)
      /\ h.head < from \/ h.head > to
      /\ \A i \in Ids(h) : At(h, i) \in Checkpoint
  BY Shape DEF CanDrop, CanEdit, WellFormed
<1> HIDE DEF s
<1>3. /\ Ids(s) = 0 .. Count(h) - gone - 1 /\ Ids(h) = 0 .. Count(h) - 1
      /\ s.head = (IF h.head > to THEN h.head - gone ELSE h.head)
      /\ s.head \in Ids(s)
  BY <1>1, Shape DEF Ids, DroppedHead
<1>4. o = [i \in Ids(s) |-> IF i < from THEN i ELSE i + gone]
  BY <1>3 DEF DropOrigin
<1> HIDE DEF o, gone
<1>5. /\ o \in [Ids(s) -> Ids(h)] /\ 0 \in Ids(s) /\ o[0] = 0
      /\ \A i \in Ids(s) : o[i] <= o[i]
      /\ \A i, j \in Ids(s) : i < j => o[i] < o[j]
  BY <1>2, <1>3, <1>4
<1>6. ASSUME NEW i \in Ids(s)
      PROVE  At(s, i).files = At(h, o[i]).files /\ At(s, i).steps = StepsOf(h, o[i], o[i])
  <2>1. CASE i < from
    <3>1. i \in 0 .. from - 1 /\ i \in Ids(h) /\ i \in Nat /\ o[i] = i
      BY <1>2, <1>3, <1>4, <2>1
    <3> QED BY <1>1, <1>2, <3>1, WithIdFacts, SingleRun
  <2>2. CASE i >= from
    <3>1. /\ i \in from .. Count(h) - gone - 1 /\ i + gone \in Ids(h) /\ i \in Nat
          /\ i + gone \in Nat /\ o[i] = i + gone
      BY <1>2, <1>3, <1>4, <2>2
    <3> QED BY <1>1, <1>2, <3>1, WithIdFacts, SingleRun
  <2>3. i < from \/ i >= from
    BY <1>3
  <2> QED BY <2>1, <2>2, <2>3
<1>7. o[s.head] = h.head /\ (s.head > 0 => o[s.head - 1] < h.head)
  <2>1. s.head > 0 => s.head - 1 \in Ids(s)
    BY <1>2, <1>3
  <2> QED BY <1>2, <1>3, <1>4, <2>1
<1>8. o[s.head] >= h.head
  BY <1>2, <1>7
<1>9. Count(s) <= Count(h)
  BY <1>1, <1>2
<1> QED BY <1>5, <1>6, <1>7, <1>8, <1>9 DEF Contracts, s, o
=============================================================================
