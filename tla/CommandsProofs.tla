--------------------------- MODULE CommandsProofs ---------------------------
(***************************************************************************)
(* Theorems about what drun's commands write: of ConfigFile for any number *)
(* of edits at a time, any values and any documents to begin with; of      *)
(* Bridges, at claude, gemini and codex, for any projects and lists.       *)
(*                                                                         *)
(* A writer that is alone has config.tmp to itself: it holds nothing, then *)
(* the writer's document, until the rename.  An edit that is alone from    *)
(* its read to its rename makes of the config what it would make of the    *)
(* ledger.  That no document has a value twice needs neither: it holds of  *)
(* every document on disk or on its way, whatever overlaps.                *)
(*                                                                         *)
(* An init that has gone well so far has done what lies behind it, and no  *)
(* later step undoes it before a deregister or an edit of the user: inits  *)
(* only add, and add nothing that is there.                                *)
(***************************************************************************)
EXTENDS ConfigFile, Bridges, FiniteSetTheorems, SequenceTheorems, WellFoundedInduction, TLAPS

Single(S) == \A a, b \in S : a = b

\* What is known while the ghost has not marked the behaviour.
Marked ==
  /\ "editing" \in overlap \/ Single(Pending(editor))
  /\ "writing" \in overlap \/ Single(Writing(editor))
  /\ "writing" \in overlap => "editing" \in overlap

WritesAlone(e) ==
  editor[e].at \in {"write", "rename"} =>
    /\ tmp /= None
    /\ editor[e].file = tmp
    /\ content[tmp] = IF editor[e].at = "write" THEN Empty ELSE editor[e].doc

\* The edit makes the same of the ledger as of the config it has read.
EditsAlone(e) ==
  LET op == editor[e].op IN
    editor[e].at \in {"create", "write", "rename"} =>
      /\ op.kind = "put" \/ (ledger /= None /\ Changes(ledger, op))
      /\ editor[e].doc = Edited(ledger, op)

CleanStart == \A doc \in HandWritten : Distinct(doc)

\* What is on its way to the disk has no value twice, and not the one to remove.
Clean(e) ==
  LET op == editor[e].op IN
    /\ Distinct(editor[e].doc)
    /\ editor[e].at \in {"create", "write", "rename"} /\ op.kind = "remove" =>
         ~Has(editor[e].doc, op.key, op.value)

\* The inductive invariant.
IInv ==
  /\ TypeOK /\ Marked
  /\ \A e \in Editors : editor[e].at /= "done" => editor[e].op \in Edit
  /\ "writing" \notin overlap =>
       /\ OnDisk \in Document \cup {None}
       /\ \A e \in Editors : WritesAlone(e)
  /\ "editing" \notin overlap =>
       /\ OnDisk = ledger
       /\ \A e \in Editors : EditsAlone(e)
  /\ CleanStart =>
       /\ \A i \in Inodes : content[i] \in Document => Distinct(content[i])
       /\ \A e \in Editors : Clean(e)

-----------------------------------------------------------------------------

\* Two edits are two elements: where the count is at most one, they are the same.
LEMMA AtMostOne ==
  ASSUME NEW S, IsFiniteSet(S), ~(Cardinality(S) > 1), NEW a \in S, NEW b \in S
  PROVE  a = b
<1> SUFFICES ASSUME a /= b PROVE FALSE
  OBVIOUS
<1>1. IsFiniteSet({a}) /\ Cardinality({a}) = 1
  BY FS_Singleton
<1> DEFINE pair == {a} \cup {b}
<1>2. Cardinality(pair) = Cardinality({a}) + 1
  <2>1. b \notin {a}
    OBVIOUS
  <2> QED BY <1>1, <2>1, FS_AddElement
<1>3. Cardinality(pair) <= Cardinality(S)
  <2>1. pair \in SUBSET S
    OBVIOUS
  <2> HIDE DEF pair
  <2> QED BY <2>1, FS_Subset
<1>4. Cardinality(S) \in Nat
  BY FS_CardinalityType
<1> HIDE DEF pair
<1> QED BY <1>1, <1>2, <1>3, <1>4

\* Two lists put together, position by position.
LEMMA JoinFacts ==
  ASSUME NEW V, NEW a \in Seq(V), NEW b \in Seq(V)
  PROVE  /\ a \o b \in Seq(V)
         /\ Len(a \o b) = Len(a) + Len(b)
         /\ \A i \in 1 .. Len(a) : (a \o b)[i] = a[i]
         /\ \A i \in Len(a) + 1 .. Len(a) + Len(b) : (a \o b)[i] = b[i - Len(a)]
  OBVIOUS

\* What remove_domain and remove_path make of a list that has the value.
LEMMA RemoveFirstFacts ==
  ASSUME NEW V, NEW s \in Seq(V), NEW v, Contains(s, v)
  PROVE  \E i \in 1 .. Len(s) :
           /\ s[i] = v
           /\ RemoveFirst(s, v) \in Seq(V)
           /\ Len(RemoveFirst(s, v)) = Len(s) - 1
           /\ \A j \in 1 .. Len(s) - 1 :
                RemoveFirst(s, v)[j] = IF j < i THEN s[j] ELSE s[j + 1]
<1> DEFINE I == {i \in 1 .. Len(s) : s[i] = v}
           i == SelectInSeq(s, LAMBDA w : w = v)
<1>1. i \in I
  <2>1. I /= {} /\ I \subseteq Nat
    BY DEF Contains
  <2> DEFINE R == {p \in Nat \X Nat : p[1] < p[2]}
  <2>2. PICK m \in I : \A n \in I : <<n, m>> \notin R
    <3>1. R = OpToRel(<, Nat)
      BY DEF OpToRel
    <3>2. IsWellFoundedOn(R, Nat)
      BY <3>1, NatLessThanWellFounded
    <3> HIDE DEF I, R
    <3> QED BY <2>1, <3>2, WFMin
  <2>3. ASSUME NEW n \in I PROVE m <= n
    <3>1. m \in Nat /\ n \in Nat /\ <<n, m>> \in Nat \X Nat
      BY <2>1
    <3> HIDE DEF I
    <3> QED BY <2>2, <3>1
  <2>4. Min(I) \in I
    BY <2>3 DEF Min
  <2> QED BY <2>1, <2>4 DEF SelectInSeq
<1>2. RemoveFirst(s, v) = SubSeq(s, 1, i - 1) \o SubSeq(s, i + 1, Len(s))
  BY DEF RemoveFirst, RemoveAt, Contains
<1>3. i \in 1 .. Len(s) /\ s[i] = v
  BY <1>1
<1> HIDE DEF i
<1> DEFINE front == SubSeq(s, 1, i - 1)
           back == SubSeq(s, i + 1, Len(s))
<1>4. /\ front \in Seq(V) /\ Len(front) = i - 1
      /\ \A j \in 1 .. i - 1 : front[j] = s[j]
  BY <1>3
<1>5. /\ back \in Seq(V) /\ Len(back) = Len(s) - i
      /\ \A j \in 1 .. Len(s) - i : back[j] = s[i + j]
  BY <1>3
<1> HIDE DEF front, back
<1>6. /\ front \o back \in Seq(V) /\ Len(front \o back) = Len(front) + Len(back)
      /\ \A j \in 1 .. Len(front) : (front \o back)[j] = front[j]
      /\ \A j \in Len(front) + 1 .. Len(front) + Len(back) :
           (front \o back)[j] = back[j - Len(front)]
  BY <1>4, <1>5, JoinFacts
<1>7. \A j \in 1 .. Len(s) - 1 : (front \o back)[j] = IF j < i THEN s[j] ELSE s[j + 1]
  <2> SUFFICES ASSUME NEW j \in 1 .. Len(s) - 1
               PROVE  (front \o back)[j] = IF j < i THEN s[j] ELSE s[j + 1]
    OBVIOUS
  <2>1. Len(front) = i - 1 /\ Len(front) + Len(back) = Len(s) - 1 /\ Len(s) \in Nat
    BY <1>3, <1>4, <1>5
  <2>2. CASE j < i
    <3>1. j \in 1 .. Len(front)
      BY <2>1, <2>2, <1>3
    <3> QED BY <2>1, <2>2, <3>1, <1>4, <1>6
  <2>3. CASE ~(j < i)
    <3>1. j \in Len(front) + 1 .. Len(front) + Len(back)
      BY <2>1, <2>3, <1>3
    <3>2. j - Len(front) \in 1 .. Len(s) - i /\ i + (j - Len(front)) = j + 1
      BY <2>1, <2>3, <1>3
    <3> QED BY <2>3, <3>1, <3>2, <1>5, <1>6
  <2> QED BY <2>2, <2>3
<1>8. Len(front \o back) = Len(s) - 1
  BY <1>3, <1>4, <1>5, <1>6
<1> QED BY <1>2, <1>3, <1>6, <1>7, <1>8 DEF front, back

\* An edit of a document makes a document; one without double entries stays so,
\* and one that removed a value has it no more.
LEMMA AddedFacts ==
  ASSUME NEW doc \in Document, NEW k \in Keys, NEW v \in Values, doc[k] /= Scalar
  PROVE  /\ Added(doc, k, v) \in Document
         /\ Distinct(doc) /\ ~Has(doc, k, v) => Distinct(Added(doc, k, v))
<1>1. doc[k] /= Missing => doc[k] \in Seq(Values)
  BY DEF Document
<1> DEFINE new == IF doc[k] = Missing THEN <<v>> ELSE Append(doc[k], v)
<1>2. new \in Seq(Values)
  BY <1>1
<1>3. Added(doc, k, v) = [doc EXCEPT ![k] = new]
  BY DEF Added
<1>4. ASSUME Distinct(doc), ~Has(doc, k, v) PROVE IsInjective(new)
  <2>1. CASE doc[k] = Missing
    BY <2>1 DEF IsInjective
  <2>2. CASE doc[k] /= Missing
    <3> DEFINE old == doc[k]
    <3>1. IsList(doc, k) /\ IsInjective(old) /\ ~Contains(old, v)
      BY <1>4, <2>2 DEF Distinct, Has, IsList
    <3>2. old \in Seq(Values) /\ new = Append(old, v)
      BY <1>1, <2>2
    <3> HIDE DEF old, new
    <3>3. DOMAIN new = 1 .. Len(old) + 1 /\ DOMAIN old = 1 .. Len(old) /\ Len(old) \in Nat
      BY <3>2
    <3>4. \A i \in 1 .. Len(old) : new[i] = old[i] /\ new[i] /= v
      BY <3>1, <3>2 DEF Contains
    <3>5. new[Len(old) + 1] = v
      BY <3>2
    <3> QED BY <3>1, <3>3, <3>4, <3>5 DEF IsInjective
  <2> QED BY <2>1, <2>2
<1> HIDE DEF new
<1>5. Added(doc, k, v) \in Document
  BY <1>2, <1>3 DEF Document
<1>6. ASSUME Distinct(doc), ~Has(doc, k, v) PROVE Distinct(Added(doc, k, v))
  BY <1>3, <1>4, <1>6 DEF Distinct, IsList, Document
<1> QED BY <1>5, <1>6

\* The same of a removal.
LEMMA RemovedFacts ==
  ASSUME NEW doc \in Document, NEW k \in Keys, NEW v, Has(doc, k, v)
  PROVE  /\ Removed(doc, k, v) \in Document
         /\ Distinct(doc) => /\ Distinct(Removed(doc, k, v))
                             /\ ~Has(Removed(doc, k, v), k, v)
<1> DEFINE old == doc[k]
           new == RemoveFirst(old, v)
<1>1. old \in Seq(Values) /\ Contains(old, v)
  BY DEF Has, IsList, Document
<1>2. Removed(doc, k, v) = [doc EXCEPT ![k] = new]
  BY DEF Removed
<1> HIDE DEF old
<1>3. PICK i \in 1 .. Len(old) :
        /\ old[i] = v
        /\ new \in Seq(Values)
        /\ Len(new) = Len(old) - 1
        /\ \A j \in 1 .. Len(old) - 1 : new[j] = IF j < i THEN old[j] ELSE old[j + 1]
  BY <1>1, RemoveFirstFacts
<1> HIDE DEF new
<1>4. ASSUME IsInjective(old) PROVE IsInjective(new) /\ ~Contains(new, v)
  <2>1. \A a, b \in 1 .. Len(old) : old[a] = old[b] => a = b
    BY <1>1, <1>4 DEF IsInjective
  <2>2. DOMAIN new = 1 .. Len(old) - 1 /\ Len(old) \in Nat
    BY <1>1, <1>3
  <2>3. ASSUME NEW a \in 1 .. Len(old) - 1, NEW b \in 1 .. Len(old) - 1, new[a] = new[b]
        PROVE  a = b
    BY <1>3, <2>1, <2>2, <2>3
  <2>4. ASSUME NEW a \in 1 .. Len(old) - 1 PROVE new[a] /= v
    BY <1>3, <2>1, <2>2
  <2> QED BY <1>3, <2>2, <2>3, <2>4 DEF IsInjective, Contains
<1>5. Removed(doc, k, v) \in Document
  BY <1>2, <1>3 DEF Document
<1>6. ASSUME Distinct(doc)
      PROVE  Distinct(Removed(doc, k, v)) /\ ~Has(Removed(doc, k, v), k, v)
  <2>1. IsInjective(old)
    BY <1>6 DEF Distinct, Has, old
  <2> QED BY <1>2, <1>4, <1>6, <2>1 DEF Distinct, Has, IsList, Document
<1> QED BY <1>5, <1>6

\* The same of every edit that has something to write.
LEMMA EditedFacts ==
  ASSUME NEW doc \in Document, NEW op \in Edit, op.kind = "put" \/ Changes(doc, op)
  PROVE  /\ Edited(doc, op) \in Document
         /\ CleanStart /\ Distinct(doc) =>
              /\ Distinct(Edited(doc, op))
              /\ op.kind = "remove" => ~Has(Edited(doc, op), op.key, op.value)
<1>1. CASE op.kind = "put"
  <2>1. op.doc \in HandWritten /\ Edited(doc, op) = op.doc
    BY <1>1 DEF Edit, Edited
  <2> QED BY <1>1, <2>1, DocumentsAssumption DEF CleanStart
<1>2. CASE op.kind = "add" /\ Changes(doc, op)
  <2>1. op.key \in Keys /\ op.value \in Values
    BY <1>2 DEF Edit
  <2>2. Edited(doc, op) = Added(doc, op.key, op.value)
    BY <1>2 DEF Edited
  <2> QED BY <1>2, <2>1, <2>2, AddedFacts DEF Changes
<1>3. CASE op.kind = "remove" /\ Changes(doc, op)
  <2>1. op.key \in Keys /\ op.value \in Values
    BY <1>3 DEF Edit
  <2>2. Edited(doc, op) = Removed(doc, op.key, op.value)
    BY <1>3 DEF Edited
  <2> QED BY <1>3, <2>1, <2>2, RemovedFacts DEF Changes
<1> QED BY <1>1, <1>2, <1>3 DEF Changes

\* What the ghost says after any step of an edit.
LEMMA WatchFacts ==
  ASSUME Marked, Watch
  PROVE  Marked' /\ overlap \subseteq overlap'
<1>1. Pending(editor') \subseteq Editors /\ Writing(editor') \subseteq Pending(editor')
  BY DEF Pending, Writing
<1> DEFINE P == Pending(editor')
           W == Writing(editor')
<1>2. IsFiniteSet(P) /\ IsFiniteSet(W)
  BY <1>1, FS_Subset, BoundsAssumption
<1>3. Cardinality(P) \in Nat /\ Cardinality(W) \in Nat /\ Cardinality(W) <= Cardinality(P)
  BY <1>1, <1>2, FS_Subset, FS_CardinalityType
<1>4. /\ "editing" \in overlap' <=> "editing" \in overlap \/ Cardinality(P) > 1
      /\ "writing" \in overlap' <=> "writing" \in overlap \/ Cardinality(W) > 1
  BY DEF Watch
<1>5. overlap \subseteq overlap'
  BY DEF Watch
<1> HIDE DEF P, W
<1>6. "editing" \in overlap' \/ Single(P)
  BY <1>2, <1>4, AtMostOne DEF Single
<1>7. "writing" \in overlap' \/ Single(W)
  BY <1>2, <1>4, AtMostOne DEF Single
<1>8. "writing" \in overlap' => "editing" \in overlap'
  BY <1>3, <1>4 DEF Marked
<1> QED BY <1>5, <1>6, <1>7, <1>8 DEF Marked, P, W

-----------------------------------------------------------------------------
\* Nothing was edited, and the config is what somebody wrote, or is not there.
LEMMA InitIInv == Init => IInv
<1> SUFFICES ASSUME Init PROVE IInv
  OBVIOUS
<1> USE DEF Init
<1>1. Unlisted \in Document /\ Distinct(Unlisted)
  BY DEF Unlisted, Document, Distinct, IsList
<1>2. PICK i \in Inodes, doc \in HandWritten \cup {None} :
        /\ config = IF doc = None THEN None ELSE i
        /\ content = [j \in Inodes |-> IF j = i /\ doc /= None THEN doc ELSE Empty]
        /\ ledger = doc
  OBVIOUS
<1>3. doc \in Document \cup {None} /\ HandWritten \subseteq Document
  BY DocumentsAssumption
<1>4. TypeOK
  BY <1>1, <1>2, <1>3, BoundsAssumption DEF TypeOK, Idle
<1>5. Pending(editor) = {} /\ Writing(editor) = {}
  BY DEF Pending, Writing, Idle
<1>6. Marked
  BY <1>5 DEF Marked, Single
<1>7. OnDisk = ledger
  BY <1>2, NamesAssumption DEF OnDisk
<1>8. \A e \in Editors : editor[e] = Idle /\ Idle.at = "done" /\ Idle.doc = Unlisted
  BY DEF Idle
<1>9. \A e \in Editors : WritesAlone(e) /\ EditsAlone(e) /\ Clean(e)
  BY <1>1, <1>8 DEF WritesAlone, EditsAlone, Clean
<1>10. ASSUME CleanStart, NEW j \in Inodes, content[j] \in Document PROVE Distinct(content[j])
  BY <1>2, <1>3, <1>10, NamesAssumption DEF CleanStart
<1> QED BY <1>2, <1>3, <1>4, <1>6, <1>7, <1>8, <1>9, <1>10 DEF IInv

\* An edit that begins, reads, gives up or is killed leaves the files alone, and is
\* not writing after it.
LEMMA QuietKeepsIInv ==
  ASSUME IInv, Watch, UNCHANGED <<files, ledger>>,
         NEW e \in Editors, NEW now, editor' = [editor EXCEPT ![e] = now],
         TypeOK', now.at \notin {"write", "rename"},
         now.at /= "done" => now.op \in Edit,
         "editing" \notin overlap => EditsAlone(e)',
         CleanStart => Clean(e)'
  PROVE  IInv'
<1>1. Marked' /\ overlap \subseteq overlap'
  BY WatchFacts DEF IInv
<1>2. editor'[e] = now /\ \A f \in Editors \ {e} : editor'[f] = editor[f]
  BY DEF IInv, TypeOK
<1>3. /\ content' = content /\ config' = config /\ tmp' = tmp /\ ledger' = ledger
      /\ OnDisk' = OnDisk
  BY DEF files, OnDisk
<1>4. \A f \in Editors : editor'[f].at /= "done" => editor'[f].op \in Edit
  BY <1>2 DEF IInv
<1>5. ASSUME "writing" \notin overlap, NEW f \in Editors PROVE WritesAlone(f)'
  BY <1>2, <1>3, <1>5 DEF IInv, WritesAlone
<1>6. ASSUME "editing" \notin overlap, NEW f \in Editors PROVE EditsAlone(f)'
  BY <1>2, <1>3, <1>6 DEF IInv, EditsAlone
<1>7. ASSUME CleanStart, NEW f \in Editors PROVE Clean(f)'
  BY <1>2, <1>7 DEF IInv, Clean
<1> QED BY <1>1, <1>3, <1>4, <1>5, <1>6, <1>7 DEF IInv

\* A command or the web UI begins an edit.
LEMMA BeginKeepsIInv ==
  ASSUME IInv, Watch, NEW e \in Editors, BeginCommand(e) \/ BeginPut(e)
  PROVE  IInv'
<1>1. PICK op \in Edit, place \in {"read", "create"}, doc \in Document :
        /\ Begin(e, op, place, doc)
        /\ place = "read" => doc = Unlisted
        /\ place = "create" => op.kind = "put" /\ doc = op.doc /\ doc \in HandWritten
  <2>1. CASE BeginCommand(e)
    <3>1. PICK kind \in {"add", "remove"}, k \in Keys, v \in Values :
            Begin(e, [kind |-> kind, key |-> k, value |-> v], "read", Unlisted)
      BY <2>1 DEF BeginCommand
    <3>2. [kind |-> kind, key |-> k, value |-> v] \in Edit /\ Unlisted \in Document
      BY DEF Edit, Unlisted, Document
    <3> QED BY <3>1, <3>2
  <2>2. CASE BeginPut(e)
    <3>1. PICK doc \in HandWritten : Begin(e, [kind |-> "put", doc |-> doc], "create", doc)
      BY <2>2 DEF BeginPut
    <3>2. [kind |-> "put", doc |-> doc] \in Edit /\ doc \in Document
      BY DocumentsAssumption DEF Edit
    <3> QED BY <3>1, <3>2
  <2> QED BY <2>1, <2>2
<1> DEFINE now == [at |-> place, op |-> op, doc |-> doc, file |-> None]
<1>2. editor' = [editor EXCEPT ![e] = now] /\ UNCHANGED <<files, ledger>>
  BY <1>1 DEF Begin
<1>3. TypeOK'
  <2>1. edits' \in 0 .. MaxEdits
    BY <1>1, BoundsAssumption DEF Begin, IInv, TypeOK
  <2>2. now \in [at : {"done", "read", "create", "write", "rename"}, op : Edit \cup {None},
                 doc : Document, file : Inodes \cup {None}]
    OBVIOUS
  <2>3. overlap' \subseteq {"editing", "writing"}
    BY DEF Watch, IInv, TypeOK
  <2> QED BY <1>2, <2>1, <2>2, <2>3 DEF IInv, TypeOK, files
<1>4. now.at = place /\ now.op = op /\ now.doc = doc
  OBVIOUS
<1>5. editor'[e] = now
  BY <1>2 DEF IInv, TypeOK
<1> HIDE DEF now
<1>6. EditsAlone(e)'
  BY <1>1, <1>4, <1>5 DEF EditsAlone, Edited
<1>7. ASSUME CleanStart PROVE Clean(e)'
  <2>1. Distinct(Unlisted)
    BY DEF Distinct, Unlisted, IsList
  <2> QED BY <1>1, <1>4, <1>5, <1>7, <2>1 DEF CleanStart, Clean
<1> QED BY <1>1, <1>2, <1>3, <1>4, <1>6, <1>7, QuietKeepsIInv

\* The edit ends and leaves the files alone: it had nothing to do, it was killed, or
\* another edit took its file away.
LEMMA GoneKeepsIInv ==
  ASSUME IInv, Watch, NEW e \in Editors, Done(e), UNCHANGED <<files, edits, ledger>>
  PROVE  IInv'
<1>1. editor' = [editor EXCEPT ![e] = Idle] /\ UNCHANGED <<files, ledger>>
  BY DEF Done
<1>2. Unlisted \in Document /\ Distinct(Unlisted)
  BY DEF Unlisted, Document, Distinct, IsList
<1>3. TypeOK'
  <2>1. Idle \in [at : {"done", "read", "create", "write", "rename"}, op : Edit \cup {None},
                  doc : Document, file : Inodes \cup {None}]
    BY <1>2 DEF Idle
  <2>2. edits' = edits /\ overlap' \subseteq {"editing", "writing"}
    BY DEF Watch, IInv, TypeOK
  <2> QED BY <1>1, <2>1, <2>2 DEF IInv, TypeOK, files
<1>4. editor'[e] = Idle
  BY <1>1 DEF IInv, TypeOK
<1>5. Idle.at = "done" /\ Idle.doc = Unlisted
  BY DEF Idle
<1>6. EditsAlone(e)'
  BY <1>4, <1>5 DEF EditsAlone
<1>7. Clean(e)'
  BY <1>2, <1>4, <1>5 DEF Clean
<1> QED BY <1>1, <1>3, <1>5, <1>6, <1>7, QuietKeepsIInv

\* A command has read the config and makes its text of it.
LEMMA ReadKeepsIInv ==
  ASSUME IInv, Watch, NEW e \in Editors, ReadConfig(e)
  PROVE  IInv'
<1> DEFINE op == editor[e].op
           doc == Parsed(OnDisk)
           now == [editor[e] EXCEPT !.at = "create", !.doc = Edited(doc, op)]
<1>1. editor' = [editor EXCEPT ![e] = now] /\ UNCHANGED <<files, ledger>>
  BY DEF ReadConfig
<1>2. op \in Edit /\ OnDisk /= None /\ Parses(OnDisk) /\ Changes(doc, op)
  BY DEF ReadConfig, ToWrite, IInv
<1>3. Unlisted \in Document /\ Distinct(Unlisted)
  BY DEF Unlisted, Document, Distinct, IsList
<1>4. doc \in Document
  BY <1>2, <1>3 DEF Parses, Parsed
<1>5. now.at = "create" /\ now.op = op /\ now.doc = Edited(doc, op) /\ now.file = editor[e].file
  BY DEF IInv, TypeOK
<1>6. editor'[e] = now
  BY <1>1 DEF IInv, TypeOK
<1>7. Edited(doc, op) \in Document
  BY <1>2, <1>4, EditedFacts
<1>8. TypeOK'
  <2>1. now \in [at : {"done", "read", "create", "write", "rename"}, op : Edit \cup {None},
                 doc : Document, file : Inodes \cup {None}]
    BY <1>7 DEF IInv, TypeOK
  <2>2. edits' = edits /\ overlap' \subseteq {"editing", "writing"}
    BY DEF ReadConfig, Watch, IInv, TypeOK
  <2> HIDE DEF now
  <2> QED BY <1>1, <2>1, <2>2 DEF IInv, TypeOK, files
<1>9. ASSUME "editing" \notin overlap PROVE EditsAlone(e)'
  <2>1. ledger = OnDisk /\ ledger \in Document
    <3>1. ledger = OnDisk /\ ledger \in Document \cup {None}
      BY <1>9 DEF IInv, TypeOK
    <3> QED BY <1>2, <3>1
  <2>2. doc = ledger /\ ledger /= None /\ ledger' = ledger
    BY <1>1, <1>2, <2>1, NamesAssumption DEF Parsed
  <2> HIDE DEF now, doc, op
  <2> QED BY <1>2, <1>5, <1>6, <2>2 DEF EditsAlone
<1>10. ASSUME CleanStart PROVE Clean(e)'
  <2>1. Distinct(doc)
    <3>1. CASE OnDisk = Empty
      BY <3>1, <1>3 DEF Parsed
    <3>2. CASE OnDisk \in Document /\ OnDisk /= Empty
      <4>1. config \in Inodes /\ OnDisk = content[config] /\ doc = OnDisk
        BY <1>2, <3>2 DEF IInv, TypeOK, OnDisk, Parsed
      <4> QED BY <1>10, <3>2, <4>1 DEF IInv
    <3> QED BY <1>2, <3>1, <3>2 DEF Parses
  <2>2. Distinct(Edited(doc, op)) /\ (op.kind = "remove" => ~Has(Edited(doc, op), op.key, op.value))
    BY <1>2, <1>4, <1>10, <2>1, EditedFacts
  <2> HIDE DEF now, doc, op
  <2> QED BY <1>5, <1>6, <2>2 DEF Clean
<1> HIDE DEF now, doc, op
<1> QED BY <1>1, <1>2, <1>5, <1>8, <1>9, <1>10, QuietKeepsIInv

\* A writer that nobody was writing beside comes to the file alone.
LEMMA AloneFacts ==
  ASSUME Marked', "writing" \notin overlap', NEW e \in Editors, NEW f \in Editors, f /= e,
         editor'[e].at \in {"write", "rename"}
  PROVE  editor'[f].at \notin {"write", "rename"}
BY DEF Marked, Single, Writing

\* config.tmp is made or truncated.
LEMMA CreateKeepsIInv ==
  ASSUME IInv, Watch, NEW e \in Editors, Create(e)
  PROVE  IInv'
<1>1. Marked' /\ overlap \subseteq overlap'
  BY WatchFacts DEF IInv
<1>2. PICK i \in Inodes :
        /\ i /= config
        /\ tmp' = i
        /\ content' = [content EXCEPT ![i] = Empty]
        /\ editor' = [editor EXCEPT ![e].at = "write", ![e].file = i]
  <2>1. PICK i \in IF tmp = None THEN Free ELSE {tmp} :
          /\ tmp' = i
          /\ content' = [content EXCEPT ![i] = Empty]
          /\ editor' = [editor EXCEPT ![e].at = "write", ![e].file = i]
    BY DEF Create
  <2>2. i \in Inodes /\ i /= config
    BY <2>1 DEF IInv, TypeOK, Free
  <2> QED BY <2>1, <2>2
<1>3. /\ editor[e].at = "create" /\ config' = config /\ edits' = edits /\ ledger' = ledger
      /\ content'[i] = Empty /\ \A j \in Inodes \ {i} : content'[j] = content[j]
      /\ i /= None
  BY <1>2, NamesAssumption DEF Create, IInv, TypeOK
<1>4. /\ editor'[e].at = "write" /\ editor'[e].file = i
      /\ editor'[e].op = editor[e].op /\ editor'[e].doc = editor[e].doc
      /\ \A f \in Editors \ {e} : editor'[f] = editor[f]
  BY <1>2 DEF IInv, TypeOK
<1>5. OnDisk' = OnDisk
  BY <1>2, <1>3 DEF OnDisk, IInv, TypeOK
<1>6. TypeOK'
  <2>1. overlap' \subseteq {"editing", "writing"}
    BY DEF Watch, IInv, TypeOK
  <2>2. content' \in [Inodes -> Document \cup {Empty, Mixed}]
    BY <1>2 DEF IInv, TypeOK
  <2> DEFINE now == [editor[e] EXCEPT !.at = "write", !.file = i]
  <2>3. now \in [at : {"done", "read", "create", "write", "rename"}, op : Edit \cup {None},
                 doc : Document, file : Inodes \cup {None}]
    BY DEF IInv, TypeOK
  <2>4. editor' = [editor EXCEPT ![e] = now]
    BY <1>2
  <2> HIDE DEF now
  <2>5. editor' \in [Editors -> [at : {"done", "read", "create", "write", "rename"},
                                 op : Edit \cup {None}, doc : Document,
                                 file : Inodes \cup {None}]]
    BY <2>3, <2>4 DEF IInv, TypeOK
  <2> QED BY <1>2, <1>3, <2>1, <2>2, <2>5 DEF IInv, TypeOK
<1>7. \A f \in Editors : editor'[f].at /= "done" => editor'[f].op \in Edit
  BY <1>3, <1>4 DEF IInv
<1>8. ASSUME "writing" \notin overlap', NEW f \in Editors PROVE WritesAlone(f)'
  <2>1. CASE f = e
    BY <2>1, <1>2, <1>3, <1>4 DEF WritesAlone
  <2>2. CASE f /= e
    BY <2>2, <1>1, <1>4, <1>8, AloneFacts DEF WritesAlone
  <2> QED BY <2>1, <2>2
<1>9. ASSUME "editing" \notin overlap, NEW f \in Editors PROVE EditsAlone(f)'
  <2>1. CASE f = e
    BY <2>1, <1>3, <1>4, <1>9 DEF IInv, EditsAlone
  <2>2. CASE f /= e
    BY <2>2, <1>3, <1>4, <1>9 DEF IInv, EditsAlone
  <2> QED BY <2>1, <2>2
<1>10. ASSUME CleanStart, NEW f \in Editors PROVE Clean(f)'
  BY <1>3, <1>4, <1>10 DEF IInv, Clean
<1>11. ASSUME CleanStart, NEW j \in Inodes, content'[j] \in Document PROVE Distinct(content'[j])
  BY <1>3, <1>11, NamesAssumption DEF IInv
<1> QED BY <1>1, <1>3, <1>5, <1>6, <1>7, <1>8, <1>9, <1>10, <1>11 DEF IInv

\* A writer has put c into the file it opened: its document, or what came of it when
\* another wrote there or the disk was full.
LEMMA WrittenKeepsIInv ==
  ASSUME IInv, Watch, NEW e \in Editors, editor[e].at = "write",
         NEW c \in Document \cup {Empty, Mixed},
         content' = [content EXCEPT ![editor[e].file] = c],
         UNCHANGED <<config, tmp, edits, ledger>>,
         NEW now, editor' = [editor EXCEPT ![e] = now],
         \/ now = Idle
         \/ /\ now = [editor[e] EXCEPT !.at = "rename"]
            /\ "writing" \notin overlap => c = editor[e].doc,
         CleanStart /\ c \in Document => Distinct(c)
  PROVE  IInv'
<1>1. Marked' /\ overlap \subseteq overlap'
  BY WatchFacts DEF IInv
<1>2. editor'[e] = now /\ \A f \in Editors \ {e} : editor'[f] = editor[f]
  BY DEF IInv, TypeOK
<1>3. /\ now.at \in {"done", "rename"}
      /\ now.at = "rename" => /\ now.op = editor[e].op /\ now.doc = editor[e].doc
                              /\ now.file = editor[e].file
                              /\ "writing" \notin overlap => c = editor[e].doc
      /\ now.doc \in {Unlisted, editor[e].doc}
  BY DEF Idle, IInv, TypeOK
<1>4. Unlisted \in Document /\ Distinct(Unlisted)
  BY DEF Unlisted, Document, Distinct, IsList
<1>5. TypeOK'
  <2>1. overlap' \subseteq {"editing", "writing"}
    BY DEF Watch, IInv, TypeOK
  <2>2. content' \in [Inodes -> Document \cup {Empty, Mixed}]
    BY DEF IInv, TypeOK
  <2>3. now \in [at : {"done", "read", "create", "write", "rename"}, op : Edit \cup {None},
                 doc : Document, file : Inodes \cup {None}]
    BY <1>4 DEF IInv, TypeOK, Idle
  <2> QED BY <2>1, <2>2, <2>3 DEF IInv, TypeOK
<1>6. \A f \in Editors : editor'[f].at /= "done" => editor'[f].op \in Edit
  BY <1>2, <1>3 DEF IInv
<1>7. ASSUME "writing" \notin overlap
      PROVE  OnDisk' = OnDisk /\ tmp' = tmp /\ content'[tmp] = c /\ editor[e].file = tmp /\ tmp /= None
  <2>1. tmp \in Inodes /\ editor[e].file = tmp /\ config /= tmp
    BY <1>7 DEF IInv, TypeOK, WritesAlone
  <2> QED BY <2>1, NamesAssumption DEF OnDisk, IInv, TypeOK
<1>8. ASSUME "writing" \notin overlap', NEW f \in Editors PROVE WritesAlone(f)'
  <2>1. "writing" \notin overlap
    BY <1>1, <1>8
  <2>2. CASE f = e
    BY <2>1, <2>2, <1>2, <1>3, <1>7 DEF WritesAlone
  <2>3. CASE f /= e
    <3>1. editor[f].at \notin {"write", "rename"}
      BY <2>1, <2>3 DEF IInv, Marked, Single, Writing
    <3> QED BY <2>3, <3>1, <1>2 DEF WritesAlone
  <2> QED BY <2>2, <2>3
<1>9. ASSUME "editing" \notin overlap, NEW f \in Editors PROVE EditsAlone(f)'
  <2>1. CASE f = e
    BY <2>1, <1>2, <1>3, <1>9 DEF IInv, EditsAlone
  <2>2. CASE f /= e
    BY <2>2, <1>2, <1>9 DEF IInv, EditsAlone
  <2> QED BY <2>1, <2>2
<1>10. ASSUME CleanStart, NEW f \in Editors PROVE Clean(f)'
  <2>1. CASE f = e /\ now = Idle
    BY <2>1, <1>2, <1>4 DEF Clean, Idle
  <2>2. CASE f = e /\ now /= Idle
    BY <2>2, <1>2, <1>3, <1>10 DEF IInv, Clean, TypeOK
  <2>3. CASE f /= e
    BY <2>3, <1>2, <1>10 DEF IInv, Clean
  <2> QED BY <2>1, <2>2, <2>3
<1>11. ASSUME CleanStart, NEW j \in Inodes, content'[j] \in Document PROVE Distinct(content'[j])
  BY <1>11 DEF IInv, TypeOK
<1>12. "editing" \notin overlap => OnDisk' = ledger'
  BY <1>7 DEF IInv, Marked
<1> QED BY <1>1, <1>5, <1>6, <1>7, <1>8, <1>9, <1>10, <1>11, <1>12 DEF IInv

\* The text is written, whole and alone or over what another has written.
LEMMA WriteKeepsIInv ==
  ASSUME IInv, Watch, NEW e \in Editors, Write(e)
  PROVE  IInv'
<1>1. PICK c \in {editor[e].doc} \cup (IF content[editor[e].file] = Empty THEN {} ELSE {Mixed}) :
        content' = [content EXCEPT ![editor[e].file] = c]
  BY DEF Write
<1>2. c \in Document \cup {Empty, Mixed} /\ c \in {editor[e].doc, Mixed}
  BY <1>1 DEF IInv, TypeOK
<1>3. editor[e].at = "write" /\ UNCHANGED <<config, tmp, edits, ledger>>
  BY DEF Write
<1>4. "writing" \notin overlap => c = editor[e].doc
  BY <1>1, <1>3 DEF IInv, WritesAlone
<1>5. CleanStart /\ c \in Document => Distinct(c)
  BY <1>2, NamesAssumption DEF IInv, Clean
<1>6. editor' = [editor EXCEPT ![e] = [editor[e] EXCEPT !.at = "rename"]]
  BY DEF Write
<1> QED BY <1>1, <1>2, <1>3, <1>4, <1>5, <1>6, WrittenKeepsIInv

\* Nothing or a part of the text is written.
LEMMA FailKeepsIInv ==
  ASSUME IInv, Watch, NEW e \in Editors, WriteFails(e)
  PROVE  IInv'
<1> DEFINE f == editor[e].file
<1>1. editor[e].at = "write" /\ UNCHANGED <<config, tmp, edits, ledger>>
  BY DEF WriteFails
<1>2. editor' = [editor EXCEPT ![e] = Idle]
  BY DEF WriteFails, Done
<1>3. PICK c \in Document \cup {Empty, Mixed} :
        /\ content' = [content EXCEPT ![f] = c]
        /\ c = Mixed \/ (f \in Inodes /\ c = content[f])
  <2> HIDE DEF f
  <2>1. CASE content' = [content EXCEPT ![f] = Mixed]
    <3>1. Mixed \in Document \cup {Empty, Mixed}
      OBVIOUS
    <3> QED BY <2>1, <3>1
  <2>2. CASE content' = content /\ f \in Inodes
    <3>1. content[f] \in Document \cup {Empty, Mixed} /\ content = [content EXCEPT ![f] = content[f]]
      BY <2>2 DEF IInv, TypeOK
    <3> QED BY <2>2, <3>1
  <2>3. CASE content' = content /\ f \notin Inodes
    <3>1. content = [content EXCEPT ![f] = Mixed] /\ Mixed \in Document \cup {Empty, Mixed}
      BY <2>3 DEF IInv, TypeOK
    <3> QED BY <2>3, <3>1
  <2> QED BY <2>1, <2>2, <2>3 DEF WriteFails, f
<1>4. CleanStart /\ c \in Document => Distinct(c)
  BY <1>3, NamesAssumption DEF IInv
<1> HIDE DEF f
<1>5. content' = [content EXCEPT ![editor[e].file] = c]
  BY <1>3 DEF f
<1> QED BY <1>1, <1>2, <1>4, <1>5, WrittenKeepsIInv

\* The ledger stays a document.
LEMMA RecordedFacts ==
  ASSUME ledger \in Document \cup {None}, NEW op \in Edit
  PROVE  Recorded(op) \in Document
<1> DEFINE doc == IF ledger = None THEN Unlisted ELSE ledger
<1>1. doc \in Document
  BY DEF Unlisted, Document
<1>2. Recorded(op) = IF op.kind = "put" \/ Changes(doc, op) THEN Edited(doc, op) ELSE doc
  BY DEF Recorded
<1> HIDE DEF doc
<1> QED BY <1>1, <1>2, EditedFacts

\* The temporary file becomes the config.
LEMMA RenameKeepsIInv ==
  ASSUME IInv, Watch, NEW e \in Editors, Rename(e)
  PROVE  IInv'
<1>1. CASE tmp = None
  BY <1>1, GoneKeepsIInv DEF Rename, files
<1>2. CASE tmp /= None
  <2> DEFINE op == editor[e].op
  <2>1. /\ editor[e].at = "rename" /\ op \in Edit
        /\ config' = tmp /\ tmp' = None /\ content' = content /\ edits' = edits
        /\ ledger' = Recorded(op) /\ editor' = [editor EXCEPT ![e] = Idle]
    BY <1>2 DEF Rename, Done, IInv
  <2>2. Marked' /\ overlap \subseteq overlap'
    BY WatchFacts DEF IInv
  <2>3. Unlisted \in Document /\ Distinct(Unlisted)
    BY DEF Unlisted, Document, Distinct, IsList
  <2>4. editor'[e] = Idle /\ \A f \in Editors \ {e} : editor'[f] = editor[f]
    BY <2>1 DEF IInv, TypeOK
  <2>5. TypeOK'
    <3>1. overlap' \subseteq {"editing", "writing"}
      BY DEF Watch, IInv, TypeOK
    <3>2. ledger' \in Document
      BY <2>1, RecordedFacts DEF IInv, TypeOK
    <3>3. Idle \in [at : {"done", "read", "create", "write", "rename"}, op : Edit \cup {None},
                    doc : Document, file : Inodes \cup {None}]
      BY <2>3 DEF Idle
    <3> HIDE DEF op
    <3> QED BY <1>2, <2>1, <3>1, <3>2, <3>3 DEF IInv, TypeOK
  <2>6. \A f \in Editors : editor'[f].at /= "done" => editor'[f].op \in Edit
    BY <2>4 DEF IInv, Idle
  <2>7. ASSUME "writing" \notin overlap
        PROVE  /\ OnDisk' = editor[e].doc
               /\ \A f \in Editors : WritesAlone(f)'
    <3>1. content[tmp] = editor[e].doc
      BY <2>1, <2>7 DEF IInv, WritesAlone
    <3>2. \A f \in Editors \ {e} : editor[f].at \notin {"write", "rename"}
      BY <2>1, <2>7 DEF IInv, Marked, Single, Writing
    <3> QED BY <1>2, <2>1, <2>4, <3>1, <3>2 DEF OnDisk, WritesAlone, Idle
  <2>8. ASSUME "editing" \notin overlap
        PROVE  /\ OnDisk' = ledger'
               /\ \A f \in Editors : EditsAlone(f)'
    <3>1. OnDisk' = editor[e].doc
      BY <2>7, <2>8 DEF IInv, Marked
    <3>2. /\ op.kind = "put" \/ (ledger /= None /\ Changes(ledger, op))
          /\ editor[e].doc = Edited(ledger, op)
      BY <2>1, <2>8 DEF IInv, EditsAlone
    <3>3. op.kind = "put" => \A doc : Edited(doc, op) = op.doc
      BY DEF Edited
    <3>4. Recorded(op) = Edited(ledger, op)
      BY <3>2, <3>3 DEF Recorded
    <3>5. \A f \in Editors \ {e} : editor[f].at \notin {"create", "write", "rename"}
      BY <2>1, <2>8 DEF IInv, Marked, Single, Pending
    <3> QED BY <2>1, <2>4, <3>1, <3>2, <3>4, <3>5 DEF EditsAlone, Idle
  <2>9. ASSUME CleanStart, NEW f \in Editors PROVE Clean(f)'
    BY <2>3, <2>4, <2>9 DEF IInv, Clean, Idle
  <2> QED BY <2>1, <2>2, <2>5, <2>6, <2>7, <2>8, <2>9 DEF IInv, TypeOK
<1> QED BY <1>1, <1>2

\* The invariant holds whatever the edits do, and however they overlap.
THEOREM Invariance == Spec => []IInv
<1>1. Init => IInv
  BY InitIInv
<1>2. IInv /\ [Next]_vars => IInv'
  <2> SUFFICES ASSUME IInv, [Next]_vars PROVE IInv'
    OBVIOUS
  <2>1. ASSUME NEW e \in Editors, Step(e), Watch PROVE IInv'
    <3>1. CASE BeginCommand(e) \/ BeginPut(e)
      BY <2>1, <3>1, BeginKeepsIInv
    <3>2. CASE GiveUp(e) \/ Dies(e)
      BY <2>1, <3>2, GoneKeepsIInv DEF GiveUp, Dies
    <3>3. CASE ReadConfig(e)
      BY <2>1, <3>3, ReadKeepsIInv
    <3>4. CASE Create(e)
      BY <2>1, <3>4, CreateKeepsIInv
    <3>5. CASE Write(e)
      BY <2>1, <3>5, WriteKeepsIInv
    <3>6. CASE WriteFails(e)
      BY <2>1, <3>6, FailKeepsIInv
    <3>7. CASE Rename(e)
      BY <2>1, <3>7, RenameKeepsIInv
    <3> QED BY <2>1, <3>1, <3>2, <3>3, <3>4, <3>5, <3>6, <3>7 DEF Step
  <2>2. CASE UNCHANGED vars
    BY <2>2 DEF vars, files, IInv, TypeOK, Marked, Pending, Writing, WritesAlone, EditsAlone,
                Clean, OnDisk
  <2> QED BY <2>1, <2>2 DEF Next
<1> QED BY <1>1, <1>2, PTL DEF Spec

\* As long as no two edits were writing at once, whoever reads the config finds a
\* whole document, also after edits that were killed or could not be written.
THEOREM ReaderCorrect == Spec => []ReaderSeesWhole
<1>1. IInv => ReaderSeesWhole
  BY DEF IInv, ReaderSeesWhole
<1> QED BY <1>1, Invariance, PTL

\* As long as no edit came between another one's read and rename, the next call goes
\* by all the edits that succeeded, and by nothing of those that failed.
THEOREM TakesEffectCorrect == Spec => []TakesEffect
<1>1. ASSUME IInv, "editing" \notin overlap
      PROVE  GetConfig = Settings(ledger) /\ List = Settings(ledger)
  <2>1. OnDisk = ledger
    BY <1>1 DEF IInv
  <2>2. \A c : Settings(c) = [k \in Keys |-> Settings(c)[k]]
    BY DEF Settings, Defaults
  <2> QED BY <2>1, <2>2 DEF GetConfig, List, Get
<1>2. IInv => TakesEffect
  BY <1>1 DEF TakesEffect
<1> QED BY <1>2, Invariance, PTL

\* A value that a command reports as removed is not in the list any more, though only
\* its first entry goes.
THEOREM RemovedIsGoneCorrect == Spec => RemovedIsGone
<1>1. ASSUME IInv, CleanStart, NEW e \in Editors, "writing" \notin overlap, Rename(e),
             editor[e].op.kind = "remove"
      PROVE  ~Has(content'[config'], editor[e].op.key, editor[e].op.value)
  <2>1. tmp /= None /\ content[tmp] = editor[e].doc
    BY <1>1 DEF IInv, WritesAlone, Rename
  <2>2. content'[config'] = editor[e].doc
    BY <1>1, <2>1 DEF Rename
  <2> QED BY <1>1, <2>2 DEF IInv, Clean, Rename
<1>2. IInv /\ [Next]_vars =>
        [ (\A doc \in HandWritten : Distinct(doc)) =>
            \A e \in Editors :
              LET op == editor[e].op IN
                ("writing" \notin overlap /\ Rename(e) /\ op.kind = "remove")
                  => ~Has(content'[config'], op.key, op.value) ]_vars
  BY <1>1 DEF CleanStart
<1> QED BY <1>2, Invariance, PTL DEF Spec, RemovedIsGone

-----------------------------------------------------------------------------
(***************************************************************************)
(* Recursion over a sequence.  The round n makes of a value x the value    *)
(* step[n][x].                                                             *)
(***************************************************************************)
Rounds(X, start, step, N, f) ==
  /\ f \in [0 .. N -> X]
  /\ f[0] = start
  /\ \A n \in 1 .. N : f[n] = step[n][f[n - 1]]

\* A set of naturals that is not empty has a least element.
LEMMA LeastNatural ==
  ASSUME NEW S \in SUBSET Nat, S /= {}
  PROVE  \E m \in S : \A n \in S : m <= n
<1> DEFINE R == {p \in Nat \X Nat : p[1] < p[2]}
<1>1. R = OpToRel(<, Nat)
  BY DEF OpToRel
<1>2. IsWellFoundedOn(R, Nat)
  BY <1>1, NatLessThanWellFounded
<1>3. PICK m \in S : \A n \in S : <<n, m>> \notin R
  BY <1>2, WFMin
<1>4. ASSUME NEW n \in S PROVE m <= n
  <2>1. m \in Nat /\ n \in Nat /\ <<n, m>> \in Nat \X Nat
    OBVIOUS
  <2>2. ~ (n < m)
    BY <1>3, <2>1
  <2> QED BY <2>1, <2>2
<1> QED BY <1>4

\* There is one function for any number of rounds.
LEMMA RoundsExist ==
  ASSUME NEW N \in Nat, NEW X, NEW start \in X, NEW step,
         \A n \in 1 .. N, x \in X : step[n][x] \in X
  PROVE  \E f : Rounds(X, start, step, N, f)
<1> DEFINE bad == {m \in 0 .. N : ~ \E f : Rounds(X, start, step, m, f)}
<1>1. SUFFICES ASSUME bad /= {} PROVE FALSE
  OBVIOUS
<1>2. PICK m \in bad : \A j \in bad : m <= j
  <2>1. bad \in SUBSET Nat
    OBVIOUS
  <2> HIDE DEF bad
  <2> QED BY <1>1, <2>1, LeastNatural
<1>3. m /= 0
  <2> DEFINE f == [j \in 0 .. 0 |-> start]
  <2>1. f \in [0 .. 0 -> X] /\ f[0] = start
    OBVIOUS
  <2>2. Rounds(X, start, step, 0, f)
    BY <2>1 DEF Rounds
  <2> QED BY <1>2, <2>2
<1>4. m \in 1 .. N /\ m - 1 \in 0 .. N /\ m - 1 \notin bad
  BY <1>2, <1>3
<1>5. PICK f : Rounds(X, start, step, m - 1, f)
  BY <1>4
<1> DEFINE g == [j \in 0 .. m |-> IF j < m THEN f[j] ELSE step[m][f[m - 1]]]
<1>6. /\ f \in [0 .. m - 1 -> X] /\ f[0] = start
      /\ \A n \in 1 .. m - 1 : f[n] = step[n][f[n - 1]]
  BY <1>5 DEF Rounds
<1>7. f[m - 1] \in X /\ step[m][f[m - 1]] \in X
  BY <1>4, <1>6
<1>8. g \in [0 .. m -> X] /\ g[0] = start
  BY <1>4, <1>6, <1>7
<1>9. ASSUME NEW n \in 1 .. m PROVE g[n] = step[n][g[n - 1]]
  <2>1. g[n - 1] = f[n - 1]
    BY <1>4
  <2>2. CASE n = m
    BY <1>4, <2>1, <2>2
  <2>3. CASE n < m
    <3>1. g[n] = f[n] /\ n \in 1 .. m - 1
      BY <1>4, <2>3
    <3> QED BY <1>6, <2>1, <3>1
  <2> QED BY <1>4, <2>2, <2>3
<1>10. Rounds(X, start, step, m, g)
  BY <1>8, <1>9 DEF Rounds
<1> QED BY <1>2, <1>10

\* What holds at first and is kept by every round holds in the end; `good` is the set
\* of the rounds where it holds.
LEMMA RoundsReach ==
  ASSUME NEW N \in Nat, NEW good, 0 \in good,
         \A n \in 1 .. N : n - 1 \in good => n \in good
  PROVE  \A n \in 0 .. N : n \in good
<1> DEFINE bad == {n \in 0 .. N : n \notin good}
<1>1. SUFFICES ASSUME bad /= {} PROVE FALSE
  OBVIOUS
<1>2. PICK m \in bad : \A j \in bad : m <= j
  <2>1. bad \in SUBSET Nat
    OBVIOUS
  <2> HIDE DEF bad
  <2> QED BY <1>1, <2>1, LeastNatural
<1>3. m \in 1 .. N /\ m - 1 \in 0 .. N /\ m - 1 \notin bad
  BY <1>2
<1> QED BY <1>2, <1>3

-----------------------------------------------------------------------------
\* A sequence with one thing more, and what it holds.
LEMMA AppendFacts ==
  ASSUME NEW S, NEW s \in Seq(S), NEW x \in S
  PROVE  /\ Append(s, x) \in Seq(S) /\ Len(Append(s, x)) = Len(s) + 1
         /\ Append(s, x)[Len(s) + 1] = x
         /\ \A i \in 1 .. Len(s) : Append(s, x)[i] = s[i]
         /\ Range(Append(s, x)) = Range(s) \cup {x}
<1>1. Len(s) \in Nat /\ DOMAIN s = 1 .. Len(s)
  BY LenProperties
<1>2. /\ Append(s, x) \in Seq(S) /\ DOMAIN Append(s, x) = 1 .. Len(s) + 1
      /\ Len(Append(s, x)) = Len(s) + 1 /\ Append(s, x)[Len(s) + 1] = x
      /\ \A i \in 1 .. Len(s) : Append(s, x)[i] = s[i]
  BY <1>1, AppendProperties
<1>3. ASSUME NEW y \in Range(Append(s, x)) PROVE y \in Range(s) \cup {x}
  <2>1. PICK i \in 1 .. Len(s) + 1 : Append(s, x)[i] = y
    BY <1>2 DEF Range
  <2>2. i = Len(s) + 1 \/ i \in 1 .. Len(s)
    BY <1>1
  <2> QED BY <1>1, <1>2, <2>1, <2>2 DEF Range
<1>4. ASSUME NEW y \in Range(s) \cup {x} PROVE y \in Range(Append(s, x))
  <2>1. CASE y = x
    BY <1>1, <1>2, <2>1 DEF Range
  <2>2. CASE y \in Range(s)
    <3>1. PICK i \in 1 .. Len(s) : s[i] = y
      BY <1>1, <2>2 DEF Range
    <3>2. i \in 1 .. Len(s) + 1
      BY <1>1
    <3> QED BY <1>2, <3>1, <3>2 DEF Range
  <2> QED BY <2>1, <2>2
<1> QED BY <1>2, <1>3, <1>4

\* What it is for a sequence to begin with another, place by place.
LEMMA PrefixPlaces ==
  ASSUME NEW S, NEW p \in Seq(S), NEW q \in Seq(S)
  PROVE  IsPrefix(p, q) <=> Len(p) <= Len(q) /\ \A i \in 1 .. Len(p) : p[i] = q[i]
<1>1. Len(p) \in Nat /\ Len(q) \in Nat
  OBVIOUS
<1>2. SubSeq(p, 1, Len(p)) = p
  BY <1>1, SubSeqFull
<1>3. ASSUME Len(p) <= Len(q)
      PROVE  SubSeq(q, 1, Len(p)) = p <=> \A i \in 1 .. Len(p) : p[i] = q[i]
  <2>1. SubSeq(q, 1, Len(p)) = [i \in 1 .. Len(p) |-> q[i]]
    BY <1>1, <1>3
  <2>2. p = [i \in 1 .. Len(p) |-> p[i]]
    OBVIOUS
  <2> QED BY <2>1, <2>2
<1> QED BY <1>2, <1>3 DEF IsPrefix

\* merge_string_array: the user's entries stay in front, all that is required is
\* there, and a list that has it all stays as it is.
LEMMA PushMissingFacts ==
  ASSUME NEW S, NEW list \in Seq(S), NEW required \in Seq(S)
  PROVE  /\ PushMissing(list, required) \in Seq(S)
         /\ IsPrefix(list, PushMissing(list, required))
         /\ Range(required) \subseteq Range(PushMissing(list, required))
         /\ Range(required) \subseteq Range(list) => PushMissing(list, required) = list
<1> DEFINE N == Len(required)
           X == Seq(S)
           step == [n \in 1 .. N |-> [x \in X |-> PushNew(x, required[n])]]
           Is(f) == f = [n \in 0 .. N |-> IF n = 0 THEN list ELSE PushNew(f[n - 1], required[n])]
           at == CHOOSE f : Is(f)
           starts(x) == Len(list) <= Len(x) /\ \A i \in 1 .. Len(list) : list[i] = x[i]
<1>1. /\ N \in Nat /\ DOMAIN required = 1 .. N /\ Len(list) \in Nat
      /\ \A n \in 1 .. N : required[n] \in S /\ required[n] \in Range(required)
  BY DEF Range
<1>2. \A n \in 1 .. N, x \in X :
        /\ PushNew(x, required[n]) \in X
        /\ Range(PushNew(x, required[n])) = Range(x) \cup {required[n]}
        /\ starts(x) => starts(PushNew(x, required[n]))
        /\ required[n] \in Range(x) => PushNew(x, required[n]) = x
  <2> SUFFICES ASSUME NEW n \in 1 .. N, NEW x \in X
               PROVE  /\ PushNew(x, required[n]) \in X
                      /\ Range(PushNew(x, required[n])) = Range(x) \cup {required[n]}
                      /\ starts(x) => starts(PushNew(x, required[n]))
                      /\ required[n] \in Range(x) => PushNew(x, required[n]) = x
    OBVIOUS
  <2>1. CASE required[n] \in Range(x)
    BY <2>1 DEF PushNew
  <2>2. CASE required[n] \notin Range(x)
    <3> DEFINE y == Append(x, required[n])
    <3>1. PushNew(x, required[n]) = y
      BY <2>2 DEF PushNew
    <3>2. /\ y \in X /\ Len(y) = Len(x) + 1 /\ Range(y) = Range(x) \cup {required[n]}
          /\ \A i \in 1 .. Len(x) : y[i] = x[i]
          /\ Len(x) \in Nat
      BY <1>1, AppendFacts
    <3> HIDE DEF y
    <3>3. starts(x) => starts(y)
      BY <1>1, <3>2
    <3> QED BY <2>2, <3>1, <3>2, <3>3
  <2> QED BY <2>1, <2>2
<1>3. list \in X /\ starts(list) /\ \A n \in 1 .. N, x \in X : step[n][x] = PushNew(x, required[n])
  BY <1>1
<1> HIDE DEF X, step, N
<1>4. PICK f : Rounds(X, list, step, N, f)
  <2>1. \A n \in 1 .. N, x \in X : step[n][x] \in X
    BY <1>2, <1>3
  <2> QED BY <1>1, <1>3, <2>1, RoundsExist
<1>5. Is(f)
  <2>1. f = [n \in 0 .. N |-> f[n]] /\ f[0] = list
    BY <1>4 DEF Rounds
  <2>2. \A n \in 0 .. N : n /= 0 => f[n] = PushNew(f[n - 1], required[n])
    <3> SUFFICES ASSUME NEW n \in 0 .. N, n /= 0
                 PROVE  f[n] = PushNew(f[n - 1], required[n])
      OBVIOUS
    <3>1. n \in 1 .. N /\ n - 1 \in 0 .. N
      BY <1>1
    <3>2. f[n - 1] \in X /\ f[n] = step[n][f[n - 1]]
      BY <1>4, <3>1 DEF Rounds
    <3> QED BY <1>3, <3>1, <3>2
  <2> QED BY <2>1, <2>2
<1>6. Is(at)
  BY <1>5
<1>7. PushMissing(list, required) = at[N]
  BY DEF PushMissing, N
<1> HIDE DEF at
<1>8. at[0] = list /\ \A n \in 1 .. N : at[n] = PushNew(at[n - 1], required[n])
  BY <1>1, <1>6
<1> DEFINE good == {n \in 0 .. N :
                      /\ at[n] \in X /\ starts(at[n])
                      /\ \A m \in 1 .. n : required[m] \in Range(at[n])
                      /\ Range(required) \subseteq Range(list) => at[n] = list}
<1>9. 0 \in good
  BY <1>1, <1>3, <1>8
<1>10. ASSUME NEW n \in 1 .. N, n - 1 \in good PROVE n \in good
  <2>1. /\ at[n - 1] \in X /\ starts(at[n - 1])
        /\ \A m \in 1 .. n - 1 : required[m] \in Range(at[n - 1])
        /\ Range(required) \subseteq Range(list) => at[n - 1] = list
        /\ n \in 0 .. N /\ at[n] = PushNew(at[n - 1], required[n])
    BY <1>1, <1>8, <1>10
  <2> HIDE DEF starts
  <2>2. /\ at[n] \in X /\ starts(at[n])
        /\ Range(at[n]) = Range(at[n - 1]) \cup {required[n]}
        /\ required[n] \in Range(at[n - 1]) => at[n] = at[n - 1]
    BY <1>2, <2>1
  <2>3. ASSUME NEW m \in 1 .. n PROVE required[m] \in Range(at[n])
    <3>1. m = n \/ m \in 1 .. n - 1
      BY <1>1
    <3> QED BY <2>1, <2>2, <3>1
  <2>4. Range(required) \subseteq Range(list) => at[n] = list
    BY <1>1, <2>1, <2>2
  <2> QED BY <2>1, <2>2, <2>3, <2>4
<1>11. N \in good
  <2> HIDE DEF good
  <2>1. \A n \in 0 .. N : n \in good
    BY <1>1, <1>9, <1>10, RoundsReach
  <2> QED BY <1>1, <2>1
<1>12. /\ at[N] \in X /\ starts(at[N])
       /\ \A m \in 1 .. N : required[m] \in Range(at[N])
       /\ Range(required) \subseteq Range(list) => at[N] = list
  BY <1>11
<1>13. IsPrefix(list, at[N])
  <2>1. at[N] \in Seq(S)
    BY <1>12 DEF X
  <2> QED BY <1>12, <2>1, PrefixPlaces
<1>14. Range(required) \subseteq Range(at[N])
  BY <1>1, <1>12 DEF Range
<1> QED BY <1>7, <1>12, <1>13, <1>14 DEF X

-----------------------------------------------------------------------------
(***************************************************************************)
(* The bridges whose files are JSON or TOML.                               *)
(***************************************************************************)
Agents == Json \cup {"codex"}

\* What one project has once the steps of an init are over: of its settings, and of
\* the config that all projects share.
ListsMerged(p) ==
  /\ settings[p] \in SettingsOf(bridge)
  /\ \A k \in DOMAIN RequiredList[bridge] :
       /\ settings[p][k] \in Seq(Entries)
       /\ Range(RequiredList[bridge][k]) \subseteq Range(settings[p][k])
CodexMerged ==
  codex \in CodexConfig /\ codex.servers /= Bad /\ "drun" \in codex.servers /\ codex.shell = Off

Mounted(p) == mounts = Absent \/ Contains(mounts, p)

\* Where a command of a bridge can be, and what an init has done by then if all went
\* well.
Places(op) ==
  IF op = "init" THEN {"instructions", "mount", "registry"} \cup
                      IF bridge \in Json THEN {"settings", "cli"} ELSE {"codex"}
  ELSE IF bridge \in Json THEN {"cli"} ELSE {"codex"}
Progress ==
  LET p == cmd.dir IN
  cmd.op = "init" /\ cmd.well =>
    /\ cmd.at /= "instructions" => p \in instructions
    /\ cmd.at \notin {"instructions", "mount"} => Mounted(p)
    /\ cmd.at \notin {"instructions", "mount", "registry"} => Contains(registry, p)
    /\ cmd.at = "cli" => ListsMerged(p)

\* What is so in the projects whose init went well.
DoneIn(p) ==
  /\ p \in instructions /\ Mounted(p) /\ Contains(registry, p)
  /\ bridge \in Json => ListsMerged(p) /\ IsRegistered
  /\ bridge = "codex" => CodexMerged
InitedInv == \A p \in inited : DoneIn(p)

CmdInv ==
  \/ cmd = NoCmd
  \/ /\ cmd.op \in {"init", "deregister"} /\ cmd.dir \in Projects /\ cmd.at \in Places(cmd.op)
     /\ cmd \in [op : {"init", "deregister"}, dir : Projects, well : BOOLEAN, at : Places(cmd.op)]
     /\ ~deregistered /\ (cmd.op = "deregister" => inited = {})
     /\ Progress

BridgesIInv ==
  /\ BridgesTypeOK /\ bridge \in Agents
  /\ (bridge /= "codex" => codex = Absent) /\ hermes = Absent /\ torn = FALSE
  /\ CmdInv /\ InitedInv /\ DeregisterTakesEffect

-----------------------------------------------------------------------------
\* A list without an entry, and one with it.
LEMMA AppendNew ==
  ASSUME NEW S, NEW s \in Seq(S), IsInjective(s), NEW x \in S, ~Contains(s, x)
  PROVE  /\ Append(s, x) \in Seq(S) /\ IsInjective(Append(s, x)) /\ Contains(Append(s, x), x)
         /\ \A y : Contains(s, y) => Contains(Append(s, x), y)
<1> DEFINE new == Append(s, x)
           n == Len(s) + 1
<1>1. /\ new \in Seq(S) /\ Len(new) = n /\ new[n] = x
      /\ \A i \in 1 .. Len(s) : new[i] = s[i]
  BY AppendFacts
<1>2. Len(s) \in Nat /\ DOMAIN s = 1 .. Len(s) /\ 1 .. n = (1 .. Len(s)) \cup {n}
  OBVIOUS
<1> HIDE DEF new, n
<1>3. DOMAIN new = 1 .. n
  BY <1>1
<1>4. \A i \in 1 .. Len(s) : s[i] /= x
  BY <1>2 DEF Contains
<1>5. \A a \in DOMAIN new, b \in DOMAIN new : new[a] = new[b] => a = b
  BY <1>1, <1>2, <1>3, <1>4 DEF IsInjective
<1>6. Contains(new, x)
  BY <1>1, <1>2, <1>3 DEF Contains
<1>7. \A y : Contains(s, y) => Contains(new, y)
  BY <1>1, <1>2, <1>3 DEF Contains
<1>8. IsInjective(new)
  BY <1>5 DEF IsInjective
<1> QED
  BY <1>1, <1>6, <1>7, <1>8 DEF new

\* Settings that can be merged have all that is required afterwards, with the user's
\* entries in front; those that have it already stay as they are.
LEMMA MergedFacts ==
  ASSUME bridge \in Json, NEW old \in SettingsOf(bridge), Mergeable(old)
  PROVE  /\ Merged(old) \in SettingsOf(bridge)
         /\ \A k \in DOMAIN RequiredList[bridge] :
              /\ Merged(old)[k] \in Seq(Entries)
              /\ Range(RequiredList[bridge][k]) \subseteq Range(Merged(old)[k])
              /\ old[k] /= Absent => IsPrefix(old[k], Merged(old)[k])
         /\ (\A k \in DOMAIN RequiredList[bridge] :
               /\ old[k] \in Seq(Entries)
               /\ Range(RequiredList[bridge][k]) \subseteq Range(old[k])) => Merged(old) = old
<1> DEFINE D == DOMAIN RequiredList[bridge]
           from(k) == IF old[k] = Absent THEN <<>> ELSE old[k]
           new == Merged(old)
<1>1. old \in [D -> {Absent, Bad} \cup Seq(Entries)] /\ \A k \in D : old[k] /= Bad
  BY DEF SettingsOf, Mergeable
<1>2. new = [k \in D |-> PushMissing(from(k), RequiredList[bridge][k])]
  BY <1>1 DEF Merged
<1>3. \A k \in D : RequiredList[bridge][k] \in Seq(Entries) /\ Absent \notin Seq(Entries)
  BY BridgesAssumption
<1> HIDE DEF D, new
<1>4. \A k \in D : from(k) \in Seq(Entries)
  BY <1>1
<1>5. ASSUME NEW k \in D
      PROVE  /\ new[k] \in Seq(Entries)
             /\ IsPrefix(from(k), new[k])
             /\ Range(RequiredList[bridge][k]) \subseteq Range(new[k])
             /\ Range(RequiredList[bridge][k]) \subseteq Range(from(k)) => new[k] = from(k)
  <2>1. new[k] = PushMissing(from(k), RequiredList[bridge][k])
    BY <1>2
  <2> HIDE DEF from
  <2> QED BY <1>3, <1>4, <2>1, PushMissingFacts
<1>6. new \in [D -> {Absent, Bad} \cup Seq(Entries)]
  BY <1>2, <1>5
<1>7. \A k \in D : old[k] /= Absent => from(k) = old[k]
  OBVIOUS
<1>8. ASSUME \A k \in D : /\ old[k] \in Seq(Entries)
                          /\ Range(RequiredList[bridge][k]) \subseteq Range(old[k])
      PROVE  new = old
  <2>1. \A k \in D : from(k) = old[k]
    BY <1>3, <1>7, <1>8
  <2> HIDE DEF from
  <2>2. \A k \in D : new[k] = old[k]
    BY <1>5, <1>8, <2>1
  <2>3. new = [k \in D |-> new[k]] /\ old = [k \in D |-> old[k]]
    BY <1>1, <1>2
  <2> QED BY <2>2, <2>3
<1> HIDE DEF from
<1>9. \A k \in D : old[k] /= Absent => IsPrefix(old[k], new[k])
  BY <1>5, <1>7
<1> QED BY <1>5, <1>6, <1>8, <1>9 DEF D, new, SettingsOf

-----------------------------------------------------------------------------
\* What an init has done in a project is not undone by what only adds to the files.
Adds ==
  /\ bridge' = bridge /\ instructions \subseteq instructions'
  /\ mounts = Absent => mounts' = Absent
  /\ \A p \in Projects : Contains(mounts, p) => Contains(mounts', p)
  /\ \A p \in Projects : Contains(registry, p) => Contains(registry', p)
  /\ \A p \in Projects : ListsMerged(p) => ListsMerged(p)'
  /\ servers \subseteq servers'
  /\ CodexMerged => CodexMerged'

LEMMA AddsKeep ==
  ASSUME BridgesIInv, Adds
  PROVE  /\ \A p \in Projects : Mounted(p) => Mounted(p)'
         /\ \A p \in Projects : DoneIn(p) => DoneIn(p)'
         /\ \A p \in inited : p \in Projects /\ DoneIn(p)'
         /\ inited' \subseteq inited => InitedInv'
<1>1. inited \subseteq Projects
  BY DEF BridgesIInv, BridgesTypeOK
<1>2. \A p \in Projects : Mounted(p) => Mounted(p)'
  BY DEF Adds, Mounted
<1>3. IsRegistered => IsRegistered'
  BY DEF Adds, IsRegistered
<1>4. ASSUME NEW p \in Projects, DoneIn(p) PROVE DoneIn(p)'
  <2>1. /\ p \in instructions /\ Mounted(p) /\ Contains(registry, p)
        /\ bridge \in Json => ListsMerged(p) /\ IsRegistered
        /\ bridge = "codex" => CodexMerged
    BY <1>4 DEF DoneIn
  <2>2. /\ p \in instructions' /\ Mounted(p)' /\ Contains(registry', p)
        /\ bridge' \in Json => ListsMerged(p)' /\ IsRegistered'
        /\ bridge' = "codex" => CodexMerged'
    BY <1>2, <1>3, <2>1 DEF Adds
  <2> QED BY <2>2 DEF DoneIn
<1>5. \A p \in inited : p \in Projects /\ DoneIn(p)'
  BY <1>1, <1>4 DEF BridgesIInv, InitedInv
<1> QED BY <1>2, <1>4, <1>5 DEF InitedInv

\* The command goes on to another place.
LEMMA GoOnFacts ==
  ASSUME BridgesIInv, cmd /= NoCmd, NEW place \in Places(cmd.op), NEW well \in BOOLEAN,
         GoOn(place, well)
  PROVE  /\ cmd' \in [op : {"init", "deregister"}, dir : Projects, well : BOOLEAN,
                      at : Places(cmd.op)]
         /\ cmd'.op = cmd.op /\ cmd'.dir = cmd.dir /\ cmd'.at = place
         /\ cmd'.well => cmd.well /\ well
         /\ bridge' = bridge /\ count' = count /\ inited' = inited /\ ~deregistered'
         /\ cmd.op = "deregister" => inited' = {}
<1>1. /\ cmd \in [op : {"init", "deregister"}, dir : Projects, well : BOOLEAN,
                  at : Places(cmd.op)]
      /\ ~deregistered /\ (cmd.op = "deregister" => inited = {})
  BY DEF BridgesIInv, CmdInv
<1>2. cmd' = [cmd EXCEPT !.at = place, !.well = @ /\ well]
  BY DEF GoOn
<1>3. cmd.well \in BOOLEAN
  BY <1>1
<1>4. (cmd.well /\ well) \in BOOLEAN
  OBVIOUS
<1>5. cmd'.op = cmd.op /\ cmd'.dir = cmd.dir /\ cmd'.at = place /\ cmd'.well = (cmd.well /\ well)
  BY <1>1, <1>2
<1>6. cmd' \in [op : {"init", "deregister"}, dir : Projects, well : BOOLEAN,
                at : Places(cmd.op)]
  BY <1>1, <1>2, <1>4
<1> QED BY <1>1, <1>5, <1>6 DEF GoOn

\* A command that begins.
LEMMA StartKeepsIInv ==
  ASSUME BridgesIInv, NEW p \in Projects, BeginInit(p) \/ BeginDeregister(p)
  PROVE  BridgesIInv'
<1>1. PICK op \in {"init", "deregister"}, first \in {"instructions", "cli", "codex"} :
        /\ StartCommand(op, first, p)
        /\ first \in Places(op) /\ (op = "init" => first = "instructions")
  <2>1. CASE BeginInit(p)
    BY <2>1 DEF BeginInit, Places
  <2>2. CASE BeginDeregister(p)
    <3> DEFINE first == IF bridge \in Json THEN "cli" ELSE "codex"
    <3> DEFINE cased == CASE bridge \in Json -> "cli" [] bridge = "codex" -> "codex" [] OTHER -> "mcp"
    <3>1. first = cased
      <4>1. CASE bridge \in Json
        <5>1. bridge /= "codex"
          BY <4>1 DEF Json
        <5> QED BY <4>1, <5>1
      <4>2. CASE bridge = "codex"
        <5>1. bridge \notin Json
          BY <4>2 DEF Json
        <5> QED BY <4>2, <5>1
      <4> QED BY <4>1, <4>2 DEF BridgesIInv, Agents
    <3>2. StartCommand("deregister", first, p)
      <4>1. StartCommand("deregister", cased, p)
        BY <2>2 DEF BeginDeregister
      <4> HIDE DEF first, cased
      <4> QED BY <3>1, <4>1
    <3>3. first \in Places("deregister") /\ first \in {"instructions", "cli", "codex"}
      BY DEF Places
    <3> HIDE DEF first
    <3> QED BY <3>2, <3>3
  <2> QED BY <2>1, <2>2
<1>2. /\ cmd' = [op |-> op, dir |-> p, at |-> first, well |-> TRUE]
      /\ count' \in 0 .. MaxCommands /\ ~deregistered' /\ deregistered' \in BOOLEAN
      /\ inited' \subseteq inited /\ (op = "deregister" => inited' = {})
      /\ UNCHANGED <<bridge, agentFiles, torn>>
  <2>1. count \in 0 .. MaxCommands /\ MaxCommands \in Nat /\ count < MaxCommands
    BY <1>1, BridgesAssumption DEF StartCommand, BridgesIInv, BridgesTypeOK
  <2>2. count' = count + 1
    BY <1>1 DEF StartCommand
  <2>3. count' \in 0 .. MaxCommands
    BY <2>1, <2>2
  <2> QED BY <1>1, <2>3 DEF StartCommand
<1>3. Places(op)' = Places(op)
  BY <1>2 DEF Places
<1>4. cmd'.op = op /\ cmd'.dir = p /\ cmd'.at = first
  BY <1>2
<1>5. CmdInv'
  <2>1. cmd' \in [op : {"init", "deregister"}, dir : Projects, well : BOOLEAN, at : Places(op)]
    BY <1>1, <1>2
  <2>2. Progress'
    BY <1>1, <1>4 DEF Progress
  <2> QED BY <1>1, <1>2, <1>3, <1>4, <2>1, <2>2 DEF CmdInv
<1>6. InitedInv'
  BY <1>2, AddsKeep DEF Adds, agentFiles, ListsMerged, CodexMerged
<1>7. BridgesTypeOK'
  <2>1. cmd' \in [op : {"init", "deregister"}, dir : Projects, well : BOOLEAN,
         at : {"instructions", "mount", "registry", "settings", "cli", "codex", "mcp", "toolsets"}]
    BY <1>1, <1>2 DEF Places
  <2> QED BY <1>2, <2>1 DEF BridgesIInv, BridgesTypeOK, agentFiles
<1> QED BY <1>2, <1>5, <1>6, <1>7 DEF BridgesIInv, DeregisterTakesEffect, agentFiles

\* A command that ends before its time.
LEMMA BreakKeepsIInv ==
  ASSUME BridgesIInv, Break, UNCHANGED torn, BridgesTypeOK',
         (bridge /= "codex" => codex' = codex) /\ hermes' = hermes
  PROVE  BridgesIInv'
  BY DEF BridgesIInv, Break, CmdInv, InitedInv, DeregisterTakesEffect, Agents

-----------------------------------------------------------------------------
\* The part of the invariant that is about the files alone.
FilesOK ==
  /\ bridge \in Agents /\ instructions \subseteq Projects
  /\ mounts = Absent \/ (mounts \in Seq(Projects) /\ IsInjective(mounts))
  /\ registry \in Seq(Projects) /\ IsInjective(registry)
  /\ settings \in [Projects -> {Absent, Bad} \cup IF bridge \in Json THEN SettingsOf(bridge) ELSE {}]
  /\ servers \subseteq Names
  /\ codex \in {Absent, Bad, Unreadable} \cup CodexConfig
  /\ (bridge /= "codex" => codex = Absent) /\ hermes = Absent /\ torn = FALSE

LEMMA FilesAreOK ==
  ASSUME BridgesIInv
  PROVE  FilesOK
BY DEF BridgesIInv, BridgesTypeOK, FilesOK

\* A step after which the command goes on.
LEMMA GoOnKeepsIInv ==
  ASSUME BridgesIInv, cmd /= NoCmd, NEW place \in Places(cmd.op), NEW well \in BOOLEAN,
         GoOn(place, well), Adds, FilesOK', Progress'
  PROVE  BridgesIInv'
<1>1. /\ cmd' \in [op : {"init", "deregister"}, dir : Projects, well : BOOLEAN,
                   at : Places(cmd.op)]
      /\ cmd'.op = cmd.op /\ cmd'.at = place
      /\ bridge' = bridge /\ count' = count /\ inited' = inited /\ ~deregistered'
      /\ cmd.op = "deregister" => inited' = {}
  BY GoOnFacts
<1>2. Places(cmd.op)' = Places(cmd.op)
  BY <1>1 DEF Places
<1>3. cmd'.op \in {"init", "deregister"} /\ cmd'.dir \in Projects
  BY <1>1
<1>4. CmdInv'
  BY <1>1, <1>2, <1>3 DEF CmdInv
<1>5. InitedInv'
  BY <1>1, AddsKeep
<1>6. cmd' \in [op : {"init", "deregister"}, dir : Projects, well : BOOLEAN,
       at : {"instructions", "mount", "registry", "settings", "cli", "codex", "mcp", "toolsets"}]
  BY <1>1 DEF Places
<1>7. inited \subseteq Projects /\ count \in 0 .. MaxCommands
  BY DEF BridgesIInv, BridgesTypeOK
<1>8. BridgesTypeOK'
  <2>1. bridge' \in Bridge /\ deregistered' \in BOOLEAN /\ torn' \in BOOLEAN
    BY <1>1 DEF FilesOK, Agents, Bridge, Json, GoOn, BridgesIInv, BridgesTypeOK
  <2> QED BY <1>1, <1>6, <1>7, <2>1 DEF FilesOK, BridgesTypeOK
<1> QED BY <1>1, <1>4, <1>5, <1>8 DEF BridgesIInv, FilesOK, DeregisterTakesEffect

\* The last step of a command.
LEMMA FinishKeepsIInv ==
  ASSUME BridgesIInv, cmd /= NoCmd, NEW well \in BOOLEAN, Finish(well), FilesOK',
         DeregisterTakesEffect',
         cmd.op = "init" => Adds,
         \A p \in Projects : cmd.op = "init" /\ cmd.well /\ well /\ p = cmd.dir => DoneIn(p)'
  PROVE  BridgesIInv'
<1>1. /\ cmd.dir \in Projects /\ cmd.well \in BOOLEAN
      /\ inited \subseteq Projects /\ count \in 0 .. MaxCommands
  BY DEF BridgesIInv, BridgesTypeOK, CmdInv
<1>2. cmd' = NoCmd /\ bridge' = bridge /\ count' = count /\ deregistered' \in BOOLEAN
  BY DEF Finish
<1>3. InitedInv' /\ inited' \subseteq Projects
  <2>1. CASE inited' = {}
    BY <2>1 DEF InitedInv
  <2>2. CASE inited' /= {}
    <3>1. cmd.op = "init" /\ cmd.well /\ well /\ inited' = inited \cup {cmd.dir}
      BY <2>2 DEF Finish
    <3>2. \A p \in inited : p \in Projects /\ DoneIn(p)'
      BY <3>1, AddsKeep
    <3> QED BY <1>1, <3>1, <3>2 DEF InitedInv
  <2> QED BY <2>1, <2>2
<1>4. BridgesTypeOK'
  <2>1. bridge' \in Bridge /\ torn' \in BOOLEAN
    BY <1>2 DEF FilesOK, Agents, Bridge, Json
  <2> QED BY <1>1, <1>2, <1>3, <2>1 DEF FilesOK, BridgesTypeOK
<1> QED BY <1>2, <1>3, <1>4 DEF BridgesIInv, FilesOK, CmdInv

\* What is so of a command before its step.
LEMMA AtFacts ==
  ASSUME BridgesIInv, NEW op \in {"init", "deregister"}, NEW place, At(op, place)
  PROVE  /\ cmd /= NoCmd /\ cmd.op = op /\ cmd.at = place /\ place \in Places(op)
         /\ cmd.dir \in Projects /\ Progress /\ FilesOK /\ ~deregistered
         /\ bridge \in Agents /\ (op = "deregister" => inited = {})
<1>1. cmd /= NoCmd
  <2>1. NoCmd.op = "none" /\ op /= "none"
    BY DEF NoCmd
  <2> QED BY <2>1 DEF At
<1> QED BY <1>1, FilesAreOK DEF BridgesIInv, CmdInv, At

\* write_project_instructions.
LEMMA InstructionsKeepIInv ==
  ASSUME BridgesIInv, WriteProjectInstructions
  PROVE  BridgesIInv'
<1>1. At("init", "instructions")
  BY DEF WriteProjectInstructions
<1>2. /\ cmd /= NoCmd /\ cmd.op = "init" /\ cmd.dir \in Projects /\ FilesOK
  BY <1>1, AtFacts
<1>3. PICK well \in BOOLEAN :
        /\ GoOn("mount", well) /\ instructions' \in {instructions, instructions \cup {cmd.dir}}
        /\ well => cmd.dir \in instructions'
  BY DEF WriteProjectInstructions
<1>4. UNCHANGED <<bridge, mounts, registry, settings, servers, codex, hermes, torn>>
  BY <1>3 DEF WriteProjectInstructions, GoOn
<1>5. "mount" \in Places(cmd.op)
  BY <1>2 DEF Places
<1>6. Adds
  BY <1>3, <1>4 DEF Adds, ListsMerged, CodexMerged
<1>7. FilesOK'
  BY <1>2, <1>3, <1>4 DEF FilesOK
<1>8. Progress'
  <2>1. cmd'.dir = cmd.dir /\ cmd'.at = "mount" /\ (cmd'.well => well)
    BY <1>2, <1>3, <1>5, GoOnFacts
  <2> QED BY <1>3, <2>1 DEF Progress
<1> QED BY <1>2, <1>3, <1>5, <1>6, <1>7, <1>8, GoOnKeepsIInv

\* allow_mount_path.
LEMMA MountKeepsIInv ==
  ASSUME BridgesIInv, AllowMountPath
  PROVE  BridgesIInv'
<1>1. At("init", "mount")
  BY DEF AllowMountPath
<1>2. /\ cmd /= NoCmd /\ cmd.op = "init" /\ cmd.at = "mount" /\ cmd.dir \in Projects
      /\ FilesOK /\ Progress
  BY <1>1, AtFacts
<1>3. PICK well \in BOOLEAN :
        /\ GoOn("registry", well)
        /\ \/ mounts' = mounts
           \/ mounts /= Absent /\ ~Contains(mounts, cmd.dir) /\ mounts' = Append(mounts, cmd.dir)
        /\ well => mounts' = Absent \/ Contains(mounts', cmd.dir)
  <2>1. CASE mounts = Absent \/ Contains(mounts, cmd.dir)
    BY <2>1 DEF AllowMountPath
  <2>2. CASE ~(mounts = Absent \/ Contains(mounts, cmd.dir))
    <3>1. CASE mounts' = Append(mounts, cmd.dir) /\ GoOn("registry", TRUE)
      <4>1. Contains(mounts', cmd.dir)
        BY <1>2, <2>2, <3>1, AppendNew DEF FilesOK
      <4> QED BY <2>2, <3>1, <4>1
    <3>2. CASE UNCHANGED mounts /\ GoOn("registry", FALSE)
      BY <3>2
    <3> QED BY <2>2, <3>1, <3>2 DEF AllowMountPath
  <2> QED BY <2>1, <2>2
<1>4. UNCHANGED <<bridge, instructions, registry, settings, servers, codex, hermes, torn>>
  BY <1>3 DEF AllowMountPath, GoOn
<1>5. "registry" \in Places(cmd.op)
  BY <1>2 DEF Places
<1>6. /\ mounts' = Absent \/ (mounts' \in Seq(Projects) /\ IsInjective(mounts'))
      /\ mounts = Absent => mounts' = Absent
      /\ \A p \in Projects : Contains(mounts, p) => Contains(mounts', p)
  <2>1. CASE mounts' = mounts
    BY <1>2, <2>1 DEF FilesOK
  <2>2. CASE mounts /= Absent /\ ~Contains(mounts, cmd.dir) /\ mounts' = Append(mounts, cmd.dir)
    <3>1. mounts \in Seq(Projects) /\ IsInjective(mounts)
      BY <1>2, <2>2 DEF FilesOK
    <3> QED BY <1>2, <2>2, <3>1, AppendNew
  <2> QED BY <1>3, <2>1, <2>2
<1>7. Adds
  BY <1>4, <1>6 DEF Adds, ListsMerged, CodexMerged
<1>8. FilesOK'
  BY <1>2, <1>4, <1>6 DEF FilesOK
<1>9. Progress'
  <2>1. cmd'.op = cmd.op /\ cmd'.dir = cmd.dir /\ cmd'.at = "registry" /\ (cmd'.well => cmd.well /\ well)
    BY <1>2, <1>3, <1>5, GoOnFacts
  <2>2. cmd.well => cmd.dir \in instructions
    BY <1>2 DEF Progress
  <2> QED BY <1>3, <1>4, <2>1, <2>2 DEF Progress, Mounted
<1> QED BY <1>2, <1>3, <1>5, <1>7, <1>8, <1>9, GoOnKeepsIInv

\* register_project.
LEMMA RegistryKeepsIInv ==
  ASSUME BridgesIInv, RegisterProject
  PROVE  BridgesIInv'
<1>1. At("init", "registry")
  BY DEF RegisterProject
<1>2. /\ cmd /= NoCmd /\ cmd.op = "init" /\ cmd.at = "registry" /\ cmd.dir \in Projects
      /\ FilesOK /\ Progress /\ bridge \in Agents
  BY <1>1, AtFacts
<1>3. Own \in {"settings", "codex"} /\ Own \in Places(cmd.op)
  <2>1. CASE bridge \in Json
    <3>1. bridge /= "codex"
      BY <2>1 DEF Json
    <3>2. Own = "settings"
      BY <2>1, <3>1 DEF Own
    <3> QED BY <1>2, <2>1, <3>2 DEF Places
  <2>2. CASE bridge = "codex"
    <3>1. bridge \notin Json
      BY <2>2 DEF Json
    <3>2. Own = "codex"
      BY <2>2, <3>1 DEF Own
    <3> QED BY <1>2, <3>1, <3>2 DEF Places
  <2> QED BY <1>2, <2>1, <2>2 DEF Agents
<1>4. UNCHANGED <<bridge, instructions, mounts, settings, servers, codex, hermes, torn>>
  BY DEF RegisterProject, GoOn
<1>5. /\ registry' \in Seq(Projects) /\ IsInjective(registry') /\ Contains(registry', cmd.dir)
      /\ \A p \in Projects : Contains(registry, p) => Contains(registry', p)
  <2>1. registry \in Seq(Projects) /\ IsInjective(registry)
    BY <1>2 DEF FilesOK
  <2>2. CASE Contains(registry, cmd.dir)
    BY <2>1, <2>2 DEF RegisterProject
  <2>3. CASE ~Contains(registry, cmd.dir)
    <3>1. registry' = Append(registry, cmd.dir)
      BY <2>3 DEF RegisterProject
    <3> QED BY <1>2, <2>1, <2>3, <3>1, AppendNew
  <2> QED BY <2>2, <2>3
<1>6. Adds
  BY <1>4, <1>5 DEF Adds, ListsMerged, CodexMerged
<1>7. FilesOK'
  BY <1>2, <1>4, <1>5 DEF FilesOK
<1>8. GoOn(Own, TRUE)
  BY DEF RegisterProject
<1>9. Progress'
  <2>1. cmd'.op = cmd.op /\ cmd'.dir = cmd.dir /\ cmd'.at = Own /\ (cmd'.well => cmd.well)
    BY <1>2, <1>3, <1>8, GoOnFacts
  <2>2. cmd.well => cmd.dir \in instructions /\ Mounted(cmd.dir)
    BY <1>2 DEF Progress
  <2> QED BY <1>3, <1>4, <1>5, <2>1, <2>2 DEF Progress, Mounted
<1> QED BY <1>2, <1>3, <1>6, <1>7, <1>8, <1>9, GoOnKeepsIInv

-----------------------------------------------------------------------------
\* What WriteSettings makes of a project's settings: as they were, or with all that is
\* required.
NewSettings(p) == IF settings[p] = Absent THEN RequiredList[bridge] ELSE MergeSettings(settings[p])

\* Settings that were there already and could not be merged are all that lacks it.
LEMMA NewSettingsFacts ==
  ASSUME BridgesIInv, bridge \in Json, NEW p \in Projects
  PROVE  LET new == NewSettings(p) IN
         /\ new \in {Absent, Bad} \cup SettingsOf(bridge)
         /\ new /= settings[p] \/ Mergeable(settings[p]) =>
              /\ new \in SettingsOf(bridge)
              /\ \A k \in DOMAIN RequiredList[bridge] :
                   /\ new[k] \in Seq(Entries)
                   /\ Range(RequiredList[bridge][k]) \subseteq Range(new[k])
         /\ ListsMerged(p) => new = settings[p]
         /\ settings[p] \notin {Absent, Bad} /\ new /= Bad =>
              \A k \in DOMAIN settings[p] :
                /\ settings[p][k] = Bad => new[k] = Bad
                /\ settings[p][k] \notin {Absent, Bad} => IsPrefix(settings[p][k], new[k])
<1> DEFINE old == settings[p]
           new == NewSettings(p)
           D == DOMAIN RequiredList[bridge]
           full(s) == /\ s \in SettingsOf(bridge)
                      /\ \A k \in D : /\ s[k] \in Seq(Entries)
                                      /\ Range(RequiredList[bridge][k]) \subseteq Range(s[k])
<1>1. old \in {Absent, Bad} \cup SettingsOf(bridge)
  BY DEF BridgesIInv, BridgesTypeOK
<1>2. /\ {Absent, Bad} \cap SettingsOf(bridge) = {} /\ Absent /= Bad
      /\ {Absent, Bad} \cap Seq(Entries) = {}
      /\ \A k \in D : RequiredList[bridge][k] \in Seq(Entries)
  BY BridgesAssumption
<1>3. RequiredList[bridge] = [k \in D |-> RequiredList[bridge][k]]
  BY DEF RequiredList, ClaudeLists, GeminiLists, Json
<1>4. full(RequiredList[bridge])
  <2>1. RequiredList[bridge] \in SettingsOf(bridge)
    BY <1>2, <1>3 DEF SettingsOf
  <2> QED BY <1>2, <2>1
<1>5. CASE old = Absent
  <2>1. new = RequiredList[bridge] /\ new /= old
    BY <1>2, <1>4, <1>5 DEF NewSettings
  <2>2. ~ListsMerged(p)
    BY <1>2, <1>5 DEF ListsMerged
  <2> QED BY <1>4, <1>5, <2>1, <2>2
<1>6. CASE old = Bad
  <2>1. ~Mergeable(old)
    BY <1>6 DEF Mergeable
  <2>2. new = old
    BY <1>2, <1>6, <2>1 DEF NewSettings, MergeSettings
  <2> QED BY <1>6, <2>1, <2>2
<1>7. CASE old \in SettingsOf(bridge) /\ ~Mergeable(old)
  <2>1. new = old /\ old \notin {Absent, Bad}
    BY <1>2, <1>7 DEF NewSettings, MergeSettings
  <2>2. ASSUME NEW k \in DOMAIN old, old[k] \notin {Absent, Bad}
        PROVE  IsPrefix(old[k], old[k])
    <3>1. old[k] \in Seq(Entries)
      BY <1>7, <2>2 DEF SettingsOf
    <3> QED BY <3>1, PrefixPlaces
  <2> QED BY <1>7, <2>1, <2>2
<1>8. CASE old \in SettingsOf(bridge) /\ Mergeable(old)
  <2>1. new = Merged(old) /\ old \notin {Absent, Bad}
    BY <1>2, <1>8 DEF NewSettings, MergeSettings
  <2>2. DOMAIN old = D
    BY <1>8 DEF SettingsOf
  <2>3. full(new) /\ \A k \in D : old[k] /= Absent => IsPrefix(old[k], new[k])
    <3> HIDE DEF old, new
    <3>1. /\ Merged(old) \in SettingsOf(bridge)
          /\ \A k \in D :
               /\ Merged(old)[k] \in Seq(Entries)
               /\ Range(RequiredList[bridge][k]) \subseteq Range(Merged(old)[k])
               /\ old[k] /= Absent => IsPrefix(old[k], Merged(old)[k])
      BY <1>8, MergedFacts
    <3> QED BY <2>1, <3>1
  <2>4. ListsMerged(p) => new = old
    BY <1>8, <2>1, MergedFacts DEF ListsMerged
  <2>5. \A k \in D : old[k] /= Bad
    BY <1>8, <2>2 DEF Mergeable
  <2> QED BY <2>1, <2>2, <2>3, <2>4, <2>5
<1> QED BY <1>1, <1>5, <1>6, <1>7, <1>8

\* A project's settings are saved.
LEMMA SavedFacts ==
  ASSUME FilesOK, bridge' = bridge, bridge \in Json, NEW p \in Projects, NEW new, Save(p, new)
  PROVE  /\ settings'[p] = new
         /\ \A q \in Projects : q /= p => settings'[q] = settings[q]
         /\ new \in {Absent, Bad} \cup SettingsOf(bridge) =>
              settings' \in [Projects -> {Absent, Bad} \cup SettingsOf(bridge)]
BY DEF FilesOK, Save

\* Claude's and Gemini's settings, and the steps that leave them alone.
LEMMA SettingsKeepIInv ==
  ASSUME BridgesIInv, WriteSettings
  PROVE  BridgesIInv'
<1> DEFINE p == cmd.dir
           new == NewSettings(p)
<1>1. At("init", "settings")
  BY DEF WriteSettings
<1>2. /\ cmd /= NoCmd /\ cmd.op = "init" /\ cmd.at = "settings" /\ p \in Projects
      /\ FilesOK /\ Progress /\ bridge \in Agents /\ "settings" \in Places("init")
  BY <1>1, AtFacts
<1>3. bridge \in Json
  BY <1>2 DEF Places
<1>4. "cli" \in Places(cmd.op)
  BY <1>2, <1>3 DEF Places
<1>5. /\ \/ new = settings[p] /\ UNCHANGED settings /\ GoOn("cli", Mergeable(settings[p]))
         \/ new /= settings[p] /\ Save(p, new) /\ GoOn("cli", TRUE)
         \/ new /= settings[p] /\ Save(p, Bad) /\ Break
      /\ UNCHANGED <<instructions, mounts, registry, servers, codex, hermes, torn>>
  BY DEF WriteSettings, NewSettings
<1>6. bridge' = bridge
  BY <1>5 DEF GoOn, Break
<1>7. /\ new \in {Absent, Bad} \cup SettingsOf(bridge)
      /\ new /= settings[p] \/ Mergeable(settings[p]) =>
           /\ new \in SettingsOf(bridge)
           /\ \A k \in DOMAIN RequiredList[bridge] :
                /\ new[k] \in Seq(Entries)
                /\ Range(RequiredList[bridge][k]) \subseteq Range(new[k])
  BY <1>2, <1>3, NewSettingsFacts
<1> HIDE DEF new
<1>8. CASE Save(p, Bad) /\ Break
  <2>1. settings' \in [Projects -> {Absent, Bad} \cup SettingsOf(bridge)]
    BY <1>2, <1>3, <1>6, <1>8, SavedFacts
  <2>2. /\ cmd' = NoCmd /\ count' = count /\ inited' = {} /\ deregistered' = FALSE
    BY <1>8 DEF Break
  <2>3. BridgesTypeOK'
    BY <1>3, <1>5, <1>6, <2>1, <2>2 DEF BridgesIInv, BridgesTypeOK
  <2> QED BY <1>5, <1>8, <2>3, BreakKeepsIInv
<1>9. ASSUME NEW well \in BOOLEAN, GoOn("cli", well),
             \/ settings' = settings
             \/ Save(p, new) /\ new /= settings[p],
             well => /\ settings'[p] = new
                     /\ new /= settings[p] \/ Mergeable(settings[p])
      PROVE  BridgesIInv'
  <2>1. settings' \in [Projects -> {Absent, Bad} \cup SettingsOf(bridge)]
    BY <1>2, <1>3, <1>6, <1>7, <1>9, SavedFacts DEF FilesOK
  <2>2. \A q \in Projects : settings'[q] = settings[q] \/
                            (q = p /\ settings'[q] = new /\ new /= settings[p])
    BY <1>2, <1>3, <1>6, <1>9, SavedFacts
  <2>3. \A q \in Projects : ListsMerged(q) => ListsMerged(q)'
    BY <1>6, <1>7, <2>2 DEF ListsMerged
  <2>4. \A q \in Projects : q = p /\ well => ListsMerged(q)'
    BY <1>6, <1>7, <1>9 DEF ListsMerged
  <2>5. Adds
    BY <1>5, <1>6, <2>3 DEF Adds, CodexMerged
  <2>6. FilesOK'
    BY <1>2, <1>3, <1>5, <1>6, <2>1 DEF FilesOK
  <2>7. /\ cmd'.op = cmd.op /\ cmd'.dir = cmd.dir /\ cmd'.at = "cli"
        /\ (cmd'.well => cmd.well /\ well)
    BY <1>2, <1>4, <1>9, GoOnFacts
  <2>8. cmd.well => p \in instructions /\ Mounted(p) /\ Contains(registry, p)
    BY <1>2 DEF Progress
  <2>9. \A q \in Projects : Mounted(q) => Mounted(q)'
    BY <1>5 DEF Mounted
  <2>10. Progress'
    <3>1. \A q \in Projects : q = p /\ cmd'.well =>
            q \in instructions' /\ Mounted(q)' /\ Contains(registry', q) /\ ListsMerged(q)'
      BY <1>5, <2>4, <2>7, <2>8, <2>9
    <3>2. cmd'.well =>
            /\ cmd'.dir \in instructions' /\ (mounts' = Absent \/ Contains(mounts', cmd'.dir))
            /\ Contains(registry', cmd'.dir)
            /\ settings'[cmd'.dir] \in SettingsOf(bridge')
            /\ \A k \in DOMAIN RequiredList[bridge'] :
                 /\ settings'[cmd'.dir][k] \in Seq(Entries)
                 /\ Range(RequiredList[bridge'][k]) \subseteq Range(settings'[cmd'.dir][k])
      BY <1>2, <2>7, <3>1 DEF Mounted, ListsMerged
    <3> QED BY <3>2 DEF Progress, Mounted, ListsMerged
  <2> QED BY <1>2, <1>4, <1>9, <2>5, <2>6, <2>10, GoOnKeepsIInv
<1>10. CASE new = settings[p] /\ UNCHANGED settings /\ GoOn("cli", Mergeable(settings[p]))
  <2>1. Mergeable(settings[p]) \in BOOLEAN
    BY DEF Mergeable
  <2> QED BY <1>9, <1>10, <2>1
<1>11. CASE new /= settings[p] /\ Save(p, new) /\ GoOn("cli", TRUE)
  <2>1. settings'[p] = new
    BY <1>2, <1>3, <1>6, <1>11, SavedFacts
  <2> QED BY <1>9, <1>11, <2>1
<1> QED BY <1>5, <1>8, <1>10, <1>11

\* The steps at the agent's command line.
LEMMA CliKeepsIInv ==
  ASSUME BridgesIInv, CliMissing \/ RegisterCli \/ DeregisterCli
  PROVE  BridgesIInv'
<1>1. cmd.at = "cli" /\ cmd /= NoCmd
  <2>1. cmd.at = "cli"
    BY DEF CliMissing, RegisterCli, DeregisterCli, At
  <2>2. NoCmd.at = ""
    BY DEF NoCmd
  <2> QED BY <2>1, <2>2
<1>2. /\ cmd.op \in {"init", "deregister"} /\ cmd.dir \in Projects /\ "cli" \in Places(cmd.op)
      /\ Progress /\ FilesOK /\ bridge \in Agents
  BY <1>1, FilesAreOK DEF BridgesIInv, CmdInv
<1>3. bridge \in Json /\ bridge /= "codex" /\ bridge /= "hermes"
  BY <1>2 DEF Places, Json
<1>4. PICK well \in BOOLEAN :
        /\ Finish(well)
        /\ \/ servers' = servers
           \/ cmd.op = "init" /\ servers' = servers \cup {"drun"}
           \/ cmd.op = "deregister" /\ servers' = servers \ {"drun"}
        /\ well /\ cmd.op = "init" => IsRegistered'
        /\ well /\ cmd.op = "deregister" => "drun" \notin servers'
  <2>1. CASE CliMissing
    BY <2>1 DEF CliMissing
  <2>2. CASE RegisterCli
    BY <2>2 DEF RegisterCli, At, IsRegistered
  <2>3. CASE DeregisterCli
    BY <2>3 DEF DeregisterCli, At
  <2> QED BY <2>1, <2>2, <2>3
<1>5. UNCHANGED <<bridge, instructions, mounts, registry, settings, codex, hermes, torn>>
  BY <1>4 DEF CliMissing, RegisterCli, DeregisterCli, Finish
<1>6. FilesOK'
  BY <1>2, <1>4, <1>5 DEF FilesOK, Names
<1>7. cmd.op = "init" => Adds
  BY <1>4, <1>5 DEF Adds, ListsMerged, CodexMerged
<1>8. DeregisterTakesEffect'
  <2>1. deregistered' => "drun" \notin servers'
    BY <1>4 DEF Finish
  <2> QED BY <1>3, <1>5, <2>1 DEF DeregisterTakesEffect
<1>9. ASSUME NEW p \in Projects, cmd.op = "init", cmd.well, well, p = cmd.dir
      PROVE  DoneIn(p)'
  <2>1. p \in instructions /\ Mounted(p) /\ Contains(registry, p) /\ ListsMerged(p)
    BY <1>1, <1>9 DEF BridgesIInv, CmdInv, Progress
  <2>2. p \in instructions' /\ Mounted(p)' /\ Contains(registry', p) /\ ListsMerged(p)'
    BY <1>5, <2>1 DEF Mounted, ListsMerged
  <2> QED BY <1>3, <1>4, <1>5, <1>9, <2>2 DEF DoneIn
<1> QED BY <1>1, <1>4, <1>6, <1>7, <1>8, <1>9, FinishKeepsIInv

\* Codex' config with drun's entry, and without it.
LEMMA EntryFacts ==
  ASSUME NEW c \in CodexConfig
  PROVE  /\ AddEntry(c) \in CodexConfig /\ RemoveEntry(c) \in CodexConfig
         /\ Bad \notin {AddEntry(c).servers, AddEntry(c).shell} =>
              "drun" \in AddEntry(c).servers /\ AddEntry(c).shell = Off
         /\ Bad \notin {RemoveEntry(c).servers, RemoveEntry(c).shell} =>
              "drun" \notin RemoveEntry(c).servers /\ RemoveEntry(c).shell /= Off
         /\ c.servers /= Bad =>
              /\ AddEntry(c).servers \ {"drun"} = c.servers \ {"drun"}
              /\ RemoveEntry(c).servers \ {"drun"} = c.servers \ {"drun"}
         /\ c.servers = Bad => AddEntry(c).servers = Bad /\ RemoveEntry(c).servers = Bad
         /\ AddEntry(c).shell = IF c.shell = Bad THEN Bad ELSE Off
         /\ RemoveEntry(c).shell = IF c.shell = Off THEN "unset" ELSE c.shell
         /\ c.servers /= Bad /\ "drun" \in c.servers /\ c.shell = Off =>
              AddEntry(c) = c
<1> DEFINE names == {"drun", "other"}
<1>1. /\ c = [servers |-> c.servers, shell |-> c.shell]
      /\ c.servers = Bad \/ c.servers \subseteq names
      /\ c.shell \in {"unset", "on", Off, Bad}
  BY DEF CodexConfig
<1>2. /\ \A s \in SUBSET names : s /= Bad
      /\ Bad /= Off /\ Off /= "unset" /\ Bad /= "unset"
  BY BridgesAssumption DEF Off
<1>3. /\ AddEntry(c) = [servers |-> IF c.servers = Bad THEN Bad ELSE c.servers \cup {"drun"},
                        shell |-> IF c.shell = Bad THEN Bad ELSE Off]
      /\ RemoveEntry(c) = [servers |-> IF c.servers = Bad THEN Bad ELSE c.servers \ {"drun"},
                           shell |-> IF c.shell = Off THEN "unset" ELSE c.shell]
  <2>1. DOMAIN AddEntry(c) = {"servers", "shell"} /\ DOMAIN RemoveEntry(c) = {"servers", "shell"}
    BY DEF AddEntry, RemoveEntry, CodexConfig
  <2>2. /\ AddEntry(c).servers = IF c.servers = Bad THEN Bad ELSE c.servers \cup {"drun"}
        /\ RemoveEntry(c).servers = IF c.servers = Bad THEN Bad ELSE c.servers \ {"drun"}
    BY DEF AddEntry, RemoveEntry, CodexConfig
  <2>3. /\ AddEntry(c).shell = IF c.shell = Bad THEN Bad ELSE Off
        /\ RemoveEntry(c).shell = IF c.shell = Off THEN "unset" ELSE c.shell
    BY DEF AddEntry, RemoveEntry, CodexConfig
  <2>4. /\ AddEntry(c) = [i \in {"servers", "shell"} |-> AddEntry(c)[i]]
        /\ RemoveEntry(c) = [i \in {"servers", "shell"} |-> RemoveEntry(c)[i]]
    BY <2>1 DEF AddEntry, RemoveEntry, CodexConfig
  <2> QED BY <2>2, <2>3, <2>4
<1>4. c.servers \subseteq names =>
        c.servers \cup {"drun"} \subseteq names /\ c.servers \ {"drun"} \subseteq names
  OBVIOUS
<1>5. AddEntry(c) \in CodexConfig /\ RemoveEntry(c) \in CodexConfig
  BY <1>1, <1>3, <1>4 DEF CodexConfig
<1>6. Bad \notin {AddEntry(c).servers, AddEntry(c).shell} =>
        "drun" \in AddEntry(c).servers /\ AddEntry(c).shell = Off
  BY <1>1, <1>2, <1>3
<1>7. Bad \notin {RemoveEntry(c).servers, RemoveEntry(c).shell} =>
        "drun" \notin RemoveEntry(c).servers /\ RemoveEntry(c).shell /= Off
  BY <1>1, <1>2, <1>3
<1>8. c.servers /= Bad =>
        /\ AddEntry(c).servers \ {"drun"} = c.servers \ {"drun"}
        /\ RemoveEntry(c).servers \ {"drun"} = c.servers \ {"drun"}
  BY <1>3
<1>9. ASSUME c.servers /= Bad, "drun" \in c.servers, c.shell = Off
      PROVE  AddEntry(c) = c
  <2>1. c.servers \cup {"drun"} = c.servers
    BY <1>9
  <2> QED BY <1>1, <1>2, <1>3, <1>9, <2>1
<1>10. /\ c.servers = Bad => AddEntry(c).servers = Bad /\ RemoveEntry(c).servers = Bad
       /\ AddEntry(c).shell = IF c.shell = Bad THEN Bad ELSE Off
       /\ RemoveEntry(c).shell = IF c.shell = Off THEN "unset" ELSE c.shell
  BY <1>3
<1> QED BY <1>5, <1>6, <1>7, <1>8, <1>9, <1>10

\* What stays the user's of Codex' config in a step.
UsersOfCodex ==
  /\ codex.servers /= Bad => codex.servers \ {"drun"} = codex'.servers \ {"drun"}
  /\ codex.servers = Bad => codex'.servers = Bad
  /\ ShellStays

\* It stays in a step that leaves the config alone.
LEMMA SameCodexKeepsUsers ==
  ASSUME codex' = codex
  PROVE  UsersOfCodex
BY DEF UsersOfCodex, ShellStays

\* What EditCodex does, at a codex bridge.
LEMMA EditCodexFacts ==
  ASSUME BridgesIInv, EditCodex
  PROVE  /\ bridge = "codex" /\ cmd /= NoCmd /\ cmd.op \in {"init", "deregister"}
         /\ cmd.dir \in Projects /\ Progress /\ cmd.at = "codex"
         /\ codex' \in {Absent, Bad, Unreadable} \cup CodexConfig
         /\ \E well \in BOOLEAN :
              /\ Finish(well)
              /\ cmd.op = "init" /\ well => CodexMerged'
              /\ cmd.op = "deregister" /\ well =>
                   (codex' \in CodexConfig => "drun" \notin codex'.servers /\ codex'.shell /= Off)
         /\ cmd.op = "init" /\ CodexMerged => codex' = codex
         /\ codex \in CodexConfig => UsersOfCodex
<1> DEFINE new == IF cmd.op = "init" THEN AddEntry(Loaded) ELSE RemoveEntry(Loaded)
           w == Bad \notin {new.servers, new.shell}
<1>1. cmd.at = "codex" /\ cmd /= NoCmd
  <2>1. cmd.at = "codex"
    BY DEF EditCodex
  <2>2. NoCmd.at = ""
    BY DEF NoCmd
  <2> QED BY <2>1, <2>2
<1>2. /\ cmd.op \in {"init", "deregister"} /\ cmd.dir \in Projects /\ "codex" \in Places(cmd.op)
      /\ Progress /\ FilesOK /\ bridge \in Agents
  BY <1>1, FilesAreOK DEF BridgesIInv, CmdInv
<1>3. bridge = "codex"
  BY <1>2 DEF Places, Agents
<1>4. /\ codex \in {Absent, Bad, Unreadable} \cup CodexConfig
      /\ \A c \in CodexConfig : c \notin {Absent, Bad, Unreadable}
      /\ Absent /= Bad /\ Bad /= Unreadable
  BY <1>2, BridgesAssumption DEF FilesOK
<1>5. CASE codex = Bad
  <2>1. codex' = codex /\ Finish(FALSE)
    BY <1>5 DEF EditCodex
  <2>2. codex \notin CodexConfig /\ ~CodexMerged
    BY <1>4, <1>5 DEF CodexMerged
  <2> QED BY <1>1, <1>2, <1>3, <1>4, <2>1, <2>2
<1>6. CASE codex /= Bad
  <2>1. Loaded \in CodexConfig
    <3>1. EmptyConfig \in CodexConfig
      BY DEF EmptyConfig, CodexConfig
    <3> QED BY <1>4, <1>6, <3>1 DEF Loaded
  <2>2. codex \in CodexConfig => Loaded = codex
    BY <1>4 DEF Loaded
  <2>3. /\ new \in CodexConfig
        /\ cmd.op = "init" /\ w => "drun" \in new.servers /\ new.shell = Off /\ new.servers /= Bad
        /\ cmd.op = "deregister" /\ w => "drun" \notin new.servers /\ new.shell /= Off
        /\ Loaded.servers /= Bad => new.servers \ {"drun"} = Loaded.servers \ {"drun"}
        /\ Loaded.servers = Bad => new.servers = Bad
    BY <1>2, <2>1, EntryFacts
  <2>11. \/ new.shell = Loaded.shell
         \/ cmd.op = "init" /\ Loaded.shell /= Bad /\ new.shell = Off
         \/ cmd.op = "deregister" /\ Loaded.shell = Off /\ new.shell = "unset"
    BY <1>2, <2>1, EntryFacts
  <2>4. cmd.op = "init" /\ CodexMerged => new = Loaded
    BY <2>1, <2>2, EntryFacts DEF CodexMerged
  <2>5. cmd.op = "init" /\ w /\ codex \notin CodexConfig => new /= Loaded
    <3>1. codex \notin CodexConfig => Loaded.servers = {}
      BY <1>4, <1>6 DEF Loaded, EmptyConfig
    <3> QED BY <2>3, <3>1
  <2>6. \/ new = Loaded /\ codex' = codex /\ Finish(w)
        \/ new /= Loaded /\ codex' = new /\ Finish(w)
        \/ new /= Loaded /\ codex' = codex /\ Finish(FALSE)
    BY <1>6 DEF EditCodex, SaveCodex
  <2>7. w \in BOOLEAN
    OBVIOUS
  <2> HIDE DEF new, w
  <2>8. CASE new = Loaded /\ codex' = codex /\ Finish(w)
    <3>1. cmd.op = "init" /\ w => CodexMerged'
      <4>1. cmd.op = "init" /\ w => codex = new
        BY <2>2, <2>5, <2>8
      <4> QED BY <2>3, <2>8, <4>1 DEF CodexMerged
    <3>2. cmd.op = "deregister" /\ w /\ codex' \in CodexConfig =>
            "drun" \notin codex'.servers /\ codex'.shell /= Off
      BY <2>2, <2>3, <2>8
    <3> QED BY <1>1, <1>2, <1>3, <1>4, <2>7, <2>8, <3>1, <3>2, SameCodexKeepsUsers
  <2>9. CASE new /= Loaded /\ codex' = new /\ Finish(w)
    <3>1. cmd.op = "init" /\ w => CodexMerged'
      BY <2>3, <2>9 DEF CodexMerged
    <3>2. cmd.op = "deregister" /\ w =>
            "drun" \notin codex'.servers /\ codex'.shell /= Off
      BY <2>3, <2>9
    <3>3. codex \in CodexConfig => UsersOfCodex
      BY <2>2, <2>3, <2>9, <2>11 DEF UsersOfCodex, ShellStays
    <3>4. cmd.op = "init" /\ CodexMerged => codex' = codex
      BY <2>4, <2>9
    <3>5. codex' \in {Absent, Bad, Unreadable} \cup CodexConfig
      BY <2>3, <2>9
    <3> QED BY <1>1, <1>2, <1>3, <2>7, <2>9, <3>1, <3>2, <3>3, <3>4, <3>5
  <2>10. CASE new /= Loaded /\ codex' = codex /\ Finish(FALSE)
    BY <1>1, <1>2, <1>3, <1>4, <2>10, SameCodexKeepsUsers
  <2> QED BY <2>6, <2>8, <2>9, <2>10
<1> QED BY <1>5, <1>6

\* The step of codex.
LEMMA CodexKeepsIInv ==
  ASSUME BridgesIInv, EditCodex
  PROVE  BridgesIInv'
<1>1. /\ bridge = "codex" /\ bridge \notin Json /\ cmd /= NoCmd
      /\ cmd.op \in {"init", "deregister"} /\ cmd.dir \in Projects /\ cmd.at = "codex"
      /\ codex' \in {Absent, Bad, Unreadable} \cup CodexConfig
      /\ cmd.op = "init" /\ CodexMerged => codex' = codex
      /\ Progress /\ FilesOK
  BY EditCodexFacts, FilesAreOK DEF Json
<1>2. PICK well \in BOOLEAN :
        /\ Finish(well)
        /\ cmd.op = "init" /\ well => CodexMerged'
        /\ cmd.op = "deregister" /\ well =>
             (codex' \in CodexConfig => "drun" \notin codex'.servers /\ codex'.shell /= Off)
  BY EditCodexFacts
<1>3. UNCHANGED <<bridge, instructions, mounts, registry, settings, servers, hermes, torn>>
  BY <1>2 DEF EditCodex, Finish
<1>4. FilesOK'
  BY <1>1, <1>3 DEF FilesOK
<1>5. cmd.op = "init" => Adds
  BY <1>1, <1>3 DEF Adds, ListsMerged, CodexMerged
<1>6. DeregisterTakesEffect'
  <2>1. deregistered' /\ codex' \in CodexConfig =>
          "drun" \notin codex'.servers /\ codex'.shell /= Off
    BY <1>2 DEF Finish
  <2> QED BY <1>1, <1>3, <2>1 DEF DeregisterTakesEffect
<1>7. ASSUME NEW p \in Projects, cmd.op = "init", cmd.well, well, p = cmd.dir
      PROVE  DoneIn(p)'
  <2>1. p \in instructions /\ Mounted(p) /\ Contains(registry, p)
    BY <1>1, <1>7 DEF Progress
  <2>2. p \in instructions' /\ Mounted(p)' /\ Contains(registry', p)
    BY <1>3, <2>1 DEF Mounted
  <2> QED BY <1>1, <1>2, <1>3, <1>7, <2>2 DEF DoneIn
<1> QED BY <1>1, <1>2, <1>4, <1>5, <1>6, <1>7, FinishKeepsIInv

\* Hermes' steps are not those of another bridge.
LEMMA NoHermesSteps ==
  ASSUME BridgesIInv
  PROVE  ~(HermesMissing \/ RegisterMcp \/ RestrictToolsets \/ DeregisterHermes)
<1>1. SUFFICES ASSUME HermesMissing \/ RegisterMcp \/ RestrictToolsets \/ DeregisterHermes
               PROVE  FALSE
  OBVIOUS
<1>2. PICK op \in {"init", "deregister"}, place \in {"mcp", "toolsets"} : At(op, place)
  BY <1>1 DEF HermesMissing, RegisterMcp, RestrictToolsets, DeregisterHermes
<1>3. place \in Places(op) /\ bridge \in Agents
  BY <1>2, AtFacts
<1> QED BY <1>2, <1>3 DEF Places

\* A command that is killed.
LEMMA KilledKeepsIInv ==
  ASSUME BridgesIInv, Killed
  PROVE  BridgesIInv'
<1>1. Break /\ UNCHANGED <<agentFiles, torn>>
  BY DEF Killed
<1>2. BridgesTypeOK'
  BY <1>1 DEF BridgesIInv, BridgesTypeOK, Break, agentFiles
<1> QED BY <1>1, <1>2, BreakKeepsIInv DEF agentFiles

\* The user writes settings or Codex' config anew.
LEMMA UserEditsKeepIInv ==
  ASSUME BridgesIInv, UserEdits
  PROVE  BridgesIInv'
<1>1. /\ cmd' = cmd /\ cmd = NoCmd /\ inited' = {} /\ deregistered' = FALSE
      /\ bridge' = bridge /\ bridge \in Agents /\ FilesOK
      /\ UNCHANGED <<instructions, mounts, registry, servers>>
  BY FilesAreOK DEF UserEdits, BridgesIInv
<1>2. count' \in 0 .. MaxCommands
  <2>1. count \in 0 .. MaxCommands /\ MaxCommands \in Nat
    BY BridgesAssumption DEF BridgesIInv, BridgesTypeOK
  <2>2. count < MaxCommands /\ count' = count + 1
    BY DEF UserEdits
  <2> QED BY <2>1, <2>2
<1>3. FilesOK'
  <2>1. CASE bridge \in Json /\ (\E p \in Projects, s \in AgentSettings[bridge] \cup {Absent} : Save(p, s))
             /\ UNCHANGED <<codex, hermes, torn>>
    <3>1. PICK p \in Projects, s \in AgentSettings[bridge] \cup {Absent} : Save(p, s)
      BY <2>1
    <3>2. AgentSettings[bridge] \subseteq SettingsOf(bridge)
      BY <2>1, BridgesAssumption
    <3>3. s \in {Absent, Bad} \cup SettingsOf(bridge)
      BY <3>2
    <3>4. settings' \in [Projects -> {Absent, Bad} \cup SettingsOf(bridge)]
      BY <1>1, <2>1, <3>1, <3>3, SavedFacts
    <3> QED BY <1>1, <2>1, <3>4 DEF FilesOK
  <2>2. CASE bridge = "codex" /\ codex' \in CodexConfig /\ UNCHANGED <<settings, hermes, torn>>
    BY <1>1, <2>2 DEF FilesOK
  <2>3. bridge /= "hermes"
    BY <1>1 DEF Agents, Json
  <2> QED BY <2>1, <2>2, <2>3 DEF UserEdits
<1>4. BridgesTypeOK'
  <2>1. cmd' = NoCmd /\ inited' \subseteq Projects /\ deregistered' \in BOOLEAN
    BY <1>1
  <2>2. bridge' \in Bridge /\ torn' \in BOOLEAN
    BY <1>1, <1>3 DEF FilesOK, Agents, Bridge, Json
  <2> QED BY <1>2, <1>3, <2>1, <2>2 DEF FilesOK, BridgesTypeOK
<1> QED
  BY <1>1, <1>3, <1>4 DEF BridgesIInv, FilesOK, CmdInv, InitedInv, DeregisterTakesEffect

\* The invariant holds at first, at a bridge other than hermes.
LEMMA BridgesInitIInv ==
  ASSUME BridgesInit, bridge /= "hermes"
  PROVE  BridgesIInv
<1>1. /\ bridge \in Bridge /\ cmd = NoCmd /\ count = 0 /\ inited = {}
      /\ deregistered = FALSE /\ torn = FALSE /\ hermes = Absent
      /\ (bridge /= "codex" => codex = Absent)
      /\ instructions \subseteq Projects /\ mounts \in {Absent, <<>>} /\ registry = <<>>
  BY DEF BridgesInit
<1>2. <<>> \in Seq(Projects) /\ IsInjective(<<>>)
  BY DEF IsInjective
<1>3. settings \in [Projects -> {Absent, Bad} \cup IF bridge \in Json THEN SettingsOf(bridge) ELSE {}]
  <2>1. CASE bridge \in Json
    <3>1. AgentSettings[bridge] \subseteq SettingsOf(bridge)
      BY <2>1, BridgesAssumption
    <3>2. settings \in [Projects -> AgentSettings[bridge] \cup {Absent, Bad}]
      BY <2>1 DEF BridgesInit
    <3> QED BY <2>1, <3>1, <3>2
  <2>2. CASE bridge \notin Json
    BY <2>2 DEF BridgesInit
  <2> QED BY <2>1, <2>2
<1>4. servers \subseteq Names /\ codex \in {Absent, Bad, Unreadable} \cup CodexConfig
  BY DEF BridgesInit, Names
<1>5. count \in 0 .. MaxCommands
  BY <1>1, BridgesAssumption
<1>6. BridgesTypeOK
  BY <1>1, <1>2, <1>3, <1>4, <1>5 DEF BridgesTypeOK
<1>7. bridge \in Agents
  BY <1>1 DEF Agents, Bridge
<1> QED BY <1>1, <1>6, <1>7 DEF BridgesIInv, CmdInv, InitedInv, DeregisterTakesEffect

\* Every step keeps it.
LEMMA BridgesNextIInv ==
  ASSUME BridgesIInv, [BridgesNext]_bridgesVars
  PROVE  BridgesIInv'
<1>1. CASE CommandStep
  BY <1>1, NoHermesSteps, InstructionsKeepIInv, MountKeepsIInv, RegistryKeepsIInv,
     SettingsKeepIInv, CliKeepsIInv, CodexKeepsIInv DEF CommandStep
<1>2. CASE Killed
  BY <1>2, KilledKeepsIInv
<1>3. CASE UserEdits
  BY <1>3, UserEditsKeepIInv
<1>4. ASSUME NEW p \in Projects, BeginInit(p) \/ BeginDeregister(p)
      PROVE  BridgesIInv'
  BY <1>4, StartKeepsIInv
<1>5. CASE UNCHANGED bridgesVars
  BY <1>5 DEF bridgesVars, agentFiles, BridgesIInv, BridgesTypeOK, CmdInv, Places, Progress, InitedInv,
     DoneIn, ListsMerged, CodexMerged, Mounted, IsRegistered, DeregisterTakesEffect
<1> QED BY <1>1, <1>2, <1>3, <1>4, <1>5 DEF BridgesNext

\* The commands of claude, gemini and codex: where one of them is, and what the inits that
\* went well have left in the files.
THEOREM BridgesInvariance == BridgesSpec /\ bridge /= "hermes" => []BridgesIInv
<1>1. BridgesInit /\ bridge /= "hermes" => BridgesIInv
  BY BridgesInitIInv
<1>2. BridgesIInv /\ [BridgesNext]_bridgesVars => BridgesIInv'
  BY BridgesNextIInv
<1> QED BY <1>1, <1>2, PTL DEF BridgesSpec

\* What the invariant says of a project.
LEMMA IInvTakesEffect ==
  ASSUME BridgesIInv
  PROVE  CommandsTakeEffect
<1>1. ASSUME NEW p \in inited PROVE Blocked(p) /\ (Reaches \/ Shadowed)
  <2>1. DoneIn(p) /\ bridge \in Agents
    BY DEF BridgesIInv, InitedInv
  <2>2. CASE bridge \in Json
    <3>1. bridge /= "codex" /\ bridge /= "hermes"
      BY <2>2 DEF Json
    <3>2. Reaches \/ Shadowed
      BY <2>1, <2>2, <3>1 DEF DoneIn, IsRegistered, Reaches, Shadowed
    <3> QED BY <2>1, <2>2, <3>1, <3>2 DEF DoneIn, ListsMerged, Blocked
  <2>3. CASE bridge = "codex"
    <3>1. bridge \notin Json
      BY <2>3 DEF Json
    <3> QED BY <2>1, <2>3, <3>1 DEF DoneIn, CodexMerged, Blocked, Reaches
  <2> QED BY <2>1, <2>2, <2>3 DEF Agents
<1> QED BY <1>1 DEF BridgesIInv, CommandsTakeEffect, InitTakesEffect

\* After an init that went well, and whatever inits come after it, the agent has a server
\* drun, unless one with a longer name was taken for it, and its own tools are blocked;
\* after a deregister that went well it knows drun no more: at claude, gemini and codex,
\* for any projects, lists and settings.
THEOREM CommandsEffective == BridgesSpec /\ bridge /= "hermes" => []CommandsTakeEffect
BY BridgesInvariance, IInvTakesEffect, PTL

-----------------------------------------------------------------------------
\* An init of a project whose last init went well changes no file.
LEMMA InitedStaysAsItIs ==
  ASSUME BridgesIInv, BridgesNext, cmd.op = "init", cmd.dir \in inited
  PROVE  UNCHANGED agentFiles
<1> DEFINE p == cmd.dir
<1>1. /\ p \in Projects /\ p \in instructions /\ Mounted(p) /\ Contains(registry, p)
      /\ bridge \in Json => ListsMerged(p) /\ IsRegistered
      /\ bridge = "codex" => CodexMerged
  BY DEF BridgesIInv, BridgesTypeOK, InitedInv, DoneIn
<1>2. cmd /= NoCmd
  <2>1. NoCmd.op = "none"
    BY DEF NoCmd
  <2> QED BY <2>1
<1>3. CASE WriteProjectInstructions
  BY <1>1, <1>3 DEF WriteProjectInstructions, agentFiles
<1>4. CASE AllowMountPath
  BY <1>1, <1>4 DEF AllowMountPath, Mounted, agentFiles
<1>5. CASE RegisterProject
  BY <1>1, <1>5 DEF RegisterProject, agentFiles
<1>6. CASE WriteSettings
  <2>1. At("init", "settings")
    BY <1>6 DEF WriteSettings
  <2>2. bridge \in Json
    BY <2>1, AtFacts DEF Places
  <2>3. NewSettings(p) = settings[p]
    BY <1>1, <2>2, NewSettingsFacts
  <2> QED BY <1>6, <2>3 DEF WriteSettings, NewSettings, agentFiles
<1>7. CASE CliMissing
  BY <1>7 DEF CliMissing, agentFiles
<1>8. CASE RegisterCli
  <2>1. At("init", "cli")
    BY <1>8 DEF RegisterCli
  <2>2. bridge \in Json
    BY <2>1, AtFacts DEF Places
  <2> QED BY <1>1, <1>8, <2>2 DEF RegisterCli, agentFiles
<1>9. ~DeregisterCli
  BY DEF DeregisterCli, At
<1>10. CASE EditCodex
  <2>1. codex' = codex
    BY <1>1, <1>10, EditCodexFacts
  <2> QED BY <1>10, <2>1 DEF EditCodex, agentFiles
<1>11. CASE Killed
  BY <1>11 DEF Killed
<1>12. ~UserEdits /\ \A q \in Projects : ~BeginInit(q) /\ ~BeginDeregister(q)
  BY <1>2 DEF UserEdits, BeginInit, BeginDeregister, StartCommand
<1> QED BY <1>3, <1>4, <1>5, <1>6, <1>7, <1>8, <1>9, <1>10, <1>11, <1>12, NoHermesSteps
        DEF BridgesNext, CommandStep

\* An init that is repeated changes no file, also when inits of other projects came in
\* between: at claude, gemini and codex.
THEOREM InitRepeats == BridgesSpec /\ bridge /= "hermes" => Idempotent
<1>1. BridgesIInv /\ [BridgesNext]_bridgesVars =>
        [(cmd.op = "init" /\ cmd.dir \in inited /\ ~torn) => UNCHANGED agentFiles]_bridgesVars
  BY InitedStaysAsItIs
<1> QED BY <1>1, BridgesInvariance, PTL DEF BridgesSpec, Idempotent

-----------------------------------------------------------------------------
\* Settings that a step leaves as they are.
LEMMA SameSettingsKeepUsers ==
  ASSUME BridgesIInv, bridge \in Json, settings' = settings
  PROVE  KeepsUsers
<1>1. ASSUME NEW p \in Projects, settings[p] \notin {Absent, Bad}, NEW k \in DOMAIN settings[p],
             settings[p][k] \notin {Absent, Bad}
      PROVE  IsPrefix(settings[p][k], settings'[p][k])
  <2>1. settings[p] \in SettingsOf(bridge)
    BY <1>1 DEF BridgesIInv, BridgesTypeOK
  <2>2. settings[p][k] \in Seq(Entries)
    BY <1>1, <2>1 DEF SettingsOf
  <2>3. IsPrefix(settings[p][k], settings[p][k])
    BY <2>2, PrefixPlaces
  <2> QED BY <2>3
<1>2. bridge /= "codex" /\ bridge /= "hermes"
  BY DEF Json
<1> QED BY <1>1, <1>2 DEF KeepsUsers

\* What the user has in settings or in Codex' config stays when a command takes a step.
LEMMA StepKeepsUsers ==
  ASSUME BridgesIInv, BridgesNext, cmd /= NoCmd
  PROVE  KeepsUsers
<1>1. bridge \in Agents /\ FilesOK
  BY FilesAreOK DEF BridgesIInv
<1>2. CASE bridge \in Json
  <2>1. CASE WriteSettings
    <3> DEFINE p == cmd.dir
    <3>1. At("init", "settings")
      BY <2>1 DEF WriteSettings
    <3>2. p \in Projects
      BY <3>1, AtFacts
    <3>3. \/ settings' = settings
          \/ Save(p, NewSettings(p)) \/ Save(p, Bad)
      BY <2>1 DEF WriteSettings, NewSettings
    <3>4. CASE settings' = settings
      BY <1>2, <3>4, SameSettingsKeepUsers
    <3>5. CASE Save(p, NewSettings(p)) \/ Save(p, Bad)
      <4>1. PICK new \in {NewSettings(p), Bad} : Save(p, new)
        BY <3>5
      <4>2. bridge' = bridge
        BY <2>1 DEF WriteSettings, GoOn, Break
      <4>3. settings'[p] = new /\ \A q \in Projects : q /= p => settings'[q] = settings[q]
        BY <1>1, <1>2, <3>2, <4>1, <4>2, SavedFacts
      <4>4. ASSUME NEW q \in Projects, settings[q] \notin {Absent, Bad}, settings'[q] /= Bad,
                   NEW k \in DOMAIN settings[q]
            PROVE  /\ settings[q][k] = Bad => settings'[q][k] = Bad
                   /\ settings[q][k] \notin {Absent, Bad} => IsPrefix(settings[q][k], settings'[q][k])
        <5>1. CASE q = p
          <6>1. settings'[q] = NewSettings(p)
            BY <4>1, <4>3, <4>4, <5>1
          <6> QED BY <1>2, <3>2, <4>4, <5>1, <6>1, NewSettingsFacts
        <5>2. CASE q /= p
          <6>1. settings'[q] = settings[q]
            BY <4>3, <5>2
          <6>2. settings[q][k] \notin {Absent, Bad} => settings[q][k] \in Seq(Entries)
            BY <1>2, <4>4 DEF BridgesIInv, BridgesTypeOK, SettingsOf
          <6>3. settings[q][k] \in Seq(Entries) => IsPrefix(settings[q][k], settings[q][k])
            BY PrefixPlaces
          <6> QED BY <6>1, <6>2, <6>3
        <5> QED BY <5>1, <5>2
      <4>5. bridge /= "codex" /\ bridge /= "hermes"
        BY <1>2 DEF Json
      <4> QED BY <1>2, <4>4, <4>5 DEF KeepsUsers
    <3> QED BY <3>3, <3>4, <3>5
  <2>2. CASE ~WriteSettings
    <3>1. settings' = settings
      BY <2>2, NoHermesSteps DEF BridgesNext, CommandStep, WriteProjectInstructions, AllowMountPath,
         RegisterProject, CliMissing, RegisterCli, DeregisterCli, EditCodex, Killed, UserEdits,
         BeginInit, BeginDeregister, StartCommand, agentFiles
    <3> QED BY <1>2, <3>1, SameSettingsKeepUsers
  <2> QED BY <2>1, <2>2
<1>3. CASE bridge = "codex"
  <2>1. codex \in CodexConfig => UsersOfCodex
    <3>1. CASE EditCodex
      BY <3>1, EditCodexFacts
    <3>2. CASE ~EditCodex
      <4>1. codex' = codex
        BY <3>2, NoHermesSteps DEF BridgesNext, CommandStep, WriteProjectInstructions, AllowMountPath,
           RegisterProject, WriteSettings, CliMissing, RegisterCli, DeregisterCli, Killed, UserEdits,
           BeginInit, BeginDeregister, StartCommand, agentFiles
      <4> QED BY <4>1, SameCodexKeepsUsers
    <3> QED BY <3>1, <3>2
  <2>2. bridge \notin Json
    BY <1>3 DEF Json
  <2> QED BY <1>3, <2>1, <2>2 DEF KeepsUsers, UsersOfCodex
<1> QED BY <1>1, <1>2, <1>3 DEF Agents

\* What the user has in settings stays there, in its order, and of Codex' config the
\* user's servers and an `on` of the shell that a deregister finds, whatever the
\* commands make of drun's entries.
THEOREM UsersKeep == BridgesSpec /\ bridge /= "hermes" => UsersEntriesStay
<1>1. BridgesIInv /\ [BridgesNext]_bridgesVars => [cmd /= NoCmd => KeepsUsers]_bridgesVars
  BY StepKeepsUsers
<1> QED BY <1>1, BridgesInvariance, PTL DEF BridgesSpec, UsersEntriesStay
=============================================================================
