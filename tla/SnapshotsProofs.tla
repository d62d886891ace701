-------------------------- MODULE SnapshotsProofs --------------------------
(***************************************************************************)
(* Theorems about Snapshots: for any number of sessions, requests and      *)
(* crashes, and whatever names session_snapshot is asked to write to.      *)
(*                                                                         *)
(* Requests that write are told apart by the mutex of their object.  That  *)
(* an id was drawn once makes its requests agree on the object, so one of  *)
(* them at a time is at the two files of the id's own path; what is in     *)
(* them follows from how far it got.                                       *)
(***************************************************************************)
EXTENDS Snapshots, TLAPS

Stages == {"open", "write", "openMeta", "writeMeta"}
History(state) == [kind |-> "history", state |-> state]
Meta(state) == [kind |-> "meta", state |-> state]
Pends(w, id) == req[w].at /= "done" /\ req[w].id = id
Writes(w, p) == req[w].at \in Stages /\ req[w].path = p

\* A request has an object that was made, and writes under its mutex.
ReqInv(w) ==
  LET r == req[w] IN
    /\ r.at = "done" => r = Done
    /\ r.at /= "done" =>
         /\ r.id \in Ids /\ r.object \in Objects
         /\ holds[r.object] /= None /\ drawn[r.id] >= 1
         /\ \/ r.kind = "call" /\ r.at = "try"
            \/ r.kind = "snapshot" /\ r.at /= "wait" /\ r.path \in Chosen \cup {DefaultPath(r.id)}
            \/ r.kind = "close" /\ r.at /= "try" /\ r.path = DefaultPath(r.id)
    /\ r.at \in Stages => holder[r.object] = w

\* An id that was drawn once stands for one object.
OpenInv(id) ==
  /\ open[id] /= None => holds[open[id]] /= None /\ drawn[id] >= 1
  /\ drawn[id] <= 1 =>
       \A w \in Writers : Pends(w, id) =>
         /\ open[id] /= None => req[w].object = open[id]
         /\ \A v \in Writers : Pends(v, id) => req[v].object = req[w].object

\* The two files of an id's own path: at rest, and while a request writes them.
DiskInv(id) ==
  LET p == DefaultPath(id) IN
    Own(id) =>
      /\ \A w \in Writers : Writes(w, p) =>
           /\ req[w].at = "write" => disk[p] = Empty
           /\ req[w].at \in {"openMeta", "writeMeta"} => disk[p] = History(holds[req[w].object])
           /\ req[w].at = "writeMeta" => disk[Sidecar(p)] = Empty
      /\ saved[p] /= None /\ ~Writing(p) /\ p \notin cut =>
           disk[p] = History(saved[p]) /\ disk[Sidecar(p)] = Meta(saved[p])

\* What a closed session held is still to be written, or was, or was cut off.
Closes(w, id) == Pends(w, id) /\ req[w].kind = "close"
Covered(id) ==
  LET p == DefaultPath(id) IN
    \/ \E w \in Writers : Closes(w, id)
    \/ p \in cut
    \/ saved[p] /= None /\ saved[p].calls >= closed[id].calls
CloseInv(id) ==
  closed[id] /= None =>
    /\ drawn[id] >= 1
    /\ Own(id) =>
         /\ open[id] = None
         /\ \A w \in Writers : Pends(w, id) => holds[req[w].object].calls >= closed[id].calls
         /\ Covered(id)

\* The inductive invariant.
IInv ==
  /\ TypeOK
  /\ \A w \in Writers : ReqInv(w)
  /\ \A id \in Ids : OpenInv(id) /\ DiskInv(id) /\ CloseInv(id)

-----------------------------------------------------------------------------
\* Two sequences put together, position by position.
LEMMA JoinFacts ==
  ASSUME NEW S, NEW a \in Seq(S), NEW b \in Seq(S)
  PROVE  /\ a \o b \in Seq(S)
         /\ Len(a \o b) = Len(a) + Len(b)
         /\ \A i \in 1 .. Len(a) : (a \o b)[i] = a[i]
         /\ \A i \in Len(a) + 1 .. Len(a) + Len(b) : (a \o b)[i] = b[i - Len(a)]
  OBVIOUS

\* The names of the two files of an id's own path.
LEMMA PathFacts ==
  ASSUME NEW id
  PROVE  /\ Sidecar(DefaultPath(id)) = <<id, "drun", "meta">>
         /\ Front(Sidecar(DefaultPath(id))) = DefaultPath(id)
         /\ IsSidecar(Sidecar(DefaultPath(id)))
         /\ id \in Ids => /\ DefaultPath(id) \in Paths /\ DefaultPath(id) \in Files
                          /\ Sidecar(DefaultPath(id)) \in Files
<1> DEFINE S == {id, "drun", "meta"}
<1>1. Front(<<id, "drun">>) = <<id>>
  <2> DEFINE s == <<id, "drun">>
  <2>1. s \in Seq(S) /\ Len(s) = 2
    OBVIOUS
  <2>2. Front(s) = SubSeq(s, 1, 1) /\ SubSeq(s, 1, 1) = [i \in 1 .. 1 |-> s[i]]
    BY <2>1 DEF Front
  <2>3. <<id>> = [i \in 1 .. 1 |-> s[i]]
    BY <2>1
  <2> QED BY <2>2, <2>3
<1>2. Sidecar(DefaultPath(id)) = <<id, "drun", "meta">>
  <2> DEFINE x == <<id>>
             y == <<"drun", "meta">>
             s == x \o y
  <2>1. /\ x \in Seq(S) /\ Len(x) = 1 /\ x[1] = id
        /\ y \in Seq(S) /\ Len(y) = 2 /\ y[1] = "drun" /\ y[2] = "meta"
    OBVIOUS
  <2>2. Sidecar(DefaultPath(id)) = s
    BY <1>1 DEF Sidecar, DefaultPath, WithExtension
  <2> HIDE DEF x, y
  <2>3. /\ s \in Seq(S) /\ Len(s) = Len(x) + Len(y)
        /\ \A i \in 1 .. Len(x) : s[i] = x[i]
        /\ \A i \in Len(x) + 1 .. Len(x) + Len(y) : s[i] = y[i - Len(x)]
    BY <2>1, JoinFacts
  <2> HIDE DEF s
  <2>4. s[1] = id /\ s[2] = "drun" /\ s[3] = "meta"
    BY <2>1, <2>3
  <2>5. s = [i \in 1 .. 3 |-> s[i]]
    BY <2>1, <2>3
  <2>6. <<id, "drun", "meta">> = [i \in 1 .. 3 |-> s[i]]
    BY <2>4
  <2> QED BY <2>2, <2>5, <2>6
<1>3. Front(<<id, "drun", "meta">>) = <<id, "drun">>
  <2> DEFINE s == <<id, "drun", "meta">>
  <2>1. s \in Seq(S) /\ Len(s) = 3
    OBVIOUS
  <2>2. Front(s) = SubSeq(s, 1, 2) /\ SubSeq(s, 1, 2) = [i \in 1 .. 2 |-> s[i]]
    BY <2>1 DEF Front
  <2>3. <<id, "drun">> = [i \in 1 .. 2 |-> s[i]]
    BY <2>1
  <2> QED BY <2>2, <2>3
<1>4. IsSidecar(<<id, "drun", "meta">>)
  BY DEF IsSidecar, Last
<1>5. id \in Ids => /\ DefaultPath(id) \in Paths /\ DefaultPath(id) \in Files
                   /\ Sidecar(DefaultPath(id)) \in Files
  BY DEF Paths, Files
<1> QED BY <1>2, <1>3, <1>4, <1>5 DEF DefaultPath

\* Paths of different ids share no file, and a path is no sidecar.
LEMMA ApartFacts ==
  ASSUME NEW id, NEW other
  PROVE  /\ DefaultPath(id) /= Sidecar(DefaultPath(other))
         /\ DefaultPath(id) = DefaultPath(other) => id = other
         /\ SharesFile(DefaultPath(id), DefaultPath(other)) => id = other
         /\ DefaultPath(id) /= <<>>
<1>1. /\ Sidecar(DefaultPath(id)) = <<id, "drun", "meta">>
      /\ Sidecar(DefaultPath(other)) = <<other, "drun", "meta">>
  BY PathFacts
<1> QED BY <1>1 DEF DefaultPath, SharesFile

\* A request that writes a file of an id's own path writes to that path, for the id.
LEMMA MyWriter ==
  ASSUME IInv, NEW id \in Ids, Own(id), NEW w \in Writers, req[w].at \in Stages,
         SharesFile(req[w].path, DefaultPath(id))
  PROVE  req[w].path = DefaultPath(id) /\ req[w].id = id
<1> DEFINE r == req[w]
<1>1. r.path \in Chosen \cup {DefaultPath(r.id)}
  BY DEF IInv, ReqInv, Stages
<1>2. Touched(r.path)
  BY DEF Touched, Writing, Stages
<1>3. r.path \notin Chosen
  BY <1>2 DEF Own
<1>4. r.path = DefaultPath(r.id)
  BY <1>1, <1>3
<1>5. r.id = id
  BY <1>4, ApartFacts
<1> QED BY <1>4, <1>5

\* There is one of them at a time.
LEMMA OneWriter ==
  ASSUME IInv, NEW id \in Ids, Own(id), NEW w \in Writers, NEW v \in Writers,
         Writes(w, DefaultPath(id)), Writes(v, DefaultPath(id))
  PROVE  v = w
<1>1. SharesFile(DefaultPath(id), DefaultPath(id))
  BY DEF SharesFile
<1>2. Pends(w, id) /\ Pends(v, id)
  BY <1>1, MyWriter DEF Writes, Pends, Stages
<1>3. req[v].object = req[w].object
  BY <1>2 DEF IInv, OpenInv, Own
<1>4. holder[req[v].object] = v /\ holder[req[w].object] = w
  BY DEF Writes, IInv, ReqInv
<1> QED BY <1>3, <1>4

-----------------------------------------------------------------------------
(***************************************************************************)
(* What the steps have in common.                                          *)
(***************************************************************************)

\* What no step takes back: a session has a call less, an id was drawn less often.
Grows ==
  /\ \A o \in Objects : holds[o] /= None => holds'[o] /= None /\ holds'[o].calls >= holds[o].calls
  /\ \A id \in Ids : drawn'[id] \in Nat /\ drawn'[id] >= drawn[id]

\* A request that is where it was keeps its invariant, if it keeps its mutex.
LEMMA ReqStays ==
  ASSUME IInv, Grows, NEW w \in Writers, req'[w] = req[w],
         req[w].at \in Stages => holder'[req[w].object] = w
  PROVE  ReqInv(w)'
<1> DEFINE r == req[w]
<1>1. ReqInv(w)
  BY DEF IInv
<1>2. r.at /= "done" => drawn'[r.id] >= 1 /\ holds'[r.object] /= None
  BY <1>1 DEF Grows, ReqInv, IInv, TypeOK
<1> QED BY <1>1, <1>2 DEF ReqInv

\* An id's own path was its own before, if it is after the step.
LEMMA OwnBefore ==
  ASSUME IInv, Grows, NEW id \in Ids, Own(id)',
         \A p \in Paths : Touched(p) => Touched(p)'
  PROVE  Own(id)
<1>1. drawn[id] <= 1
  BY DEF Own, Grows, IInv, TypeOK
<1>2. Chosen \subseteq Paths
  BY DEF Paths
<1> QED BY <1>1, <1>2 DEF Own

\* A path is being written if a request writes to it.
LEMMA WritingFacts ==
  ASSUME TypeOK, TypeOK', NEW p
  PROVE  /\ Writing(p) <=> \E w \in Writers : Writes(w, p)
         /\ Writing(p)' <=> \E w \in Writers : Writes(w, p)'
<1>1. \A w \in Writers : req[w].at \notin {"done", "try", "wait"} <=> req[w].at \in Stages
  BY DEF TypeOK, Request, Stages
<1>2. \A w \in Writers : req'[w].at \notin {"done", "try", "wait"} <=> req'[w].at \in Stages
  BY DEF TypeOK, Request, Stages
<1> QED BY <1>1, <1>2 DEF Writing, Writes

\* A path stays touched if its writers go on, and what was saved or cut off stays so.
LEMMA TouchedStays ==
  ASSUME IInv, TypeOK', NEW p \in Paths, Touched(p), saved' = saved, cut \subseteq cut',
         \A w \in Writers : Writes(w, p) => Writes(w, p)' \/ p \in cut'
  PROVE  Touched(p)'
<1>1. /\ Writing(p) <=> \E w \in Writers : Writes(w, p)
      /\ Writing(p)' <=> \E w \in Writers : Writes(w, p)'
  BY WritingFacts DEF IInv
<1> QED BY <1>1 DEF Touched

\* Steps that leave alone what is written, and whoever writes, leave the two files of
\* a path as they have to be.
LEMMA DiskStays ==
  ASSUME IInv, TypeOK', Grows, UNCHANGED <<disk, saved, cut>>,
         \A w \in Writers :
           req[w].at \in Stages \/ req'[w].at \in Stages =>
             req'[w] = req[w] /\ holds'[req[w].object] = holds[req[w].object],
         NEW id \in Ids
  PROVE  /\ DiskInv(id)'
         /\ Own(id)' => Own(id)
<1>1. \A w \in Writers : \A p : Writes(w, p)' <=> Writes(w, p)
  BY DEF Writes
<1>2. \A p : Writing(p)' <=> Writing(p)
  <2> SUFFICES ASSUME NEW p PROVE Writing(p)' <=> Writing(p)
    OBVIOUS
  <2>1. /\ Writing(p) <=> \E w \in Writers : Writes(w, p)
        /\ Writing(p)' <=> \E w \in Writers : Writes(w, p)'
    BY WritingFacts DEF IInv
  <2> QED BY <1>1, <2>1
<1>3. \A p \in Paths : Touched(p) => Touched(p)'
  BY <1>1, TouchedStays
<1>4. Own(id)' => Own(id)
  BY <1>3, OwnBefore
<1> DEFINE p == DefaultPath(id)
<1>5. ASSUME Own(id)', NEW w \in Writers, Writes(w, p)'
      PROVE  /\ req'[w].at = "write" => disk'[p] = Empty
             /\ req'[w].at \in {"openMeta", "writeMeta"} => disk'[p] = History(holds'[req'[w].object])
             /\ req'[w].at = "writeMeta" => disk'[Sidecar(p)] = Empty
  <2>1. Writes(w, p) /\ req'[w] = req[w] /\ holds'[req[w].object] = holds[req[w].object]
    BY <1>1, <1>5 DEF Writes
  <2> QED BY <1>4, <1>5, <2>1 DEF IInv, DiskInv
<1>6. ASSUME Own(id)', saved'[p] /= None, ~Writing(p)', p \notin cut'
      PROVE  disk'[p] = History(saved'[p]) /\ disk'[Sidecar(p)] = Meta(saved'[p])
  BY <1>2, <1>4, <1>6 DEF IInv, DiskInv
<1> QED BY <1>4, <1>5, <1>6 DEF DiskInv

\* What was closed stays covered as long as its requests are only those there were.
LEMMA CloseStays ==
  ASSUME IInv, TypeOK', Grows, NEW id \in Ids, closed'[id] = closed[id], Own(id)' => Own(id),
         Own(id)' /\ open[id] = None => open'[id] = None,
         \A w \in Writers : Own(id)' /\ open[id] = None /\ Pends(w, id)' =>
           Pends(w, id) /\ req'[w].object = req[w].object,
         Own(id)' /\ Covered(id) => Covered(id)'
  PROVE  CloseInv(id)'
<1> SUFFICES ASSUME closed[id] /= None PROVE CloseInv(id)'
  BY DEF CloseInv
<1>1. drawn'[id] >= 1
  BY DEF IInv, TypeOK, CloseInv, Grows
<1>2. ASSUME Own(id)', NEW w \in Writers, Pends(w, id)'
      PROVE  holds'[req'[w].object].calls >= closed'[id].calls
  <2> DEFINE o == req[w].object
  <2>1. open[id] = None
    BY <1>2 DEF IInv, CloseInv
  <2>2. Pends(w, id) /\ req'[w].object = o
    BY <1>2, <2>1
  <2>3. o \in Objects /\ holds[o] /= None /\ holds[o].calls >= closed[id].calls
    BY <1>2, <2>2 DEF IInv, CloseInv, ReqInv, Pends
  <2>4. holds'[o] /= None /\ holds'[o].calls >= holds[o].calls
    BY <2>3 DEF Grows
  <2>5. holds[o].calls \in Nat /\ closed[id].calls \in Nat /\ holds'[o].calls \in Nat
    BY <2>3, <2>4 DEF IInv, TypeOK, State
  <2> QED BY <2>2, <2>3, <2>4, <2>5
<1>3. ASSUME Own(id)' PROVE open'[id] = None /\ Covered(id)'
  BY <1>3 DEF IInv, CloseInv
<1> QED BY <1>1, <1>2, <1>3 DEF CloseInv

\* An id keeps standing for its object while no request for it comes in.
LEMMA OpenStays ==
  ASSUME IInv, TypeOK', Grows, NEW id \in Ids, open'[id] \in {open[id], None},
         \A w \in Writers : Pends(w, id)' => Pends(w, id) /\ req'[w].object = req[w].object
  PROVE  OpenInv(id)'
<1>1. open'[id] /= None => holds'[open'[id]] /= None /\ drawn'[id] >= 1
  BY DEF IInv, TypeOK, OpenInv, Grows
<1>2. drawn'[id] <= 1 => drawn[id] <= 1
  BY DEF IInv, TypeOK, Grows
<1> QED BY <1>1, <1>2 DEF IInv, OpenInv

-----------------------------------------------------------------------------
\* There is nothing yet.
LEMMA InitIInv == Init => IInv
<1> SUFFICES ASSUME Init PROVE IInv
  OBVIOUS
<1> USE DEF Init
<1>1. Done \in Request
  BY DEF Done, Request
<1>2. TypeOK
  BY <1>1, SnapshotsAssumption DEF TypeOK
<1>3. \A w \in Writers : req[w] = Done /\ Done.at = "done"
  BY DEF Done
<1>4. \A w \in Writers : ReqInv(w)
  BY <1>3 DEF ReqInv, Stages
<1>5. \A id \in Ids : OpenInv(id) /\ CloseInv(id)
  BY <1>3 DEF OpenInv, CloseInv, Pends
<1>6. \A id \in Ids : DiskInv(id)
  BY <1>3, PathFacts DEF DiskInv, Writes, Stages
<1> QED BY <1>2, <1>4, <1>5, <1>6 DEF IInv

\* A session is made, new or from a snapshot, under an id that no open one has.
LEMMA InsertKeepsIInv ==
  ASSUME IInv, NEW state \in State \cup {None}, Insert(state),
         UNCHANGED <<holder, disk, req, ghosts, bounds>>
  PROVE  IInv'
<1> DEFINE fresh(o) == IF state = None THEN [of |-> o, calls |-> 0] ELSE state
<1>1. PICK new \in Ids, o \in Objects :
        /\ open[new] = None /\ holds[o] = None
        /\ open' = [open EXCEPT ![new] = o]
        /\ holds' = [holds EXCEPT ![o] = fresh(o)]
        /\ drawn' = [drawn EXCEPT ![new] = @ + 1]
  BY DEF Insert
<1>2. fresh(o) \in State /\ fresh(o) /= None
  BY NamesAssumption DEF State
<1> HIDE DEF fresh
<1>3. /\ holder' = holder /\ disk' = disk /\ req' = req /\ saved' = saved /\ cut' = cut
      /\ closed' = closed /\ served' = served /\ crashes' = crashes
  BY DEF ghosts, bounds
<1>4. TypeOK'
  BY <1>1, <1>2, <1>3 DEF IInv, TypeOK
<1>5. Grows
  BY <1>1, <1>2 DEF IInv, TypeOK, Grows, State
<1>6. \A w \in Writers : ReqInv(w)'
  <2> SUFFICES ASSUME NEW w \in Writers PROVE ReqInv(w)'
    OBVIOUS
  <2>1. req[w].at \in Stages => holder'[req[w].object] = w
    BY <1>3 DEF IInv, ReqInv
  <2> QED BY <1>3, <1>5, <2>1, ReqStays
<1>7. \A w \in Writers : \A id : Pends(w, id)' <=> Pends(w, id)
  BY <1>3 DEF Pends
<1>8. \A id \in Ids : OpenInv(id)'
  <2> SUFFICES ASSUME NEW id \in Ids PROVE OpenInv(id)'
    OBVIOUS
  <2>1. CASE id /= new
    <3>1. open'[id] = open[id]
      BY <1>1, <2>1 DEF IInv, TypeOK
    <3> QED BY <1>3, <1>4, <1>5, <1>7, <3>1, OpenStays
  <2>2. CASE id = new
    <3>1. /\ open'[id] = o /\ holds'[o] = fresh(o)
          /\ drawn'[id] = drawn[id] + 1 /\ drawn[id] \in Nat
      BY <1>1, <2>2 DEF IInv, TypeOK
    <3>2. drawn'[id] <= 1 => \A w \in Writers : ~Pends(w, id)
      BY <3>1 DEF IInv, ReqInv, Pends
    <3> QED BY <1>2, <1>7, <3>1, <3>2 DEF OpenInv
  <2> QED BY <2>1, <2>2
<1>9. \A id \in Ids : DiskInv(id)' /\ (Own(id)' => Own(id))
  <2>1. \A w \in Writers : req[w].at \in Stages => holds'[req[w].object] = holds[req[w].object]
    <3> SUFFICES ASSUME NEW w \in Writers, req[w].at \in Stages
                 PROVE  holds'[req[w].object] = holds[req[w].object]
      OBVIOUS
    <3>1. req[w].object \in Objects /\ holds[req[w].object] /= None
      BY DEF IInv, ReqInv, Stages
    <3> QED BY <1>1, <3>1 DEF IInv, TypeOK
  <2>2. \A w \in Writers :
          req[w].at \in Stages \/ req'[w].at \in Stages =>
            req'[w] = req[w] /\ holds'[req[w].object] = holds[req[w].object]
    BY <1>3, <2>1
  <2>3. UNCHANGED <<disk, saved, cut>>
    BY <1>3
  <2> SUFFICES ASSUME NEW id \in Ids PROVE DiskInv(id)' /\ (Own(id)' => Own(id))
    OBVIOUS
  <2> QED BY <1>4, <1>5, <2>2, <2>3, DiskStays
<1>10. \A id \in Ids : CloseInv(id)'
  <2> SUFFICES ASSUME NEW id \in Ids PROVE CloseInv(id)'
    OBVIOUS
  <2>1. CASE id /= new
    <3>1. open'[id] = open[id]
      BY <1>1, <2>1 DEF IInv, TypeOK
    <3>2. Covered(id) => Covered(id)'
      BY <1>3 DEF Covered, Closes, Pends
    <3> QED BY <1>3, <1>4, <1>5, <1>7, <1>9, <3>1, <3>2, CloseStays
  <2>2. CASE id = new
    <3>1. drawn'[id] = drawn[id] + 1 /\ drawn[id] \in Nat
      BY <1>1, <2>2 DEF IInv, TypeOK
    <3>2. closed'[id] /= None => drawn[id] >= 1
      BY <1>3 DEF IInv, CloseInv
    <3>3. closed'[id] /= None => drawn'[id] >= 1 /\ ~Own(id)'
      BY <3>1, <3>2 DEF Own
    <3> QED BY <3>3 DEF CloseInv
  <2> QED BY <2>1, <2>2
<1> QED BY <1>4, <1>6, <1>8, <1>9, <1>10 DEF IInv

\* A request resolves its id; a closed one is not there any more.
LEMMA BeginKeepsIInv ==
  ASSUME IInv, NEW w \in Writers, NEW id \in Ids, NEW kind \in {"call", "snapshot"},
         NEW path \in Paths \cup {<<>>}, Begin(w, kind, id, path),
         kind = "snapshot" => path \in Chosen \cup {DefaultPath(id)}
  PROVE  IInv'
<1> DEFINE now == [kind |-> kind, at |-> "try", id |-> id, object |-> open[id], path |-> path]
<1>1. /\ req[w] = Done /\ open[id] /= None /\ req' = [req EXCEPT ![w] = now]
      /\ open' = open /\ holds' = holds /\ drawn' = drawn /\ holder' = holder /\ disk' = disk
      /\ saved' = saved /\ cut' = cut /\ closed' = closed /\ crashes' = crashes
      /\ served' \in 0 .. MaxRequests
  BY SnapshotsAssumption DEF Begin, registry, ghosts, Serve, IInv, TypeOK
<1>2. /\ open[id] \in Objects /\ holds[open[id]] /= None /\ drawn[id] >= 1
  BY <1>1 DEF IInv, TypeOK, OpenInv
<1>3. /\ now \in Request /\ now.at = "try" /\ now.id = id /\ now.object = open[id]
      /\ now.kind = kind /\ now.path = path
  BY <1>2 DEF Request
<1> HIDE DEF now
<1>4. TypeOK'
  BY <1>1, <1>3 DEF IInv, TypeOK
<1>5. Grows
  BY <1>1 DEF IInv, TypeOK, Grows, State
<1>6. req'[w] = now /\ \A v \in Writers \ {w} : req'[v] = req[v]
  BY <1>1 DEF IInv, TypeOK
<1>7. \A v \in Writers : ReqInv(v)'
  <2> SUFFICES ASSUME NEW v \in Writers PROVE ReqInv(v)'
    OBVIOUS
  <2>1. CASE v = w
    BY <2>1, <1>1, <1>2, <1>3, <1>6 DEF ReqInv, Stages
  <2>2. CASE v /= w
    <3>1. req[v].at \in Stages => holder'[req[v].object] = v
      BY <1>1 DEF IInv, ReqInv
    <3> QED BY <2>2, <1>5, <1>6, <3>1, ReqStays
  <2> QED BY <2>1, <2>2
<1>8. Done.at = "done" /\ Done.at \notin Stages /\ "try" \notin Stages
  BY DEF Done, Stages
<1>9. \A v \in Writers : \A other : other /= id => (Pends(v, other)' <=> Pends(v, other))
  BY <1>1, <1>3, <1>6, <1>8 DEF Pends
<1>10. \A other \in Ids : OpenInv(other)'
  <2> SUFFICES ASSUME NEW other \in Ids PROVE OpenInv(other)'
    OBVIOUS
  <2>1. CASE other /= id
    <3>1. \A v \in Writers : Pends(v, other)' => Pends(v, other) /\ req'[v].object = req[v].object
      BY <2>1, <1>3, <1>6, <1>9 DEF Pends
    <3> QED BY <1>1, <1>4, <1>5, <3>1, OpenStays
  <2>2. CASE other = id
    <3>1. drawn[id] <= 1 => \A v \in Writers : Pends(v, id) => req[v].object = open[id]
      BY <1>1 DEF IInv, OpenInv
    <3>2. drawn[id] <= 1 => \A v \in Writers : Pends(v, id)' => req'[v].object = open[id]
      BY <3>1, <1>3, <1>6 DEF Pends
    <3> QED BY <2>2, <1>1, <1>2, <3>2 DEF OpenInv
  <2> QED BY <2>1, <2>2
<1>11. \A other \in Ids : DiskInv(other)' /\ (Own(other)' => Own(other))
  <2>1. \A v \in Writers :
          req[v].at \in Stages \/ req'[v].at \in Stages =>
            req'[v] = req[v] /\ holds'[req[v].object] = holds[req[v].object]
    BY <1>1, <1>3, <1>6, <1>8
  <2>2. UNCHANGED <<disk, saved, cut>>
    BY <1>1
  <2> SUFFICES ASSUME NEW other \in Ids PROVE DiskInv(other)' /\ (Own(other)' => Own(other))
    OBVIOUS
  <2> QED BY <1>4, <1>5, <2>1, <2>2, DiskStays
<1>12. \A other \in Ids : CloseInv(other)'
  <2> SUFFICES ASSUME NEW other \in Ids PROVE CloseInv(other)'
    OBVIOUS
  <2>1. \A v \in Writers : open[other] = None /\ Pends(v, other)' =>
          Pends(v, other) /\ req'[v].object = req[v].object
    BY <1>1, <1>3, <1>6, <1>9 DEF Pends
  <2>2. Covered(other) => Covered(other)'
    BY <1>1, <1>6, <1>8 DEF Covered, Closes, Pends
  <2> QED BY <1>1, <1>4, <1>5, <1>11, <2>1, <2>2, CloseStays
<1> QED BY <1>4, <1>7, <1>10, <1>11, <1>12 DEF IInv

\* A request that is answered gives its mutex back, and is no request any more.
LEMMA ReturnFacts ==
  ASSUME IInv, NEW w \in Writers, Return(w)
  PROVE  /\ req' \in [Writers -> Request] /\ holder' \in [Objects -> Writers \cup {None}]
         /\ req'[w] = Done /\ Done.at = "done"
         /\ \A v \in Writers \ {w} :
              /\ req'[v] = req[v]
              /\ req[v].at \in Stages => holder'[req[v].object] = v
         /\ \A v \in Writers : \A id : Pends(v, id)' =>
              Pends(v, id) /\ req'[v] = req[v] /\ v /= w
<1>1. Done \in Request /\ Done.at = "done"
  BY DEF Done, Request
<1>2. /\ req' = [req EXCEPT ![w] = Done]
      /\ holder' = [o \in Objects |-> IF holder[o] = w THEN None ELSE holder[o]]
  BY DEF Return
<1>3. req'[w] = Done /\ \A v \in Writers \ {w} : req'[v] = req[v]
  BY <1>2 DEF IInv, TypeOK
<1>4. \A v \in Writers \ {w} : req[v].at \in Stages => holder'[req[v].object] = v
  BY <1>2 DEF IInv, ReqInv, Stages
<1>5. req' \in [Writers -> Request] /\ holder' \in [Objects -> Writers \cup {None}]
  BY <1>1, <1>2 DEF IInv, TypeOK
<1> QED BY <1>1, <1>3, <1>4, <1>5 DEF Pends

\* What holds of requests and ids after any answer.
LEMMA ReturnStays ==
  ASSUME IInv, TypeOK', Grows, NEW w \in Writers, Return(w), open' = open
  PROVE  /\ \A v \in Writers : ReqInv(v)'
         /\ \A id \in Ids : OpenInv(id)'
<1>1. ASSUME NEW v \in Writers PROVE ReqInv(v)'
  <2>1. CASE v = w
    BY <2>1, ReturnFacts DEF ReqInv, Stages
  <2>2. CASE v /= w
    BY <2>2, ReturnFacts, ReqStays
  <2> QED BY <2>1, <2>2
<1>2. ASSUME NEW id \in Ids PROVE OpenInv(id)'
  <2>1. \A v \in Writers : Pends(v, id)' => Pends(v, id) /\ req'[v].object = req[v].object
    BY ReturnFacts
  <2> QED BY <2>1, OpenStays
<1> QED BY <1>1, <1>2

\* A request that did not get to write is answered.
LEMMA TryEndsKeepsIInv ==
  ASSUME IInv, TypeOK', Grows, NEW w \in Writers, Return(w), req[w].at = "try",
         UNCHANGED <<open, disk, saved, cut, closed>>,
         \A v \in Writers : req[v].at \in Stages => holds'[req[v].object] = holds[req[v].object]
  PROVE  IInv'
<1>1. ASSUME NEW id \in Ids PROVE DiskInv(id)' /\ (Own(id)' => Own(id))
  <2>1. \A v \in Writers :
          req[v].at \in Stages \/ req'[v].at \in Stages =>
            req'[v] = req[v] /\ holds'[req[v].object] = holds[req[v].object]
    BY ReturnFacts DEF Stages
  <2>2. UNCHANGED <<disk, saved, cut>>
    OBVIOUS
  <2> QED BY <2>1, <2>2, DiskStays
<1>2. ASSUME NEW id \in Ids PROVE CloseInv(id)'
  <2>1. \A v \in Writers : Pends(v, id)' => Pends(v, id) /\ req'[v].object = req[v].object
    BY ReturnFacts
  <2>2. \A v \in Writers : Closes(v, id) => Closes(v, id)'
    BY ReturnFacts DEF IInv, ReqInv, Closes, Pends
  <2>3. Covered(id) => Covered(id)'
    BY <2>2 DEF Covered
  <2> QED BY <1>1, <2>1, <2>3, CloseStays
<1> QED BY <1>1, <1>2, ReturnStays DEF IInv

\* The mutex is taken: the caller gets session_busy.
LEMMA BusyKeepsIInv ==
  ASSUME IInv, NEW w \in Writers, Busy(w)
  PROVE  IInv'
<1>1. /\ req[w].at = "try" /\ Return(w)
      /\ open' = open /\ holds' = holds /\ drawn' = drawn /\ disk' = disk
      /\ saved' = saved /\ cut' = cut /\ closed' = closed /\ served' = served /\ crashes' = crashes
  BY DEF Busy, registry, ghosts, bounds
<1>2. TypeOK'
  BY <1>1, ReturnFacts DEF IInv, TypeOK
<1>3. Grows
  BY <1>1 DEF IInv, TypeOK, Grows, State
<1> QED BY <1>1, <1>2, <1>3, TryEndsKeepsIInv

\* A call changes the session, which nobody is writing then.
LEMMA CallKeepsIInv ==
  ASSUME IInv, NEW w \in Writers, Call(w)
  PROVE  IInv'
<1> DEFINE o == req[w].object
           more == [of |-> o, calls |-> holds[o].calls + 1]
<1>1. /\ req[w].at = "try" /\ Return(w) /\ holder[o] = None
      /\ open' = open /\ holds' = [holds EXCEPT ![o] = more] /\ drawn' = drawn /\ disk' = disk
      /\ saved' = saved /\ cut' = cut /\ closed' = closed /\ served' = served /\ crashes' = crashes
  BY DEF Call, Changed, ghosts, bounds
<1>2. o \in Objects /\ holds[o] \in State
  BY <1>1 DEF IInv, ReqInv, TypeOK
<1>3. more \in State /\ more.calls >= holds[o].calls /\ more /= None
  BY <1>2, NamesAssumption DEF State
<1> HIDE DEF more
<1>4. TypeOK'
  BY <1>1, <1>2, <1>3, ReturnFacts DEF IInv, TypeOK
<1>5. Grows
  BY <1>1, <1>2, <1>3 DEF IInv, TypeOK, Grows, State
<1>6. \A v \in Writers : req[v].at \in Stages => holds'[req[v].object] = holds[req[v].object]
  <2> SUFFICES ASSUME NEW v \in Writers, req[v].at \in Stages
               PROVE  holds'[req[v].object] = holds[req[v].object]
    OBVIOUS
  <2>1. holder[req[v].object] = v /\ v /= None
    BY NamesAssumption DEF IInv, ReqInv
  <2>2. req[v].object /= o
    BY <1>1, <2>1
  <2> HIDE DEF o
  <2> QED BY <1>1, <2>2 DEF IInv, TypeOK
<1> QED BY <1>1, <1>4, <1>5, <1>6, TryEndsKeepsIInv

\* A close takes the session out of the map; its request is for the object it was.
LEMMA CloseKeepsIInv ==
  ASSUME IInv, NEW w \in Writers, Close(w)
  PROVE  IInv'
<1>1. PICK id \in Ids :
        /\ req[w] = Done /\ open[id] /= None /\ Serve
        /\ open' = [open EXCEPT ![id] = None]
        /\ closed' = [closed EXCEPT ![id] = holds[open[id]]]
        /\ req' = [req EXCEPT ![w] = [kind |-> "close", at |-> "wait", id |-> id,
                                      object |-> open[id], path |-> DefaultPath(id)]]
        /\ UNCHANGED <<holds, holder, drawn, disk, saved, cut, crashes>>
  BY DEF Close
<1> DEFINE o == open[id]
           now == [kind |-> "close", at |-> "wait", id |-> id, object |-> o,
                   path |-> DefaultPath(id)]
<1>2. o \in Objects /\ holds[o] \in State /\ holds[o] /= None /\ drawn[id] >= 1
  BY <1>1 DEF IInv, TypeOK, OpenInv
<1>3. /\ now \in Request /\ now.at = "wait" /\ now.id = id /\ now.object = o
      /\ now.kind = "close" /\ now.path = DefaultPath(id)
  BY <1>2, PathFacts DEF Request
<1>4. req' = [req EXCEPT ![w] = now]
  BY <1>1
<1> HIDE DEF now
<1>5. TypeOK'
  <2>1. served' \in 0 .. MaxRequests
    BY <1>1, SnapshotsAssumption DEF Serve, IInv, TypeOK
  <2> QED BY <1>1, <1>2, <1>3, <1>4, <2>1 DEF IInv, TypeOK
<1>6. Grows
  BY <1>1 DEF IInv, TypeOK, Grows, State
<1>7. req'[w] = now /\ \A v \in Writers \ {w} : req'[v] = req[v]
  BY <1>4 DEF IInv, TypeOK
<1>8. Done.at = "done" /\ Done.at \notin Stages /\ "wait" \notin Stages
  BY DEF Done, Stages
<1>9. \A v \in Writers : ReqInv(v)'
  <2> SUFFICES ASSUME NEW v \in Writers PROVE ReqInv(v)'
    OBVIOUS
  <2>1. CASE v = w
    BY <2>1, <1>1, <1>2, <1>3, <1>7, <1>8 DEF ReqInv
  <2>2. CASE v /= w
    <3>1. req[v].at \in Stages => holder'[req[v].object] = v
      BY <1>1 DEF IInv, ReqInv
    <3> QED BY <2>2, <1>6, <1>7, <3>1, ReqStays
  <2> QED BY <2>1, <2>2
<1>10. \A v \in Writers : \A other : other /= id => (Pends(v, other)' <=> Pends(v, other))
  BY <1>1, <1>3, <1>7, <1>8 DEF Pends
<1>11. drawn[id] <= 1 => \A v \in Writers : Pends(v, id)' => req'[v].object = o
  <2>1. drawn[id] <= 1 => \A v \in Writers : Pends(v, id) => req[v].object = o
    BY <1>1 DEF IInv, OpenInv
  <2> QED BY <2>1, <1>3, <1>7 DEF Pends
<1>12. open'[id] = None /\ \A other \in Ids \ {id} : open'[other] = open[other] /\ closed'[other] = closed[other]
  BY <1>1 DEF IInv, TypeOK
<1>13. closed'[id] = holds[o]
  BY <1>1 DEF IInv, TypeOK
<1>14. \A other \in Ids : OpenInv(other)'
  <2> SUFFICES ASSUME NEW other \in Ids PROVE OpenInv(other)'
    OBVIOUS
  <2>1. CASE other /= id
    <3>1. \A v \in Writers : Pends(v, other)' => Pends(v, other) /\ req'[v].object = req[v].object
      BY <2>1, <1>3, <1>7, <1>10 DEF Pends
    <3>2. open'[other] \in {open[other], None}
      BY <2>1, <1>12
    <3> QED BY <1>5, <1>6, <3>1, <3>2, OpenStays
  <2>2. CASE other = id
    <3> HIDE DEF o
    <3> QED BY <2>2, <1>1, <1>11, <1>12 DEF OpenInv
  <2> QED BY <2>1, <2>2
<1>15. \A other \in Ids : DiskInv(other)' /\ (Own(other)' => Own(other))
  <2>1. \A v \in Writers :
          req[v].at \in Stages \/ req'[v].at \in Stages =>
            req'[v] = req[v] /\ holds'[req[v].object] = holds[req[v].object]
    BY <1>1, <1>3, <1>7, <1>8
  <2>2. UNCHANGED <<disk, saved, cut>>
    BY <1>1
  <2> SUFFICES ASSUME NEW other \in Ids PROVE DiskInv(other)' /\ (Own(other)' => Own(other))
    OBVIOUS
  <2> QED BY <1>5, <1>6, <2>1, <2>2, DiskStays
<1>16. \A other \in Ids : CloseInv(other)'
  <2> SUFFICES ASSUME NEW other \in Ids PROVE CloseInv(other)'
    OBVIOUS
  <2>1. CASE other /= id
    <3>1. \A v \in Writers : Pends(v, other)' => Pends(v, other) /\ req'[v].object = req[v].object
      BY <2>1, <1>3, <1>7, <1>10 DEF Pends
    <3>2. Covered(other) => Covered(other)'
      BY <1>1, <1>7, <1>8, <1>12, <2>1 DEF Covered, Closes, Pends
    <3>3. open'[other] = open[other] /\ closed'[other] = closed[other]
      BY <2>1, <1>12
    <3>4. Own(other)' => Own(other)
      BY <1>15
    <3> QED BY <1>5, <1>6, <3>1, <3>2, <3>3, <3>4, CloseStays
  <2>2. CASE other = id
    <3>1. Own(id)' => drawn[id] <= 1
      BY <1>1 DEF Own
    <3>2. holds' = holds /\ drawn' = drawn
      BY <1>1
    <3>3. Own(id)' => \A v \in Writers : Pends(v, id)' => holds'[req'[v].object].calls >= closed'[id].calls
      <4>1. holds[o].calls >= holds[o].calls
        BY <1>2 DEF State
      <4> HIDE DEF o
      <4> QED BY <3>1, <3>2, <1>11, <1>13, <4>1
    <3>4. Covered(id)'
      BY <1>3, <1>7 DEF Covered, Closes, Pends
    <3> QED BY <2>2, <1>2, <1>12, <3>2, <3>3, <3>4 DEF CloseInv
  <2> QED BY <2>1, <2>2
<1> QED BY <1>5, <1>9, <1>14, <1>15, <1>16 DEF IInv

-----------------------------------------------------------------------------
(***************************************************************************)
(* SessionSnapshot::write.                                                 *)
(***************************************************************************)

\* A request that goes on to its next file changes nothing but the disk and, when it
\* enters, who has the mutex.
Moves(w, place) ==
  /\ req[w].at /= "done" /\ req[w].kind /= "call"
  /\ req[w].at = "wait" => req[w].kind = "close"
  /\ place = "open" \/ req[w].at \in Stages
  /\ Goto(w, place)
  /\ holder' \in [Objects -> Writers \cup {None}]
  /\ holder'[req[w].object] = w
  /\ \A v \in Writers \ {w} : req[v].at \in Stages => holder'[req[v].object] = v
  /\ disk' \in [Files -> Whole \cup {Absent, Empty, Torn}]
  /\ UNCHANGED <<registry, ghosts, bounds>>

\* A write that goes one step on disturbs nothing but the files it writes.
LEMMA MoveFacts ==
  ASSUME IInv, NEW w \in Writers, NEW place \in Stages, Moves(w, place)
  PROVE  /\ TypeOK' /\ Grows
         /\ \A v \in Writers : ReqInv(v)'
         /\ \A id \in Ids : OpenInv(id)' /\ CloseInv(id)' /\ (Own(id)' => Own(id))
         /\ \A v \in Writers \ {w} : req'[v] = req[v]
         /\ req'[w].at = place
         /\ req'[w].path = req[w].path /\ req'[w].object = req[w].object
<1>1. /\ open' = open /\ holds' = holds /\ drawn' = drawn /\ saved' = saved /\ cut' = cut
      /\ closed' = closed /\ served' = served /\ crashes' = crashes
  BY DEF Moves, registry, ghosts, bounds
<1> DEFINE now == [req[w] EXCEPT !.at = place]
<1>2. /\ now \in Request /\ now.at = place /\ now.id = req[w].id /\ now.kind = req[w].kind
      /\ now.object = req[w].object /\ now.path = req[w].path
  BY DEF IInv, TypeOK, Request, Stages
<1>3. req' = [req EXCEPT ![w] = now]
  BY DEF Moves, Goto
<1> HIDE DEF now
<1>4. req'[w] = now /\ \A v \in Writers \ {w} : req'[v] = req[v]
  BY <1>3 DEF IInv, TypeOK
<1>5. TypeOK'
  BY <1>1, <1>2, <1>3 DEF IInv, TypeOK, Moves
<1>6. Grows
  BY <1>1 DEF IInv, TypeOK, Grows, State
<1>7. place \notin {"done", "try", "wait"} /\ req[w].at /= "done"
  BY DEF Stages, Moves
<1>8. ASSUME NEW v \in Writers PROVE ReqInv(v)'
  <2>1. CASE v = w
    <3>1. /\ now.id \in Ids /\ now.object \in Objects
          /\ holds[now.object] /= None /\ drawn[now.id] >= 1
      BY <1>2, <1>7 DEF IInv, ReqInv
    <3>2. \/ now.kind = "snapshot" /\ now.path \in Chosen \cup {DefaultPath(now.id)}
          \/ now.kind = "close" /\ now.path = DefaultPath(now.id)
      BY <1>2, <1>7 DEF IInv, ReqInv, Moves
    <3>3. holder'[now.object] = w
      BY <1>2 DEF Moves
    <3> QED BY <2>1, <1>1, <1>2, <1>4, <1>7, <3>1, <3>2, <3>3 DEF ReqInv
  <2>2. CASE v /= w
    BY <2>2, <1>4, <1>6, ReqStays DEF Moves
  <2> QED BY <2>1, <2>2
<1>9. ASSUME NEW id
      PROVE  \A v \in Writers :
               /\ Pends(v, id)' => Pends(v, id) /\ req'[v].object = req[v].object
               /\ Closes(v, id) => Closes(v, id)'
  BY <1>2, <1>4, <1>7 DEF Pends, Closes
<1>10. ASSUME NEW id \in Ids PROVE OpenInv(id)'
  <2>1. \A v \in Writers : Pends(v, id)' => Pends(v, id) /\ req'[v].object = req[v].object
    BY <1>9
  <2> QED BY <1>1, <1>5, <1>6, <2>1, OpenStays
<1>11. ASSUME NEW p \in Paths, Touched(p) PROVE Touched(p)'
  <2>1. \A v \in Writers : Writes(v, p) => Writes(v, p)'
    BY <1>2, <1>4 DEF Writes
  <2> QED BY <1>1, <1>5, <1>11, <2>1, TouchedStays
<1>12. ASSUME NEW id \in Ids PROVE Own(id)' => Own(id)
  BY <1>6, <1>11, OwnBefore
<1>13. ASSUME NEW id \in Ids PROVE CloseInv(id)'
  <2>1. \A v \in Writers : Pends(v, id)' => Pends(v, id) /\ req'[v].object = req[v].object
    BY <1>9
  <2>2. \A v \in Writers : Closes(v, id) => Closes(v, id)'
    BY <1>9
  <2>3. Covered(id) => Covered(id)'
    BY <1>1, <2>2 DEF Covered
  <2> QED BY <1>1, <1>5, <1>6, <1>12, <2>1, <2>3, CloseStays
<1> QED BY <1>2, <1>4, <1>5, <1>6, <1>8, <1>10, <1>12, <1>13

\* A request that got the mutex is at the first file, which it has not opened yet.
LEMMA EnterKeepsIInv ==
  ASSUME IInv, NEW w \in Writers, Enter(w)
  PROVE  IInv'
<1> DEFINE o == req[w].object
<1>1. /\ holder[o] = None /\ holder' = [holder EXCEPT ![o] = w] /\ Goto(w, "open")
      /\ disk' = disk /\ UNCHANGED <<registry, ghosts, bounds>>
      /\ req[w].at \in {"try", "wait"} /\ (req[w].at = "try" => req[w].kind = "snapshot")
  BY DEF Enter
<1>2. o \in Objects
  BY <1>1 DEF IInv, ReqInv
<1>3. \A v \in Writers \ {w} : req[v].at \in Stages => holder'[req[v].object] = v
  <2> SUFFICES ASSUME NEW v \in Writers \ {w}, req[v].at \in Stages
               PROVE  holder'[req[v].object] = v
    OBVIOUS
  <2>1. holder[req[v].object] = v /\ v /= None /\ req[v].object \in Objects
    BY NamesAssumption DEF IInv, ReqInv, Stages
  <2> HIDE DEF o
  <2> QED BY <1>1, <2>1 DEF IInv, TypeOK
<1>4. Moves(w, "open")
  <2>1. req[w].kind /= "call" /\ (req[w].at = "wait" => req[w].kind = "close")
    BY <1>1 DEF IInv, ReqInv
  <2>2. holder' \in [Objects -> Writers \cup {None}] /\ holder'[o] = w
    BY <1>1, <1>2 DEF IInv, TypeOK
  <2>3. disk' \in [Files -> Whole \cup {Absent, Empty, Torn}]
    BY <1>1 DEF IInv, TypeOK
  <2> QED BY <1>1, <1>3, <2>1, <2>2, <2>3 DEF Moves
<1>5. "open" \in Stages /\ req[w].at \notin Stages
  BY <1>1 DEF Stages
<1>6. /\ \A v \in Writers \ {w} : req'[v] = req[v]
      /\ req'[w].at = "open"
      /\ \A id \in Ids : Own(id)' => Own(id)
      /\ TypeOK'
  BY <1>4, <1>5, MoveFacts
<1>7. holds' = holds /\ saved' = saved /\ cut' = cut
  BY <1>1 DEF registry, ghosts
<1>8. ASSUME NEW id \in Ids PROVE DiskInv(id)'
  <2> DEFINE p == DefaultPath(id)
  <2>1. ASSUME Own(id)', NEW v \in Writers, Writes(v, p)'
        PROVE  /\ req'[v].at = "write" => disk'[p] = Empty
               /\ req'[v].at \in {"openMeta", "writeMeta"} => disk'[p] = History(holds'[req'[v].object])
               /\ req'[v].at = "writeMeta" => disk'[Sidecar(p)] = Empty
    <3>1. CASE v = w
      BY <3>1, <1>6
    <3>2. CASE v /= w
      <4>1. Writes(v, p) /\ req'[v] = req[v]
        BY <2>1, <3>2, <1>6 DEF Writes
      <4> QED BY <2>1, <4>1, <1>1, <1>6, <1>7 DEF IInv, DiskInv
    <3> QED BY <3>1, <3>2
  <2>2. ASSUME Own(id)', saved'[p] /= None, ~Writing(p)', p \notin cut'
        PROVE  disk'[p] = History(saved'[p]) /\ disk'[Sidecar(p)] = Meta(saved'[p])
    <3>1. /\ Writing(p) <=> \E v \in Writers : Writes(v, p)
          /\ Writing(p)' <=> \E v \in Writers : Writes(v, p)'
      BY <1>6, WritingFacts DEF IInv
    <3>2. \A v \in Writers : Writes(v, p) => Writes(v, p)'
      BY <1>5, <1>6 DEF Writes
    <3>3. ~Writing(p)
      BY <2>2, <3>1, <3>2
    <3> QED BY <2>2, <3>3, <1>1, <1>6, <1>7 DEF IInv, DiskInv
  <2> QED BY <2>1, <2>2 DEF DiskInv
<1> QED BY <1>4, <1>5, <1>8, MoveFacts DEF IInv

\* A request that is at one file of a path opens or writes it: what it has to find
\* there after the step, it finds; the files of other paths are left alone.
LEMMA AtFileKeepsIInv ==
  ASSUME IInv, NEW w \in Writers, NEW place \in Stages, Moves(w, place), req[w].at \in Stages,
         NEW file \in {req[w].path, Sidecar(req[w].path)}, NEW x,
         disk' = [disk EXCEPT ![file] = x],
         \A id \in Ids : Own(id) /\ req[w].path = DefaultPath(id) =>
           /\ place = "write" => disk'[req[w].path] = Empty
           /\ place \in {"openMeta", "writeMeta"} =>
                disk'[req[w].path] = History(holds[req[w].object])
           /\ place = "writeMeta" => disk'[Sidecar(req[w].path)] = Empty
  PROVE  IInv'
<1>1. /\ \A v \in Writers \ {w} : req'[v] = req[v]
      /\ req'[w].at = place /\ req'[w].path = req[w].path /\ req'[w].object = req[w].object
      /\ TypeOK'
  BY MoveFacts
<1>2. holds' = holds /\ saved' = saved /\ cut' = cut
  BY DEF Moves, registry, ghosts
<1>3. ASSUME NEW id \in Ids PROVE DiskInv(id)'
  <2> DEFINE p == DefaultPath(id)
  <2>1. ASSUME NEW v \in Writers PROVE Writes(v, p)' <=> Writes(v, p)
    BY <1>1 DEF Writes
  <2>2. SUFFICES ASSUME Own(id)'
                 PROVE  /\ \A v \in Writers : Writes(v, p) =>
                             /\ req'[v].at = "write" => disk'[p] = Empty
                             /\ req'[v].at \in {"openMeta", "writeMeta"} =>
                                  disk'[p] = History(holds[req'[v].object])
                             /\ req'[v].at = "writeMeta" => disk'[Sidecar(p)] = Empty
                        /\ saved[p] /= None /\ ~(\E v \in Writers : Writes(v, p)) /\ p \notin cut =>
                             disk'[p] = History(saved[p]) /\ disk'[Sidecar(p)] = Meta(saved[p])
    <3>1. Writing(p)' <=> \E v \in Writers : Writes(v, p)'
      BY <1>1, WritingFacts DEF IInv
    <3> QED BY <1>2, <2>1, <3>1 DEF DiskInv
  <2>3. Own(id)
    BY <2>2, MoveFacts
  <2>4. CASE req[w].path = p
    <3>1. Writes(w, p)
      BY <2>4 DEF Writes
    <3>2. \A v \in Writers : Writes(v, p) => v = w
      BY <2>3, <3>1, OneWriter
    <3> QED BY <1>1, <2>3, <2>4, <3>1, <3>2
  <2>5. CASE req[w].path /= p
    <3>1. ~SharesFile(req[w].path, p)
      BY <2>3, <2>5, MyWriter
    <3>2. disk'[p] = disk[p] /\ disk'[Sidecar(p)] = disk[Sidecar(p)]
      BY <3>1, PathFacts DEF SharesFile, IInv, TypeOK
    <3>3. ~Writes(w, p)
      BY <2>5 DEF Writes
    <3>4. Writing(p) <=> \E v \in Writers : Writes(v, p)
      BY <1>1, WritingFacts DEF IInv
    <3> QED BY <1>1, <2>3, <3>2, <3>3, <3>4 DEF IInv, DiskInv
  <2> QED BY <2>4, <2>5
<1> QED BY <1>3, MoveFacts DEF IInv

\* fs::write opens one of the files.
LEMMA OpenFileKeepsIInv ==
  ASSUME IInv, NEW w \in Writers, OpenFile(w)
  PROVE  IInv'
<1> DEFINE place == IF req[w].at = "open" THEN "write" ELSE "writeMeta"
           path == req[w].path
<1>1. /\ req[w].at \in {"open", "openMeta"} /\ Goto(w, place)
      /\ disk' = [disk EXCEPT ![Target(w)] = Empty]
      /\ UNCHANGED <<registry, holder, ghosts, bounds>>
  BY DEF OpenFile
<1>2. /\ req[w].at = "open" => Target(w) = path /\ place = "write"
      /\ req[w].at = "openMeta" => Target(w) = Sidecar(path) /\ place = "writeMeta"
  BY DEF Target
<1>3. path \in Paths /\ path \in Files /\ Sidecar(path) \in Files
  <2>1. path \in Chosen \cup {DefaultPath(req[w].id)} /\ req[w].id \in Ids
    BY <1>1 DEF IInv, ReqInv
  <2> QED BY <2>1 DEF Paths, Files
<1>4. Moves(w, place)
  <2>1. disk' \in [Files -> Whole \cup {Absent, Empty, Torn}]
    BY <1>1 DEF IInv, TypeOK
  <2>2. /\ req[w].kind /= "call"
        /\ \A v \in Writers : req[v].at \in Stages => holder'[req[v].object] = v
    BY <1>1 DEF IInv, ReqInv
  <2> QED BY <1>1, <2>1, <2>2 DEF Moves, Stages, IInv, TypeOK
<1>5. ASSUME NEW id \in Ids, Own(id), path = DefaultPath(id)
      PROVE  /\ place = "write" => disk'[path] = Empty
             /\ place \in {"openMeta", "writeMeta"} => disk'[path] = History(holds[req[w].object])
             /\ place = "writeMeta" => disk'[Sidecar(path)] = Empty
  <2>1. CASE req[w].at = "open"
    BY <2>1, <1>1, <1>2, <1>3 DEF IInv, TypeOK
  <2>2. CASE req[w].at = "openMeta"
    <3>1. Writes(w, path)
      BY <2>2 DEF Writes, Stages
    <3>2. disk[path] = History(holds[req[w].object])
      BY <2>2, <1>5, <3>1 DEF IInv, DiskInv
    <3>3. path /= Sidecar(path)
      BY <1>5, ApartFacts
    <3> QED BY <2>2, <1>1, <1>2, <1>3, <3>2, <3>3 DEF IInv, TypeOK
  <2> QED BY <1>1, <2>1, <2>2
<1>6. req[w].at \in Stages /\ place \in Stages /\ Target(w) \in {path, Sidecar(path)}
  BY <1>1, <1>2 DEF Stages
<1> HIDE DEF place
<1> QED BY <1>1, <1>4, <1>5, <1>6, AtFileKeepsIInv

\* The history is written whole into a file that nobody else writes.
LEMMA WriteHistoryKeepsIInv ==
  ASSUME IInv, NEW w \in Writers, WriteHistory(w)
  PROVE  IInv'
<1> DEFINE path == req[w].path
           mine == History(holds[req[w].object])
<1>1. /\ req[w].at = "write" /\ Goto(w, "openMeta")
      /\ UNCHANGED <<registry, holder, ghosts, bounds>>
  BY DEF WriteHistory
<1>2. PICK file \in Left(disk[path], mine) : disk' = [disk EXCEPT ![path] = file]
  BY DEF WriteHistory, History
<1>3. path \in Files
  <2>1. path \in Chosen \cup {DefaultPath(req[w].id)} /\ req[w].id \in Ids
    BY <1>1 DEF IInv, ReqInv
  <2> QED BY <2>1 DEF Paths, Files
<1>4. file \in Whole \cup {Torn}
  <2>1. holds[req[w].object] \in State
    BY <1>1 DEF IInv, ReqInv, TypeOK
  <2> QED BY <1>2, <2>1 DEF Left, Whole, History
<1>5. Moves(w, "openMeta")
  <2>1. disk' \in [Files -> Whole \cup {Absent, Empty, Torn}]
    BY <1>2, <1>4 DEF IInv, TypeOK
  <2>2. /\ req[w].kind /= "call"
        /\ \A v \in Writers : req[v].at \in Stages => holder'[req[v].object] = v
    BY <1>1 DEF IInv, ReqInv
  <2> QED BY <1>1, <2>1, <2>2 DEF Moves, Stages, IInv, TypeOK
<1>6. ASSUME NEW id \in Ids, Own(id), path = DefaultPath(id)
      PROVE  disk'[path] = mine
  <2>1. disk[path] = Empty
    BY <1>1, <1>6 DEF IInv, DiskInv, Writes, Stages
  <2> QED BY <1>2, <1>3, <2>1 DEF Left, IInv, TypeOK
<1>7. req[w].at \in Stages /\ "openMeta" \in Stages
  BY <1>1 DEF Stages
<1> QED BY <1>2, <1>5, <1>6, <1>7, AtFileKeepsIInv

\* The summary is written and the request answered: both files are of what the
\* session holds, and that is what is reported.
LEMMA WriteMetaKeepsIInv ==
  ASSUME IInv, NEW w \in Writers, WriteMeta(w)
  PROVE  IInv'
<1> DEFINE path == req[w].path
           o == req[w].object
           mine == Meta(holds[o])
           more == [of |-> o, calls |-> holds[o].calls + 1]
<1>1. /\ req[w].at = "writeMeta" /\ req[w].at \in Stages /\ Return(w)
      /\ saved' = [saved EXCEPT ![path] = holds[o]] /\ cut' = cut \ {path}
      /\ holds' = holds \/ holds' = [holds EXCEPT ![o] = more]
      /\ open' = open /\ drawn' = drawn /\ closed' = closed /\ served' = served /\ crashes' = crashes
  BY DEF WriteMeta, Report, Changed, bounds, Stages
<1>2. PICK file \in Left(disk[Sidecar(path)], mine) : disk' = [disk EXCEPT ![Sidecar(path)] = file]
  BY <1>1 DEF WriteMeta, Meta, Target
<1>3. /\ o \in Objects /\ holds[o] \in State /\ holds[o] /= None
      /\ path \in Chosen \cup {DefaultPath(req[w].id)} /\ req[w].id \in Ids
      /\ req[w].kind /= "call"
  BY <1>1 DEF IInv, ReqInv, TypeOK
<1>4. path \in Paths /\ path \in Files /\ Sidecar(path) \in Files
  BY <1>3 DEF Paths, Files
<1>5. more \in State /\ more.calls >= holds[o].calls /\ more /= None
  BY <1>3, NamesAssumption DEF State
<1> HIDE DEF more
<1>6. TypeOK'
  <2>1. file \in Whole \cup {Torn}
    BY <1>2, <1>3 DEF Left, Whole, Meta
  <2>2. disk' \in [Files -> Whole \cup {Absent, Empty, Torn}]
    BY <1>2, <2>1 DEF IInv, TypeOK
  <2> QED BY <1>1, <1>3, <1>4, <1>5, <2>2, ReturnFacts DEF IInv, TypeOK
<1>7. Grows
  BY <1>1, <1>3, <1>5 DEF IInv, TypeOK, Grows, State
<1>8. saved'[path] = holds[o] /\ \A p \in Paths \ {path} : saved'[p] = saved[p] /\ (p \in cut' <=> p \in cut)
  BY <1>1, <1>4 DEF IInv, TypeOK
<1>9. \A v \in Writers \ {w} : \A p : Writes(v, p)' <=> Writes(v, p)
  BY <1>1, ReturnFacts DEF Writes
<1>10. \A p : ~Writes(w, p)'
  BY <1>1, ReturnFacts DEF Writes, Stages
<1>11. ASSUME NEW p \in Paths, Touched(p) PROVE Touched(p)'
  <2>1. CASE p = path
    BY <2>1, <1>3, <1>8 DEF Touched
  <2>2. CASE p /= path
    <3>1. ~Writes(w, p)
      BY <2>2 DEF Writes
    <3>2. /\ Writing(p) <=> \E v \in Writers : Writes(v, p)
          /\ Writing(p)' <=> \E v \in Writers : Writes(v, p)'
      BY <1>6, WritingFacts DEF IInv
    <3> QED BY <1>8, <1>9, <1>11, <2>2, <3>1, <3>2 DEF Touched
  <2> QED BY <2>1, <2>2
<1>12. ASSUME NEW id \in Ids PROVE Own(id)' => Own(id)
  BY <1>7, <1>11, OwnBefore
<1>13. \A v \in Writers \ {w} : req[v].at \in Stages => holds'[req[v].object] = holds[req[v].object]
  <2> SUFFICES ASSUME NEW v \in Writers \ {w}, req[v].at \in Stages
               PROVE  holds'[req[v].object] = holds[req[v].object]
    OBVIOUS
  <2>1. holder[req[v].object] = v /\ holder[o] = w /\ req[v].object \in Objects
    BY <1>1 DEF IInv, ReqInv, Stages
  <2>2. req[v].object /= o
    BY <2>1
  <2> HIDE DEF o
  <2> QED BY <1>1, <2>1, <2>2 DEF IInv, TypeOK
<1>14. ASSUME NEW id \in Ids, Own(id)' PROVE DiskInv(id)'
  <2> DEFINE p == DefaultPath(id)
  <2>1. Own(id)
    BY <1>12, <1>14
  <2>2. /\ Writing(p) <=> \E v \in Writers : Writes(v, p)
        /\ Writing(p)' <=> \E v \in Writers : Writes(v, p)'
    BY <1>6, WritingFacts DEF IInv
  <2>3. CASE path = p
    <3>1. Writes(w, p)
      BY <2>3, <1>1 DEF Writes
    <3>2. \A v \in Writers : ~Writes(v, p)'
      BY <1>9, <1>10, <2>1, <3>1, OneWriter
    <3>3. disk[p] = History(holds[o]) /\ disk[Sidecar(p)] = Empty
      BY <1>1, <2>1, <3>1 DEF IInv, DiskInv
    <3>4. disk'[Sidecar(p)] = mine
      BY <1>2, <1>4, <2>3, <3>3 DEF Left, IInv, TypeOK
    <3>5. disk'[p] = History(holds[o])
      BY <1>2, <1>4, <2>3, <3>3, ApartFacts DEF IInv, TypeOK
    <3> QED BY <1>8, <2>3, <3>2, <3>4, <3>5 DEF DiskInv
  <2>4. CASE path /= p
    <3>1. ~SharesFile(path, p)
      BY <1>1, <2>1, <2>4, MyWriter
    <3>2. disk'[p] = disk[p] /\ disk'[Sidecar(p)] = disk[Sidecar(p)]
      BY <1>2, <3>1, PathFacts DEF SharesFile, IInv, TypeOK
    <3>3. ~Writes(w, p)
      BY <2>4 DEF Writes
    <3>4. p \in Paths
      BY PathFacts
    <3>5. ASSUME NEW v \in Writers, Writes(v, p)'
          PROVE  /\ req'[v].at = "write" => disk'[p] = Empty
                 /\ req'[v].at \in {"openMeta", "writeMeta"} => disk'[p] = History(holds'[req'[v].object])
                 /\ req'[v].at = "writeMeta" => disk'[Sidecar(p)] = Empty
      <4>1. v /= w /\ Writes(v, p) /\ req'[v] = req[v]
        BY <1>1, <1>9, <1>10, <3>5, ReturnFacts
      <4>2. holds'[req[v].object] = holds[req[v].object]
        BY <1>13, <4>1 DEF Writes
      <4> QED BY <2>1, <3>2, <4>1, <4>2 DEF IInv, DiskInv
    <3>6. ASSUME saved'[p] /= None, ~Writing(p)', p \notin cut'
          PROVE  disk'[p] = History(saved'[p]) /\ disk'[Sidecar(p)] = Meta(saved'[p])
      <4>1. saved'[p] = saved[p] /\ p \notin cut /\ ~Writing(p)
        BY <1>8, <1>9, <2>2, <2>4, <3>3, <3>4, <3>6
      <4> QED BY <2>1, <3>2, <3>6, <4>1 DEF IInv, DiskInv
    <3> QED BY <3>5, <3>6 DEF DiskInv
  <2> QED BY <2>3, <2>4
<1>15. ASSUME NEW id \in Ids PROVE DiskInv(id)'
  BY <1>14 DEF DiskInv
<1>16. ASSUME NEW id \in Ids PROVE CloseInv(id)'
  <2> DEFINE p == DefaultPath(id)
  <2>1. \A v \in Writers : Pends(v, id)' => Pends(v, id) /\ req'[v].object = req[v].object
    BY <1>1, ReturnFacts
  <2>2. closed[id] = None => CloseInv(id)'
    BY <1>1 DEF CloseInv
  <2>3. ASSUME closed[id] /= None, Own(id)', Covered(id) PROVE Covered(id)'
    <3>1. Own(id)
      BY <1>12, <2>3
    <3>2. CASE path = p
      <4>1. Pends(w, id)
        BY <1>1, <3>1, <3>2, MyWriter DEF Pends, SharesFile, Stages
      <4>2. holds[o].calls >= closed[id].calls
        BY <2>3, <3>1, <4>1 DEF IInv, CloseInv
      <4>3. saved'[p] = holds[o] /\ closed' = closed
        BY <1>1, <1>8, <3>2
      <4> QED BY <1>3, <4>2, <4>3 DEF Covered
    <3>3. CASE path /= p
      <4>1. p \in Paths
        BY PathFacts
      <4>2. saved'[p] = saved[p] /\ (p \in cut => p \in cut') /\ closed' = closed
        BY <1>1, <1>8, <3>3, <4>1
      <4>3. \A v \in Writers : Closes(v, id) => Closes(v, id)'
        <5> SUFFICES ASSUME NEW v \in Writers, Closes(v, id) PROVE Closes(v, id)'
          OBVIOUS
        <5>1. v /= w
          BY <3>3 DEF Closes, Pends, IInv, ReqInv
        <5>2. req'[v] = req[v]
          BY <1>1, <5>1, ReturnFacts
        <5> QED BY <5>2 DEF Closes, Pends
      <4> QED BY <2>3, <4>2, <4>3 DEF Covered
    <3> QED BY <3>2, <3>3
  <2>4. Own(id)' => Own(id)
    BY <1>12
  <2> QED BY <1>1, <1>6, <1>7, <2>1, <2>2, <2>3, <2>4, CloseStays
<1> QED BY <1>1, <1>6, <1>7, <1>15, <1>16, ReturnStays DEF IInv

\* A write that fails marks its path; what is at other paths is left alone.
LEMMA WriteFailsKeepsIInv ==
  ASSUME IInv, NEW w \in Writers, WriteFails(w)
  PROVE  IInv'
<1> DEFINE path == req[w].path
<1>1. /\ req[w].at \in Stages /\ Return(w)
      /\ cut' = cut \cup {path} /\ saved' = saved /\ closed' = closed
      /\ open' = open /\ holds' = holds /\ drawn' = drawn /\ served' = served /\ crashes' = crashes
  BY DEF WriteFails, Stages, registry, bounds
<1>2. disk' = disk \/ \E file \in {path, Sidecar(path)} : disk' = [disk EXCEPT ![file] = Torn]
  BY DEF WriteFails, Target
<1>3. path \in Paths /\ path \in Files /\ Sidecar(path) \in Files
  <2>1. path \in Chosen \cup {DefaultPath(req[w].id)} /\ req[w].id \in Ids
    BY <1>1 DEF IInv, ReqInv, Stages
  <2> QED BY <2>1 DEF Paths, Files
<1>4. TypeOK'
  <2>1. disk' \in [Files -> Whole \cup {Absent, Empty, Torn}]
    BY <1>2, <1>3 DEF IInv, TypeOK
  <2> QED BY <1>1, <1>3, <2>1, ReturnFacts DEF IInv, TypeOK
<1>5. Grows
  BY <1>1 DEF IInv, TypeOK, Grows, State
<1>6. \A v \in Writers \ {w} : \A p : Writes(v, p)' <=> Writes(v, p)
  BY <1>1, ReturnFacts DEF Writes
<1>7. \A p : ~Writes(w, p)'
  BY <1>1, ReturnFacts DEF Writes, Stages
<1>8. ASSUME NEW p \in Paths, Touched(p) PROVE Touched(p)'
  <2>1. \A v \in Writers : Writes(v, p) => Writes(v, p)' \/ p \in cut'
    BY <1>1, <1>6 DEF Writes
  <2> QED BY <1>1, <1>4, <1>8, <2>1, TouchedStays
<1>9. ASSUME NEW id \in Ids PROVE Own(id)' => Own(id)
  BY <1>5, <1>8, OwnBefore
<1>10. ASSUME NEW id \in Ids, Own(id)' PROVE DiskInv(id)'
  <2> DEFINE p == DefaultPath(id)
  <2>1. Own(id)
    BY <1>9, <1>10
  <2>2. /\ Writing(p) <=> \E v \in Writers : Writes(v, p)
        /\ Writing(p)' <=> \E v \in Writers : Writes(v, p)'
    BY <1>4, WritingFacts DEF IInv
  <2>3. CASE path = p
    <3>1. Writes(w, p)
      BY <2>3, <1>1 DEF Writes
    <3>2. \A v \in Writers : ~Writes(v, p)'
      BY <1>6, <1>7, <2>1, <3>1, OneWriter
    <3> QED BY <1>1, <2>3, <3>2 DEF DiskInv
  <2>4. CASE path /= p
    <3>1. ~SharesFile(path, p)
      BY <1>1, <2>1, <2>4, MyWriter
    <3>2. disk'[p] = disk[p] /\ disk'[Sidecar(p)] = disk[Sidecar(p)]
      BY <1>2, <3>1, PathFacts DEF SharesFile, IInv, TypeOK
    <3>3. ~Writes(w, p)
      BY <2>4 DEF Writes
    <3>4. ASSUME NEW v \in Writers, Writes(v, p)'
          PROVE  /\ req'[v].at = "write" => disk'[p] = Empty
                 /\ req'[v].at \in {"openMeta", "writeMeta"} => disk'[p] = History(holds'[req'[v].object])
                 /\ req'[v].at = "writeMeta" => disk'[Sidecar(p)] = Empty
      <4>1. Writes(v, p) /\ req'[v] = req[v]
        BY <1>1, <1>6, <1>7, <3>4, ReturnFacts
      <4> QED BY <1>1, <2>1, <3>2, <4>1 DEF IInv, DiskInv
    <3>5. ASSUME saved'[p] /= None, ~Writing(p)', p \notin cut'
          PROVE  disk'[p] = History(saved'[p]) /\ disk'[Sidecar(p)] = Meta(saved'[p])
      <4>1. saved'[p] = saved[p] /\ p \notin cut /\ ~Writing(p)
        BY <1>1, <1>6, <2>2, <3>3, <3>5
      <4> QED BY <2>1, <3>2, <3>5, <4>1 DEF IInv, DiskInv
    <3> QED BY <3>4, <3>5 DEF DiskInv
  <2> QED BY <2>3, <2>4
<1>11. ASSUME NEW id \in Ids PROVE DiskInv(id)'
  BY <1>10 DEF DiskInv
<1>12. ASSUME NEW id \in Ids PROVE CloseInv(id)'
  <2>1. \A v \in Writers : Pends(v, id)' => Pends(v, id) /\ req'[v].object = req[v].object
    BY <1>1, ReturnFacts
  <2>2. Covered(id) => Covered(id)'
    <3>1. Closes(w, id) => DefaultPath(id) \in cut'
      BY <1>1 DEF Closes, Pends, IInv, ReqInv
    <3>2. \A v \in Writers \ {w} : Closes(v, id) => Closes(v, id)'
      BY <1>1, ReturnFacts DEF Closes, Pends
    <3> QED BY <1>1, <3>1, <3>2 DEF Covered
  <2> QED BY <1>1, <1>4, <1>5, <1>9, <2>1, <2>2, CloseStays
<1> QED BY <1>1, <1>4, <1>5, <1>11, <1>12, ReturnStays DEF IInv

\* A crash leaves the disk as it is and marks every path that was written, or was to
\* be by a close.
LEMMA CrashKeepsIInv ==
  ASSUME IInv, Crash
  PROVE  IInv'
<1>1. /\ open' = [id \in Ids |-> None] /\ holder' = [o \in Objects |-> None]
      /\ req' = [w \in Writers |-> Done] /\ crashes' \in 0 .. MaxCrashes
      /\ holds' = holds /\ drawn' = drawn /\ disk' = disk /\ saved' = saved
      /\ closed' = closed /\ served' = served
  BY SnapshotsAssumption DEF Crash, IInv, TypeOK
<1>2. cut \subseteq cut'
  BY DEF Crash
<1>3. \A w \in Writers : req[w].at \notin {"done", "try"} => req[w].path \in cut'
  BY DEF Crash, IInv, ReqInv
<1>4. Done \in Request /\ Done.at = "done"
  BY DEF Done, Request
<1>5. TypeOK'
  <2>1. cut' \subseteq Paths
    <3> SUFFICES ASSUME NEW w \in Writers, req[w].at \notin {"done", "try"}
                 PROVE  req[w].path \in Paths
      BY DEF Crash, IInv, TypeOK
    <3>1. req[w].path \in Chosen \cup {DefaultPath(req[w].id)} /\ req[w].id \in Ids
      BY DEF IInv, ReqInv
    <3> QED BY <3>1 DEF Paths
  <2> QED BY <1>1, <1>4, <2>1 DEF IInv, TypeOK
<1>6. Grows
  BY <1>1 DEF IInv, TypeOK, Grows, State
<1>7. \A w \in Writers : req'[w] = Done
  BY <1>1
<1>8. ASSUME NEW w \in Writers PROVE ReqInv(w)'
  BY <1>4, <1>7 DEF ReqInv, Stages
<1>9. ASSUME NEW id \in Ids PROVE \A w \in Writers : ~Pends(w, id)'
  BY <1>4, <1>7 DEF Pends
<1>10. ASSUME NEW id \in Ids PROVE OpenInv(id)'
  BY <1>1, <1>9 DEF OpenInv
<1>11. ASSUME NEW p PROVE /\ \A w \in Writers : ~Writes(w, p)'
                         /\ \A w \in Writers : Writes(w, p) => p \in cut'
  BY <1>3, <1>4, <1>7 DEF Writes, Stages
<1>12. ASSUME NEW p \in Paths, Touched(p) PROVE Touched(p)'
  BY <1>1, <1>2, <1>5, <1>11, <1>12, TouchedStays
<1>13. ASSUME NEW id \in Ids PROVE Own(id)' => Own(id)
  BY <1>6, <1>12, OwnBefore
<1>14. ASSUME NEW id \in Ids PROVE DiskInv(id)'
  <2> DEFINE p == DefaultPath(id)
  <2>1. ASSUME Own(id)', saved'[p] /= None, p \notin cut'
        PROVE  disk'[p] = History(saved'[p]) /\ disk'[Sidecar(p)] = Meta(saved'[p])
    <3>1. Writing(p) <=> \E v \in Writers : Writes(v, p)
      BY <1>5, WritingFacts DEF IInv
    <3>2. Own(id) /\ ~Writing(p) /\ p \notin cut
      BY <1>2, <1>11, <1>13, <2>1, <3>1
    <3> QED BY <1>1, <2>1, <3>2 DEF IInv, DiskInv
  <2> QED BY <1>11, <2>1 DEF DiskInv
<1>15. ASSUME NEW id \in Ids PROVE CloseInv(id)'
  <2>1. Covered(id) => Covered(id)'
    <3>1. \A w \in Writers : Closes(w, id) => DefaultPath(id) \in cut'
      BY <1>3 DEF Closes, Pends, IInv, ReqInv
    <3> QED BY <1>1, <1>2, <3>1 DEF Covered
  <2> QED BY <1>1, <1>5, <1>6, <1>9, <1>13, <2>1, CloseStays
<1> QED BY <1>5, <1>8, <1>10, <1>14, <1>15 DEF IInv

-----------------------------------------------------------------------------
\* The invariant holds through closes, failures, crashes, restores and ids drawn again.
THEOREM Invariance == Spec => []IInv
<1>1. Init => IInv
  BY InitIInv
<1>2. IInv /\ [Next]_vars => IInv'
  <2> SUFFICES ASSUME IInv, [Next]_vars PROVE IInv'
    OBVIOUS
  <2>1. CASE Create
    BY <2>1, InsertKeepsIInv DEF Create
  <2>2. CASE Restore
    <3>1. PICK p \in Files : /\ Decodes(disk[p]) /\ Insert(disk[p].state)
                            /\ UNCHANGED <<holder, disk, req, ghosts, bounds>>
      BY <2>2 DEF Restore
    <3>2. disk[p].state \in State
      BY <3>1 DEF Decodes
    <3> QED BY <3>1, <3>2, InsertKeepsIInv
  <2>3. CASE Crash
    BY <2>3, CrashKeepsIInv
  <2>4. ASSUME NEW w \in Writers, BeginCall(w) PROVE IInv'
    <3>1. PICK id \in Ids : Begin(w, "call", id, <<>>)
      BY <2>4 DEF BeginCall
    <3> QED BY <3>1, BeginKeepsIInv
  <2>5. ASSUME NEW w \in Writers, BeginSnapshot(w) PROVE IInv'
    <3>1. PICK id \in Ids, path \in Paths :
            path \in Chosen \cup {DefaultPath(id)} /\ Begin(w, "snapshot", id, path)
      BY <2>5 DEF BeginSnapshot
    <3> QED BY <3>1, BeginKeepsIInv
  <2>6. ASSUME NEW w \in Writers, Busy(w) \/ Call(w) \/ Close(w) \/ Enter(w) PROVE IInv'
    BY <2>6, BusyKeepsIInv, CallKeepsIInv, CloseKeepsIInv, EnterKeepsIInv
  <2>7. ASSUME NEW w \in Writers, OpenFile(w) \/ WriteHistory(w) \/ WriteMeta(w) \/ WriteFails(w)
        PROVE  IInv'
    BY <2>7, OpenFileKeepsIInv, WriteHistoryKeepsIInv, WriteMetaKeepsIInv, WriteFailsKeepsIInv
  <2>8. CASE UNCHANGED vars
    <3>1. /\ open' = open /\ holds' = holds /\ holder' = holder /\ drawn' = drawn /\ disk' = disk
          /\ req' = req /\ saved' = saved /\ cut' = cut /\ closed' = closed
          /\ served' = served /\ crashes' = crashes
      BY <2>8 DEF vars
    <3> QED BY <3>1 DEF IInv, TypeOK, ReqInv, OpenInv, DiskInv, CloseInv, Own, Touched, Writing,
                        Covered, Closes, Pends, Writes
  <2> QED BY <2>1, <2>2, <2>3, <2>4, <2>5, <2>6, <2>7, <2>8 DEF Next
<1> QED BY <1>1, <1>2, PTL DEF Spec

\* When nobody is writing there and no write was cut off since, what was last reported
\* as saved at a session's own path is what is restored from there and what the list
\* tells of it.
THEOREM OwnPathCorrect == Spec => []OwnPathKept
<1>1. ASSUME IInv, NEW id \in Ids, Own(id), saved[DefaultPath(id)] /= None,
             ~Writing(DefaultPath(id)), DefaultPath(id) \notin cut
      PROVE  /\ disk[DefaultPath(id)] = [kind |-> "history", state |-> saved[DefaultPath(id)]]
             /\ [path |-> DefaultPath(id), tells |-> saved[DefaultPath(id)]] \in Catalog
  <2> DEFINE p == DefaultPath(id)
             f == Sidecar(p)
  <2>1. disk[p] = History(saved[p]) /\ disk[f] = Meta(saved[p])
    BY <1>1 DEF IInv, DiskInv
  <2>2. saved[p] \in State
    BY <1>1, PathFacts DEF IInv, TypeOK
  <2>3. p \in Files /\ f \in Files /\ Front(f) = p /\ IsSidecar(f)
    BY PathFacts
  <2>4. disk[p] /= Absent
    BY <2>1, <2>2, NamesAssumption DEF Whole, History
  <2>5. DecodesMeta(disk[f]) /\ disk[f].state = saved[p]
    BY <2>1, <2>2 DEF DecodesMeta, Meta
  <2> HIDE DEF p, f
  <2>6. [path |-> p, tells |-> saved[p]] \in Catalog
    BY <2>3, <2>4, <2>5 DEF Catalog
  <2> QED BY <2>1, <2>6 DEF p, History
<1>2. IInv => OwnPathKept
  BY <1>1 DEF OwnPathKept, IInv
<1> QED BY <1>2, Invariance, PTL

\* A session that was closed comes back with every call that was answered before the
\* close was asked for, whatever went on in it at that moment.
THEOREM ClosedCorrect == Spec => []ClosedComesBack
<1>1. ASSUME IInv, NEW id \in Ids, Own(id), closed[id] /= None,
             ~Pending(DefaultPath(id)), DefaultPath(id) \notin cut
      PROVE  /\ Decodes(disk[DefaultPath(id)])
             /\ disk[DefaultPath(id)].state.calls >= closed[id].calls
  <2> DEFINE p == DefaultPath(id)
  <2>1. \A w \in Writers : ~Closes(w, id)
    BY <1>1 DEF Closes, Pends, Pending, IInv, ReqInv
  <2>2. saved[p] /= None /\ saved[p].calls >= closed[id].calls
    BY <1>1, <2>1 DEF IInv, CloseInv, Covered
  <2>3. ~Writing(p)
    BY <1>1 DEF Writing, Pending
  <2>4. disk[p] = History(saved[p])
    BY <1>1, <2>2, <2>3 DEF IInv, DiskInv
  <2>5. saved[p] \in State
    <3>1. p \in Paths
      BY PathFacts
    <3>2. saved \in [Paths -> State \cup {None}]
      BY <1>1 DEF IInv, TypeOK
    <3> HIDE DEF p
    <3> QED BY <2>2, <3>1, <3>2
  <2> QED BY <2>2, <2>4, <2>5 DEF Decodes, History
<1>2. IInv => ClosedComesBack
  BY <1>1 DEF ClosedComesBack
<1> QED BY <1>2, Invariance, PTL
=============================================================================
