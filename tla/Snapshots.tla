------------------------------ MODULE Snapshots ------------------------------
(***************************************************************************)
(* Snapshots on disk: two files each, written in place one after the other *)
(* by session_snapshot, the web UI and session_close; what list_snapshots  *)
(* and session_restore make of what they find, also after a crash of the   *)
(* daemon between or within the writes, and when an id is drawn again.     *)
(*                                                                         *)
(* A session is an object; `open` maps ids to objects, a request that has  *)
(* resolved an id keeps the object.  What a session holds is told by whose *)
(* it is and how many calls changed it.                                    *)
(***************************************************************************)
EXTENDS Naturals, Sequences, SequencesExt, FiniteSets

CONSTANTS
  Ids,         \* what an id may be: generate_session_id draws among those not open
  Objects,     \* sessions, in the order they are made: 1 .. n
  Writers,     \* requests in flight
  Chosen,      \* file names a session_snapshot may be asked to write to
  None,        \* no object, no id
  Absent,      \* no file
  Empty,       \* a file that was created or truncated, with nothing written yet
  Torn,        \* a part of a file, or a mixture of two; it does not decode
  MaxRequests, \* bound: requests of one behaviour
  MaxCrashes   \* bound: crashes of the daemon

ASSUME SnapshotsAssumption ==
  /\ Objects = 1 .. Cardinality(Objects)
  /\ MaxRequests \in Nat /\ MaxCrashes \in Nat

\* A file name is the sequence of its parts between the dots.  with_extension
\* replaces the last of them if there is more than one.
WithExtension(name, extension) == (IF Len(name) > 1 THEN Front(name) ELSE name) \o extension
Sidecar(name) == WithExtension(name, <<"drun", "meta">>)
DefaultPath(id) == <<id, "drun">>

Paths == {DefaultPath(id) : id \in Ids} \cup Chosen
Files == Paths \cup {Sidecar(p) : p \in Paths}

\* What a session holds, and a file with it: the history or its summary.
State == [of : Objects, calls : Nat]
Whole == [kind : {"history", "meta"}, state : State]

ASSUME NamesAssumption ==
  /\ None \notin Ids /\ None \notin Objects /\ None \notin Writers /\ None \notin State
  /\ Absent \notin Whole

VARIABLES
  open,     \* the map of sessions: the object that has an id
  holds,    \* what each object holds; None if it was not made yet
  holder,   \* the request that has the object's mutex
  drawn,    \* how often an id was drawn
  disk,     \* the files of snapshots_dir
  req,      \* where each request is
  saved,    \* history: what was last reported to be at a path by its writer
  cut,      \* history: the paths where a crash or a failure has left files unfinished
  closed,   \* history: what sessions held when their close took them out of the map
  served,   \* requests begun so far
  crashes   \* crashes so far

vars == <<open, holds, holder, drawn, disk, req, saved, cut, closed, served, crashes>>

Done == [kind |-> "none", at |-> "done", id |-> None, object |-> None, path |-> <<>>]
Request == [kind : {"none", "call", "snapshot", "close"},
            at : {"done", "try", "wait", "open", "write", "openMeta", "writeMeta"},
            id : Ids \cup {None}, object : Objects \cup {None}, path : Paths \cup {<<>>}]

TypeOK ==
  /\ open \in [Ids -> Objects \cup {None}]
  /\ holds \in [Objects -> State \cup {None}]
  /\ holder \in [Objects -> Writers \cup {None}]
  /\ drawn \in [Ids -> Nat]
  /\ disk \in [Files -> Whole \cup {Absent, Empty, Torn}]
  /\ req \in [Writers -> Request]
  /\ saved \in [Paths -> State \cup {None}]
  /\ cut \subseteq Paths
  /\ closed \in [Ids -> State \cup {None}]
  /\ served \in 0 .. MaxRequests /\ crashes \in 0 .. MaxCrashes

Init ==
  /\ open = [id \in Ids |-> None]
  /\ holds = [o \in Objects |-> None]
  /\ holder = [o \in Objects |-> None]
  /\ drawn = [id \in Ids |-> 0]
  /\ disk = [f \in Files |-> Absent]
  /\ req = [w \in Writers |-> Done]
  /\ saved = [p \in Paths |-> None]
  /\ cut = {}
  /\ closed = [id \in Ids |-> None]
  /\ served = 0 /\ crashes = 0

registry == <<open, holds, drawn>>
ghosts == <<saved, cut, closed>>
bounds == <<served, crashes>>

Serve == served < MaxRequests /\ served' = served + 1

-----------------------------------------------------------------------------
(***************************************************************************)
(* Sessions.                                                               *)
(***************************************************************************)

\* insert_session: any id no open session has.
Insert(state) ==
  \E id \in Ids, o \in Objects :
    /\ open[id] = None
    /\ holds[o] = None
    /\ \A other \in Objects : holds[other] = None => o <= other
    /\ open' = [open EXCEPT ![id] = o]
    /\ holds' = [holds EXCEPT ![o] = IF state = None THEN [of |-> o, calls |-> 0] ELSE state]
    /\ drawn' = [drawn EXCEPT ![id] = @ + 1]

Create == Insert(None) /\ UNCHANGED <<holder, disk, req, ghosts, bounds>>

\* SessionSnapshot::decode: what does not begin with the magic or ends too early
\* is refused; a summary is no history.
Decodes(file) == file \in [kind : {"history"}, state : State]
DecodesMeta(file) == file \in [kind : {"meta"}, state : State]

\* session_restore, of any path; the session made of it is new.
Restore ==
  \E p \in Files :
    /\ Decodes(disk[p])
    /\ Insert(disk[p].state)
    /\ UNCHANGED <<holder, disk, req, ghosts, bounds>>

\* A request resolves its session before it tries the mutex.
Begin(w, kind, id, path) ==
  /\ req[w] = Done
  /\ open[id] /= None
  /\ Serve
  /\ req' = [req EXCEPT ![w] = [kind |-> kind, at |-> "try", id |-> id,
                                object |-> open[id], path |-> path]]
  /\ UNCHANGED <<registry, holder, disk, ghosts, crashes>>

BeginCall(w) == \E id \in Ids : Begin(w, "call", id, <<>>)

\* session_snapshot to a path of the caller's, or the default; the web UI's.
BeginSnapshot(w) ==
  \E id \in Ids, path \in Paths :
    path \in Chosen \cup {DefaultPath(id)} /\ Begin(w, "snapshot", id, path)

Goto(w, place) == req' = [req EXCEPT ![w].at = place]
Return(w) ==
  /\ req' = [req EXCEPT ![w] = Done]
  /\ holder' = [o \in Objects |-> IF holder[o] = w THEN None ELSE holder[o]]

Busy(w) ==
  /\ req[w].at = "try"
  /\ holder[req[w].object] /= None
  /\ Return(w)
  /\ UNCHANGED <<registry, disk, ghosts, bounds>>

\* A call that changes the session: one step more of its history.
Changed(o) == [holds EXCEPT ![o] = [of |-> o, calls |-> @.calls + 1]]

Call(w) ==
  /\ req[w].at = "try" /\ req[w].kind = "call"
  /\ holder[req[w].object] = None
  /\ holds' = Changed(req[w].object)
  /\ Return(w)
  /\ UNCHANGED <<open, drawn, disk, ghosts, bounds>>

-----------------------------------------------------------------------------
(***************************************************************************)
(* SessionSnapshot::write, under the session's mutex.                      *)
(***************************************************************************)
\* Mutant: the close does not wait for the session's mutex.
EnterAnyway(w) ==
  /\ \/ req[w].at = "try" /\ req[w].kind = "snapshot" /\ holder[req[w].object] = None
     \/ req[w].at = "wait"
  /\ holder' = [holder EXCEPT ![req[w].object] = w]
  /\ Goto(w, "open")
  /\ UNCHANGED <<registry, disk, ghosts, bounds>>

Enter(w) ==
  /\ \/ req[w].at = "try" /\ req[w].kind = "snapshot"
     \/ req[w].at = "wait"
  /\ holder[req[w].object] = None
  /\ holder' = [holder EXCEPT ![req[w].object] = w]
  /\ Goto(w, "open")
  /\ UNCHANGED <<registry, disk, ghosts, bounds>>

\* The file a request is at.
Target(w) == IF req[w].at \in {"open", "write"} THEN req[w].path ELSE Sidecar(req[w].path)

\* fs::write creates or truncates the file, then writes.
OpenFile(w) ==
  /\ req[w].at \in {"open", "openMeta"}
  /\ disk' = [disk EXCEPT ![Target(w)] = Empty]
  /\ Goto(w, IF req[w].at = "open" THEN "write" ELSE "writeMeta")
  /\ UNCHANGED <<registry, holder, ghosts, bounds>>

\* What another writer of the same file has put there may stick out behind.
Left(file, mine) == IF file = Empty THEN {mine} ELSE {mine, Torn}

WriteHistory(w) ==
  LET mine == [kind |-> "history", state |-> holds[req[w].object]] IN
  /\ req[w].at = "write"
  /\ \E file \in Left(disk[req[w].path], mine) : disk' = [disk EXCEPT ![req[w].path] = file]
  /\ Goto(w, "openMeta")
  /\ UNCHANGED <<registry, holder, ghosts, bounds>>

\* The answer; session_snapshot then records its step, the web UI's does not.
Report(w) ==
  /\ saved' = [saved EXCEPT ![req[w].path] = holds[req[w].object]]
  /\ cut' = cut \ {req[w].path}
  /\ \/ req[w].kind = "snapshot" /\ holds' = Changed(req[w].object)
     \/ req[w].path = DefaultPath(req[w].id) /\ UNCHANGED holds

\* Mutant: the summary is left for later.
WriteNoMeta(w) ==
  /\ req[w].at = "writeMeta"
  /\ Report(w)
  /\ Return(w)
  /\ UNCHANGED <<open, drawn, disk, closed, bounds>>

WriteMeta(w) ==
  LET mine == [kind |-> "meta", state |-> holds[req[w].object]] IN
  /\ req[w].at = "writeMeta"
  /\ \E file \in Left(disk[Target(w)], mine) : disk' = [disk EXCEPT ![Target(w)] = file]
  /\ Report(w)
  /\ Return(w)
  /\ UNCHANGED <<open, drawn, closed, bounds>>

\* The file cannot be opened, or the write fails half way; the request fails.
WriteFails(w) ==
  /\ req[w].at \in {"open", "write", "openMeta", "writeMeta"}
  /\ IF req[w].at \in {"write", "writeMeta"} THEN disk' = [disk EXCEPT ![Target(w)] = Torn]
                                              ELSE UNCHANGED disk
  /\ cut' = cut \cup {req[w].path}
  /\ Return(w)
  /\ UNCHANGED <<registry, saved, closed, bounds>>

\* The web UI's delete or session_close, with snapshot_on_close: out of the map at once, then it waits
\* for the call in the session.
Close(w) ==
  \E id \in Ids :
    /\ req[w] = Done
    /\ open[id] /= None
    /\ Serve
    /\ open' = [open EXCEPT ![id] = None]
    /\ closed' = [closed EXCEPT ![id] = holds[open[id]]]
    /\ req' = [req EXCEPT ![w] = [kind |-> "close", at |-> "wait", id |-> id,
                                  object |-> open[id], path |-> DefaultPath(id)]]
    /\ UNCHANGED <<holds, holder, drawn, disk, saved, cut, crashes>>

-----------------------------------------------------------------------------
\* The daemon is killed and started again: what is left is on disk.
Crash ==
  /\ crashes < MaxCrashes
  /\ crashes' = crashes + 1
  /\ open' = [id \in Ids |-> None]
  /\ holder' = [o \in Objects |-> None]
  /\ cut' = cut \cup {req[w].path :
              w \in {v \in Writers : req[v].kind /= "call" /\ req[v].at \notin {"done", "try"}}}
  /\ req' = [w \in Writers |-> Done]
  /\ UNCHANGED <<holds, drawn, disk, saved, closed, served>>

Next ==
  \/ Create \/ Restore \/ Crash
  \/ \E w \in Writers :
       \/ BeginCall(w) \/ BeginSnapshot(w) \/ Busy(w) \/ Call(w) \/ Close(w)
       \/ Enter(w) \/ OpenFile(w) \/ WriteHistory(w) \/ WriteMeta(w) \/ WriteFails(w)

Spec == Init /\ [][Next]_vars

-----------------------------------------------------------------------------
(***************************************************************************)
(* What a user sees, and properties.                                       *)
(***************************************************************************)

\* SnapshotEntry::catalog: the sidecars that can be read and have a file beside
\* them, and what each tells of it.
IsSidecar(name) == Len(name) > 2 /\ Last(name) = "meta" /\ name[Len(name) - 1] = "drun"
Catalog ==
  { [path |-> Front(f), tells |-> disk[f].state] :
    f \in {g \in Files : /\ IsSidecar(g)
                         /\ Front(g) \in Files /\ disk[Front(g)] /= Absent
                         /\ DecodesMeta(disk[g]) } }

\* The default path of a session whose id was drawn only once is its own, unless
\* a session_snapshot was given a name with its stem.
Writing(p) == \E w \in Writers : req[w].path = p /\ req[w].at \notin {"done", "try", "wait"}
Touched(p) == saved[p] /= None \/ p \in cut \/ Writing(p)
SharesFile(p, q) == {p, Sidecar(p)} \cap {q, Sidecar(q)} /= {}
Own(id) ==
  /\ drawn[id] <= 1
  /\ \A p \in Chosen : SharesFile(p, DefaultPath(id)) => ~Touched(p)

\* Calls, closes, failures and crashes in any order: when nobody is writing there
\* and no write was cut off since, what was last reported as saved at a session's
\* own path is what is restored from there and what the list tells of it.
OwnPathKept ==
  /\ TypeOK
  /\ \A id \in Ids : LET p == DefaultPath(id) IN
       Own(id) /\ saved[p] /= None /\ ~Writing(p) /\ p \notin cut =>
         /\ disk[p] = [kind |-> "history", state |-> saved[p]]
         /\ [path |-> p, tells |-> saved[p]] \in Catalog

Pending(p) == \E w \in Writers : req[w].path = p /\ req[w].at \notin {"done", "try"}

\* A session that was closed comes back with every call that was answered before
\* the close was asked for, whatever went on in it at that moment.
ClosedComesBack ==
  \A id \in Ids : LET p == DefaultPath(id) IN
    Own(id) /\ closed[id] /= None /\ ~Pending(p) /\ p \notin cut =>
      /\ Decodes(disk[p])
      /\ disk[p].state.calls >= closed[id].calls
=============================================================================
