------------------------------ MODULE Interner ------------------------------
(***************************************************************************)
(* How the sessions of a daemon share file contents.  A file of a          *)
(* checkpoint is a reference to bytes on the heap; a session's interner is *)
(* a table of weak handles by hash, asked before new bytes are kept, and   *)
(* cleared of what an edit of the history has let go.  Forks and merges    *)
(* share references across sessions, a snapshot numbers them, a restore    *)
(* makes new ones.                                                         *)
(*                                                                         *)
(* Histories are those of Checkpoints with references for blobs: an        *)
(* address is a number, Absent no reference.  What the files are meant to  *)
(* be is a history of contents, a snapshot's one of indices: Blobs has all *)
(* three.  Calls are not told apart.                                       *)
(***************************************************************************)
EXTENDS Checkpoints, FiniteSets

CONSTANTS
  Sessions,   \* session ids; one is never drawn twice
  Contents,   \* what bytes may be
  Hashes,     \* u64
  Hash,       \* content_hash; contents may collide
  Addresses,  \* where bytes may lie; bound: at most so many at a time
  MaxCalls    \* bound: calls that change a session

ASSUME InternerAssumption ==
  /\ IsFiniteSet(Keys)
  /\ Addresses \subseteq Nat /\ IsFiniteSet(Addresses)
  /\ Blobs = Contents \cup Addresses \cup 0 .. Cardinality(Addresses) - 1
  /\ Absent \notin Nat /\ Contents \cap Nat = {}
  /\ Hash \in [Contents -> Hashes]
  /\ MaxCalls \in Nat

VARIABLES
  open,      \* sessions of the daemon
  used,      \* sessions it ever had
  history,   \* of each session: checkpoints with references, and the head
  table,     \* Interner::table of each session
  heap,      \* the bytes at an address that is referred to
  snapshot,  \* a .drun file: blobs, and checkpoints with indices into them
  meant,     \* history: each session's files as its calls have given them
  merged,    \* history: sessions with files taken over from another one's merge
  calls

vars == <<open, used, history, table, heap, snapshot, meant, merged, calls>>

Table == [Hashes -> Addresses \cup {Absent}]
NoTable == [h \in Hashes |-> Absent]
Fresh == NewHistory(NoFiles)

\* Strong references of the sessions in `ids`, and weak ones of all tables.
References(h) == {At(h, i).files[k] : i \in Ids(h), k \in Keys} \ {Absent}
Held(hs, ids) == UNION {References(hs[s]) : s \in ids}
Weak(ts) == {ts[s][h] : s \in Sessions, h \in Hashes} \ {Absent}

\* The files behind references.
Read(bytes, files) == [k \in Keys |-> IF files[k] = Absent THEN Absent ELSE bytes[files[k]]]

TypeOK ==
  /\ open \subseteq used /\ used \subseteq Sessions
  /\ history \in [Sessions -> History] /\ meant \in [Sessions -> History]
  /\ table \in [Sessions -> Table]
  /\ heap \in [Addresses -> Contents \cup {Absent}]
  /\ \A a \in Held(history, open) : heap[a] \in Contents
  /\ merged \subseteq used
  /\ calls \in 0 .. MaxCalls

NoSnapshot == [blobs |-> <<>>, history |-> Fresh, meant |-> Fresh, merged |-> FALSE]

Init ==
  /\ open = {} /\ used = {}
  /\ history = [s \in Sessions |-> Fresh]
  /\ table = [s \in Sessions |-> NoTable]
  /\ heap = [a \in Addresses |-> Absent]
  /\ snapshot = NoSnapshot
  /\ meant = [s \in Sessions |-> Fresh]
  /\ merged = {}
  /\ calls = 0

-----------------------------------------------------------------------------
(***************************************************************************)
(* The interner.                                                           *)
(***************************************************************************)

\* While a call interns: heap and table so far, what is held, the files made.
\* An allocation outlives its bytes as long as a weak handle points to it.
Start(s) == [heap |-> heap, table |-> table[s], held |-> Held(history, open),
             files |-> NoFiles]

Unused(work) ==
  Addresses \ (work.held \cup Weak(table) \cup {work.table[h] : h \in Hashes})
Lowest(addresses) == CHOOSE a \in addresses : \A b \in addresses : a <= b

Kept(work, k, a) == [work EXCEPT !.files[k] = a, !.held = @ \cup {a}]
Registered(work, k, a, c) == [Kept(work, k, a) EXCEPT !.table[Hash[c]] = a, !.heap[a] = c]

\* Mutant: equal hashes are taken for equal contents.
KnownHash(work, c) == work.table[Hash[c]] \in work.held

\* The table has a handle for these very contents, and it can be upgraded.
Known(work, c) ==
  LET a == work.table[Hash[c]] IN a \in work.held /\ work.heap[a] = c

\* intern_bytes, and one round of intern_file_map; `own` is the reference the
\* caller has, if it has one.
Intern(work, k, c, own) ==
  IF Known(work, c)
    THEN Kept(work, k, work.table[Hash[c]])
    ELSE Registered(work, k, IF own /= Absent THEN own ELSE Lowest(Unused(work)), c)

\* A file is new bytes, or a reference the checkpoint has (unchanged by a command).
InternFile(work, k, file) ==
  CASE file = Absent -> work
    [] file \in Contents -> Intern(work, k, file, Absent)
    [] OTHER -> Intern(work, k, work.heap[file], file)

\* A HashMap is walked in any order.
Orders == {o \in [1 .. Cardinality(Keys) -> Keys] : \A k \in Keys : \E n \in DOMAIN o : o[n] = k}
Walked(s, files, order) ==
  LET work[n \in 0 .. Cardinality(Keys)] ==
        IF n = 0 THEN Start(s) ELSE InternFile(work[n - 1], order[n], files[order[n]])
  IN  work[Cardinality(Keys)]
InternFiles(s, files) == {Walked(s, files, order) : order \in Orders}

\* seed on all checkpoints of a session that had no table, and retain: the first
\* checkpoint with a hash gives the handle, among its files any.
Hashed(cp, bytes, hash) ==
  {cp.files[k] : k \in {key \in Present(cp.files) : Hash[bytes[cp.files[key]]] = hash}}
First(h, bytes, hash) ==
  LET with == {i \in Ids(h) : Hashed(At(h, i), bytes, hash) /= {}}
  IN  IF with = {} THEN {Absent} ELSE Hashed(At(h, Lowest(with)), bytes, hash)
\* Mutant: a fork, a restore and an edit leave the table empty.
SeedsNothing(h, bytes) == {NoTable}

Seeded(h, bytes) ==
  LET first == [hash \in Hashes |-> First(h, bytes, hash)]
  IN  {t \in [Hashes -> UNION {first[hash] : hash \in Hashes}] :
         \A hash \in Hashes : t[hash] \in first[hash]}

-----------------------------------------------------------------------------
(***************************************************************************)
(* Sessions.                                                               *)
(***************************************************************************)

\* What nobody refers to is gone.
Swept(bytes, hs, ids) ==
  LET held == Held(hs, ids) IN [a \in Addresses |-> IF a \in held THEN bytes[a] ELSE Absent]

\* Bounds: a call of an open session, with as many free addresses as it may need.
Called(s) ==
  /\ s \in open
  /\ calls < MaxCalls
  /\ Cardinality(Addresses \ (Held(history, open) \cup Weak(table))) >= Cardinality(Keys)

\* The session's history is h, with a table out of ts; bytes were added.
Becomes(s, h, m, ts, bytes) ==
  /\ s \in open
  /\ calls < MaxCalls /\ calls' = calls + 1
  /\ history' = [history EXCEPT ![s] = h]
  /\ meant' = [meant EXCEPT ![s] = m]
  /\ \E t \in ts : table' = [table EXCEPT ![s] = t]
  /\ heap' = Swept(bytes, history', open)
  /\ UNCHANGED <<open, used, snapshot>>

\* push_checkpoint; only a truncation clears the table.  A push refused at the
\* limit leaves behind what was interned for it.
Commit(s, files, m, t, bytes) ==
  IF LimitReached(history[s], MaxCheckpoints)
    THEN Becomes(s, history[s], meant[s], {t}, bytes)
    ELSE LET new == Push(history[s], files, 0)
         IN  Becomes(s, new, Push(meant[s], m, 0),
                     IF history[s].head < Count(history[s]) - 1 THEN Seeded(new, bytes) ELSE {t},
                     bytes)

\* The entries of a map over those of files.
Updated(files, entries) ==
  [k \in Keys |-> IF k \in DOMAIN entries THEN entries[k] ELSE files[k]]

\* session_write_files, session_extract_text, session_mount, session_fetch.
WriteFiles(s, entries) ==
  LET written == Updated(NoFiles, entries) IN
  /\ Called(s)
  /\ \E work \in InternFiles(s, written) :
       Commit(s, Overlay(Current(history[s]).files, work.files),
              Overlay(Current(meant[s]).files, written), work.table, work.heap)
  /\ UNCHANGED merged

\* session_bash and session_package_install: what collect_changes found unchanged
\* keeps its reference, the rest is new bytes.
RunBash(s, changed) ==
  LET collected == Updated(Current(history[s]).files, changed)
      contents == Updated(Current(meant[s]).files, changed)
  IN  /\ Called(s)
      /\ \E work \in InternFiles(s, collected) :
           Commit(s, work.files, contents, work.table, work.heap)
      /\ UNCHANGED merged

DeleteFiles(s, gone) ==
  /\ Called(s)
  /\ gone \subseteq Present(Current(history[s]).files)
  /\ Commit(s, Without(Current(history[s]).files, gone),
            Without(Current(meant[s]).files, gone), table[s], heap)
  /\ UNCHANGED merged

\* session_merge clones references of the other session; nothing is interned.
MergeFrom(s, source, i, keys) ==
  /\ Called(s)
  /\ source \in open \ {s}
  /\ i \in Ids(history[source])
  /\ keys \subseteq Present(At(history[source], i).files)
  /\ Commit(s, Overlay(Current(history[s]).files, Only(At(history[source], i).files, keys)),
            Overlay(Current(meant[s]).files, Only(At(meant[source], i).files, keys)),
            table[s], heap)
  /\ merged' = merged \cup {s}

RollbackTo(s, i) ==
  /\ i /= history[s].head
  /\ Becomes(s, Rollback(history[s], i), Rollback(meant[s], i), {table[s]}, heap)
  /\ UNCHANGED merged

SquashRange(s, from, to) ==
  LET new == Squash(history[s], from, to, NoLabel) IN
  /\ CanSquash(history[s], from, to)
  /\ Becomes(s, new, Squash(meant[s], from, to, NoLabel), Seeded(new, heap), heap)
  /\ UNCHANGED merged

DropRange(s, from, to) ==
  LET new == Drop(history[s], from, to) IN
  /\ CanDrop(history[s], from, to)
  /\ Becomes(s, new, Drop(meant[s], from, to), Seeded(new, heap), heap)
  /\ UNCHANGED merged

-----------------------------------------------------------------------------
\* A session with history h over bytes joins the map; seed has filled its table.
Join(s, h, m, bytes, tainted) ==
  /\ s \notin used
  /\ open' = open \cup {s} /\ used' = used \cup {s}
  /\ history' = [history EXCEPT ![s] = h]
  /\ meant' = [meant EXCEPT ![s] = m]
  /\ \E t \in Seeded(h, bytes) : table' = [table EXCEPT ![s] = t]
  /\ heap' = bytes
  /\ merged' = IF tainted THEN merged \cup {s} ELSE merged
  /\ UNCHANGED <<snapshot, calls>>

Create(s) == Join(s, Fresh, Fresh, heap, FALSE)

\* Session::from_session clones the references of one checkpoint.
ForkSession(s, source, i) ==
  /\ source \in open
  /\ i \in Ids(history[source])
  /\ Join(s, Fork(history[source], i), Fork(meant[source], i), heap, source \in merged)

\* h with its references replaced.
Mapped(h, to) ==
  [h EXCEPT !.checkpoints = [n \in DOMAIN h.checkpoints |->
    [h.checkpoints[n] EXCEPT !.files = Read(to, h.checkpoints[n].files)]]]
Rank(a, addresses) == Cardinality({b \in addresses : b < a})
Nth(addresses, n) == CHOOSE a \in addresses : Rank(a, addresses) = n

\* SessionSnapshot::from_session: one blob per reference.
Encode(s) ==
  LET references == References(history[s])
  IN  [blobs |-> [n \in 1 .. Cardinality(references) |-> heap[Nth(references, n - 1)]],
       history |-> Mapped(history[s], [a \in references |-> Rank(a, references)]),
       meant |-> meant[s], merged |-> s \in merged]

\* session_snapshot, or a close with snapshot_on_close.  Bound: one in a behaviour.
TakeSnapshot(s) ==
  /\ s \in open
  /\ snapshot = NoSnapshot
  /\ snapshot' = Encode(s)
  /\ UNCHANGED <<open, used, history, table, heap, meant, merged, calls>>

\* SessionSnapshot::restore: each blob at an address of its own.
Restore(s) ==
  LET free == Addresses \ (Held(history, open) \cup Weak(table))
  IN  /\ snapshot /= NoSnapshot
      /\ Cardinality(free) >= Len(snapshot.blobs)
      /\ Join(s, Mapped(snapshot.history, [n \in 0 .. Len(snapshot.blobs) - 1 |-> Nth(free, n)]), snapshot.meant,
              [a \in Addresses |->
                IF a \in free /\ Rank(a, free) < Len(snapshot.blobs)
                  THEN snapshot.blobs[Rank(a, free) + 1] ELSE heap[a]],
              snapshot.merged)

\* A close, an eviction: the session and its table are dropped.
Close(s) ==
  /\ s \in open
  /\ open' = open \ {s}
  /\ history' = [history EXCEPT ![s] = Fresh]
  /\ table' = [table EXCEPT ![s] = NoTable]
  /\ meant' = [meant EXCEPT ![s] = Fresh]
  /\ heap' = Swept(heap, history', open')
  /\ UNCHANGED <<used, snapshot, merged, calls>>

\* Bound: the new files of one call are equal.
Next ==
  \E s \in Sessions :
    \/ Create(s) \/ Restore(s) \/ TakeSnapshot(s) \/ Close(s)
    \/ \E source \in Sessions : \E i \in Ids(history[source]) : ForkSession(s, source, i)
    \/ \E keys \in SUBSET Keys, c \in Contents : WriteFiles(s, [k \in keys |-> c])
    \/ \E keys \in SUBSET Keys, c \in Contents \cup {Absent} : RunBash(s, [k \in keys |-> c])
    \/ \E gone \in SUBSET Keys : DeleteFiles(s, gone)
    \/ \E source \in Sessions : \E i \in Ids(history[source]), keys \in SUBSET Keys :
         MergeFrom(s, source, i, keys)
    \/ \E i \in Ids(history[s]) : RollbackTo(s, i)
    \/ \E from, to \in Ids(history[s]) : SquashRange(s, from, to) \/ DropRange(s, from, to)

Spec == Init /\ [][Next]_vars

-----------------------------------------------------------------------------
(***************************************************************************)
(* Properties.                                                             *)
(***************************************************************************)

\* Every file of every checkpoint reads as what was written there, whichever
\* contents collide, whatever was shared with forks, merged, let go, snapshot and
\* restored in between.
SameContents ==
  /\ TypeOK
  /\ \A s \in open :
       /\ Count(history[s]) = Count(meant[s])
       /\ \A i \in Ids(history[s]) : Read(heap, At(history[s], i).files) = At(meant[s], i).files

\* "stored once": in a session that took over nothing by a merge, equal contents
\* are one copy, unless their hash collides with another's - across checkpoints,
\* truncations, refused calls, forks, snapshots and restores.
Collides(c) == \E d \in Contents \ {c} : Hash[d] = Hash[c]
OneCopy ==
  \A s \in open \ merged : \A a, b \in References(history[s]) :
    heap[a] = heap[b] /\ ~Collides(heap[a]) => a = b
=============================================================================
