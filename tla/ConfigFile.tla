----------------------------- MODULE ConfigFile -----------------------------
(***************************************************************************)
(* config.toml while it is edited and read: the `drun-mcp config` commands *)
(* and a bridge's init in processes of their own, the web UI's editor in   *)
(* the daemon, and the daemon's calls, which read the file each time.      *)
(* Every edit goes through FileManager::write: one temporary file, of the  *)
(* same name for all of them, renamed over the config.                     *)
(*                                                                         *)
(* A document is the two lists the commands edit; comments and the other   *)
(* settings are kept by the edit of one list as the other list is.  Files  *)
(* are inodes: a writer keeps the one it opened whatever names it gets.    *)
(***************************************************************************)
EXTENDS Naturals, SequencesExt

CONSTANTS
  Editors,      \* commands, inits and requests that may be editing at a time
  DomainAllowlist, MountAllowlist,  \* the keys of the lists
  Values,       \* domains and paths
  Missing,      \* the document has no such key
  Scalar,       \* what it has there is not a list
  Empty,        \* content of a file that was just created or truncated
  Mixed,        \* content that is no document anybody wrote
  None,         \* no such file
  Inodes,
  HandWritten,  \* the documents found at the start, or saved in the web UI
  Registries,   \* the package registries among the domains, in order
  MaxEdits      \* bound: edits of one behaviour

Keys == {DomainAllowlist, MountAllowlist}
Document == [Keys -> Seq(Values) \cup {Missing, Scalar}]
Unlisted == [k \in Keys |-> Missing]

ASSUME NamesAssumption ==
  /\ Missing \notin Seq(Values) /\ Scalar \notin Seq(Values) /\ Missing /= Scalar
  /\ Empty /= Mixed /\ {Empty, Mixed, None} \cap Document = {}
  /\ None \notin Inodes

ASSUME DocumentsAssumption ==
  /\ HandWritten \subseteq Document
  /\ Registries \in Seq(Values)
  /\ DomainAllowlist /= MountAllowlist

ASSUME BoundsAssumption ==
  /\ MaxEdits \in Nat
  /\ IsFiniteSet(Editors) /\ IsFiniteSet(Inodes)
  /\ Cardinality(Inodes) > Cardinality(Editors) + 1

VARIABLES
  content,  \* content of each inode
  config,   \* inode of config.toml
  tmp,      \* inode of config.tmp
  editor,   \* where each edit is
  edits,    \* edits begun so far
  ledger,   \* the document the successful edits make, each applied to the last
  overlap   \* "editing", "writing": two edits were pending, or writing, at once

files == <<content, config, tmp>>
vars == <<files, editor, edits, ledger, overlap>>

Idle == [at |-> "done", op |-> None, doc |-> Unlisted, file |-> None]
Edit == [kind : {"add", "remove"}, key : Keys, value : Values]
          \cup [kind : {"put"}, doc : HandWritten]

TypeOK ==
  /\ content \in [Inodes -> Document \cup {Empty, Mixed}]
  /\ config \in Inodes \cup {None} /\ tmp \in Inodes \cup {None}
  /\ config = tmp => config = None
  /\ editor \in [Editors -> [at : {"done", "read", "create", "write", "rename"},
                             op : Edit \cup {None}, doc : Document,
                             file : Inodes \cup {None}]]
  /\ edits \in 0 .. MaxEdits
  /\ ledger \in Document \cup {None}
  /\ overlap \subseteq {"editing", "writing"}

\* There may be no config file yet, only the web UI's editor makes one.
Init ==
  /\ \E i \in Inodes, doc \in HandWritten \cup {None} :
       /\ config = IF doc = None THEN None ELSE i
       /\ content = [j \in Inodes |-> IF j = i /\ doc /= None THEN doc ELSE Empty]
       /\ ledger = doc
  /\ tmp = None
  /\ editor = [e \in Editors |-> Idle]
  /\ edits = 0
  /\ overlap = {}

-----------------------------------------------------------------------------
(***************************************************************************)
(* What the edits do to a document, and what a call reads from it.         *)
(***************************************************************************)
IsList(doc, k) == doc[k] \notin {Missing, Scalar}
Has(doc, k, v) == IsList(doc, k) /\ Contains(doc[k], v)

Added(doc, k, v) == [doc EXCEPT ![k] = IF @ = Missing THEN <<v>> ELSE Append(@, v)]

\* Only the first entry that equals the value.
Removed(doc, k, v) == [doc EXCEPT ![k] = RemoveFirst(@, v)]

\* Mutant: an entry that is there already is added once more.
AddsAlways(doc, op) ==
  IF op.kind = "add" THEN doc[op.key] /= Scalar ELSE op.kind = "remove" /\ Has(doc, op.key, op.value)

\* The edit has something to write: else it reports that there is nothing to
\* do, or that the key is not a list.
Changes(doc, op) ==
  \/ op.kind = "add" /\ doc[op.key] /= Scalar /\ ~Has(doc, op.key, op.value)
  \/ op.kind = "remove" /\ Has(doc, op.key, op.value)

Edited(doc, op) ==
  CASE op.kind = "add" -> Added(doc, op.key, op.value)
    [] op.kind = "remove" -> Removed(doc, op.key, op.value)
    [] op.kind = "put" -> op.doc

\* An empty file is a document without keys.
Parses(c) == c \in Document \cup {Empty}
Parsed(c) == IF c = Empty THEN Unlisted ELSE c

\* Config::default(): packages can be fetched, any directory can be mounted.
Defaults == [k \in Keys |-> IF k = DomainAllowlist THEN Registries ELSE <<>>]

\* Config::load_from: serde's defaults for what is missing, the whole default
\* config for what cannot be read, parsed or taken for a Config.
Settings(c) ==
  IF c = None \/ ~Parses(c) \/ \E k \in Keys : Parsed(c)[k] = Scalar THEN Defaults
  ELSE [k \in Keys |-> IF IsList(Parsed(c), k) THEN Parsed(c)[k] ELSE Defaults[k]]

\* What a reader of the whole file gets, the web UI's editor among them.
OnDisk == IF config = None THEN None ELSE content[config]

\* ConfigHandle::get: what the next call goes by.
Get == Settings(OnDisk)

\* The get_config tool and `config list` show what is in effect, the defaults for
\* what the file leaves out, where the web UI's editor shows the file.  The daemon
\* was started with the config the commands edit.
GetConfig == [k \in Keys |-> Get[k]]
List == [k \in Keys |-> Settings(OnDisk)[k]]

-----------------------------------------------------------------------------
(***************************************************************************)
(* The steps of an edit.                                                   *)
(***************************************************************************)
Pending(ed) == {e \in Editors : ed[e].at \in {"create", "write", "rename"}}
Writing(ed) == {e \in Editors : ed[e].at \in {"write", "rename"}}
Watch ==
  overlap' = overlap \cup (IF Cardinality(Pending(editor')) > 1 THEN {"editing"} ELSE {})
                     \cup (IF Cardinality(Writing(editor')) > 1 THEN {"writing"} ELSE {})

Done(e) == editor' = [editor EXCEPT ![e] = Idle]

Begin(e, op, place, doc) ==
  /\ editor[e] = Idle
  /\ edits < MaxEdits
  /\ edits' = edits + 1
  /\ editor' = [editor EXCEPT ![e] = [at |-> place, op |-> op, doc |-> doc, file |-> None]]
  /\ UNCHANGED <<files, ledger>>

\* config add-domain, add-path, remove-domain and remove-path, and the init of
\* a bridge, which adds the project's directory.
BeginCommand(e) ==
  \E kind \in {"add", "remove"}, k \in Keys, v \in Values :
    Begin(e, [kind |-> kind, key |-> k, value |-> v], "read", Unlisted)

\* PUT of the web UI's editor: the whole text, whatever is on disk by now.  What
\* is not a Config is rejected.
BeginPut(e) ==
  \E doc \in HandWritten :
    /\ \A k \in Keys : doc[k] /= Scalar
    /\ Begin(e, [kind |-> "put", doc |-> doc], "create", doc)

ToWrite(op) == OnDisk /= None /\ Parses(OnDisk) /\ Changes(Parsed(OnDisk), op)

\* No config, no document, not a list, or nothing to do.
GiveUp(e) ==
  /\ editor[e].at = "read"
  /\ ~ToWrite(editor[e].op)
  /\ Done(e)
  /\ UNCHANGED <<files, edits, ledger>>

ReadConfig(e) ==
  /\ editor[e].at = "read"
  /\ ToWrite(editor[e].op)
  /\ editor' = [editor EXCEPT ![e].at = "create",
                              ![e].doc = Edited(Parsed(OnDisk), editor[e].op)]
  /\ UNCHANGED <<files, edits, ledger>>

\* Mutant: the config itself is opened for writing.
CreateInPlace(e) ==
  /\ editor[e].at = "create"
  /\ config /= None
  /\ content' = [content EXCEPT ![config] = Empty]
  /\ editor' = [editor EXCEPT ![e].at = "write", ![e].file = config]
  /\ UNCHANGED <<config, tmp, edits, ledger>>

\* File::create truncates a config.tmp that is there, whoever made it.
Free == Inodes \ ({config, tmp} \cup {editor[e].file : e \in Editors})
Create(e) ==
  /\ editor[e].at = "create"
  /\ \E i \in IF tmp = None THEN Free ELSE {tmp} :
       /\ tmp' = i
       /\ content' = [content EXCEPT ![i] = Empty]
       /\ editor' = [editor EXCEPT ![e].at = "write", ![e].file = i]
  /\ UNCHANGED <<config, edits, ledger>>

\* The text goes over what another writer has put there since.
Write(e) ==
  /\ editor[e].at = "write"
  /\ \E c \in {editor[e].doc} \cup (IF content[editor[e].file] = Empty THEN {} ELSE {Mixed}) :
       content' = [content EXCEPT ![editor[e].file] = c]
  /\ editor' = [editor EXCEPT ![e].at = "rename"]
  /\ UNCHANGED <<config, tmp, edits, ledger>>

\* Mutant: the error of a write is not looked at.
WriteFailsUnseen(e) ==
  /\ editor[e].at = "write"
  /\ content' \in {content, [content EXCEPT ![editor[e].file] = Mixed]}
  /\ editor' = [editor EXCEPT ![e].at = "rename"]
  /\ UNCHANGED <<config, tmp, edits, ledger>>

\* The disk is full: nothing or a part of the text is written.
WriteFails(e) ==
  /\ editor[e].at = "write"
  /\ content' \in {content, [content EXCEPT ![editor[e].file] = Mixed]}
  /\ Done(e)
  /\ UNCHANGED <<config, tmp, edits, ledger>>

\* The ledger with an edit that succeeded, as if it had been made only now.
Recorded(op) ==
  LET doc == IF ledger = None THEN Unlisted ELSE ledger
  IN IF op.kind = "put" \/ Changes(doc, op) THEN Edited(doc, op) ELSE doc

Rename(e) ==
  /\ editor[e].at = "rename"
  /\ IF tmp = None THEN UNCHANGED <<config, tmp, ledger>>  \* another edit took it away
     ELSE /\ config' = tmp /\ tmp' = None
          /\ ledger' = Recorded(editor[e].op)
  /\ Done(e)
  /\ UNCHANGED <<content, edits>>

\* The process is killed, or the daemon stops; config.tmp stays.
Dies(e) ==
  /\ editor[e].at /= "done"
  /\ Done(e)
  /\ UNCHANGED <<files, edits, ledger>>

Step(e) ==
  \/ BeginCommand(e) \/ BeginPut(e)
  \/ GiveUp(e) \/ ReadConfig(e)
  \/ Create(e) \/ Write(e) \/ WriteFails(e) \/ Rename(e)
  \/ Dies(e)

Next == \E e \in Editors : Step(e) /\ Watch

Spec == Init /\ [][Next]_vars

-----------------------------------------------------------------------------
(***************************************************************************)
(* Properties.                                                             *)
(***************************************************************************)

\* As long as no two edits were writing at once, whoever reads the config finds a
\* whole document, also after edits that were killed or could not be written and
\* left config.tmp behind.
ReaderSeesWhole ==
  /\ TypeOK
  /\ "writing" \notin overlap => OnDisk \in Document \cup {None}

\* As long as no edit came between another one's read and rename, the next call
\* goes by all the edits that succeeded, and by nothing of those that failed; the
\* agent and the operator are shown just those.
TakesEffect ==
  "editing" \notin overlap => GetConfig = Settings(ledger) /\ List = Settings(ledger)

\* A value that a command reports as removed is not in the list any more, though
\* only its first entry goes: the commands never enter a value twice, not even
\* when they race.
Distinct(doc) == \A k \in Keys : IsList(doc, k) => IsInjective(doc[k])
RemovedIsGone ==
  [][ (\A doc \in HandWritten : Distinct(doc)) =>
        \A e \in Editors :
          LET op == editor[e].op IN
            ("writing" \notin overlap /\ Rename(e) /\ op.kind = "remove")
              => ~Has(content'[config'], op.key, op.value) ]_vars
=============================================================================
