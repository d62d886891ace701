# drun in TLA+

drun gives an AI agent *sessions*: a private set of files, a sandboxed bash, and
a checkpoint after every call, so that anything an agent did can be looked at,
undone, forked and merged.  A daemon serves the sessions over MCP and to a web
UI.  This directory holds TLA+ models of the parts of drun whose correctness
depends on order, interleaving, failure or renumbering; TLC configurations that
check them on small instances; and TLAPS proofs, for every instance, of the safety
properties the runs check (but for Hermes' part of the bridges') and of the refinement.

Paths below are relative to the repository; `core/` stands for
`crates/drun-core/src/` and `mcp/` for `crates/drun-mcp/src/`.

- [1. Inventory](#1-inventory)
- [2. The modules and the code](#2-the-modules-and-the-code)
- [3. What is checked](#3-what-is-checked)
- [4. What is proved](#4-what-is-proved)
- [5. Where code and documentation disagree](#5-where-code-and-documentation-disagree)
- [6. What is not modelled](#6-what-is-not-modelled)
- [7. Plan](#7-plan)
- [8. Running it](#8-running-it)

## 1. Inventory

| Component | State | Operations | Interacts with |
|---|---|---|---|
| **Session and history** `core/session.rs`, `core/checkpoint.rs` | `checkpoints` (id, files, label, steps), `head`, `overlays` | write, delete, bash, install, mount, merge, rollback, label, squash, drop, fork | every tool handler, under the session's mutex |
| **Workspace directory** `core/workspace.rs` | a directory kept across commands, `synced` (file, length, mtime) | `sync_to`, `collect_changes` | `execute_bash` before and after the command; the command itself |
| **Bash executor** `core/executor.rs`, `core/sandbox.rs` | child, timer thread, `timed_out`, `RUNNING_CHILD_PGIDS` | `run_child`, `kill_process_tree`, `kill_all_running_children` | operating system; the shutdown handler |
| **Session registry, locks, reaper** `mcp/handler.rs`, `mcp/state/` | map of sessions, `current_sessions`, a mutex and `last_activity` per session | insert, resolve, `with_session(_mut)`, `check_idle`, close, evict | MCP connections, web UI, reaper thread, config file |
| **Session tools** `mcp/server/session_ops.rs` | none of their own | create, fork, switch, merge, list, close, tree, snapshot, restore | registry, several session mutexes at once |
| **Session tree** `mcp/state/session_tree.rs` | derived | `forest` | what it could lock of all sessions |
| **Snapshots** `core/snapshot.rs`, `mcp/server/config_snapshot.rs` | two files per session | write, decode, list, restore | disk, close, web UI |
| **Interner** `core/interner.rs` | weak handles by hash, one table per session | intern, seed, purge | edits of the history, forks, snapshots, restores |
| **Web UI server** `mcp/web.rs` | none of its own | the same operations without idle check | registry |
| **Configuration** `core/config.rs`, `mcp/config_cmd.rs`, `mcp/file_manager.rs` | config.toml, re-read by every call | load with defaults, limits, allowed domains and mounts; `config add-…/remove-…`, the web UI's editor | everything reads it; processes of their own and the daemon write it |
| **Fetch** `mcp/server/fetch.rs` | none | `session_fetch`: page, assets, manifest as one bundle | network and config without the session's mutex, then Session |
| **File tools** `mcp/server/file_ops.rs`, `core/text_parser_utilities.rs` | none | read in pieces, search, extract; mount, export, delete on the host | the host's files, `mount_allowlist`, Session |
| **Packages** `core/package_manager.rs` | none | `session_package_install` with pip or npm | sandbox with network, Session |
| **Sandbox** `core/sandbox.rs` | derived | mounts of bwrap, profile of sandbox-exec | overlays, `mount_allowlist`, every command |
| **Views** `mcp/state/` | derived | the state of an answer, history, diff, status, live output | every handler, web UI |
| **Bridges** `mcp/bridge/` | config files of other programs and of projects, `~/.drun/projects` | init, deregister for Claude, Gemini, Codex, Hermes | config.toml; the agents' command lines |
| **Setup, command line** `mcp/setup/`, `mcp/cli.rs`, `mcp/main.rs` | – | probes, usage, dispatch | bridges, daemon |
| **Live output** `mcp/live_output.rs` | an entry per running command | begin, guard's drop | bash and install handlers; tree and web UI |
| **Metrics, schema, pages** | counters and texts | – | – |

`PROJECT.json` lists every component with its sources, and every hazard with the
line where it bites.

**How they interact.** A request arrives on a connection; the handler finds the
connection's session in `current_sessions`, resolves it in the map, tries its
mutex (`session_busy` if it is taken), checks that it has not been idle too long,
and runs one `Session` method.  A method that changes files ends in
`push_checkpoint`; every other call ends in `record_step`.  `session_bash` brings
the directory to the current checkpoint, runs the command, reads the directory
back.  The reaper evicts idle sessions once in a while; a signal kills the
processes of running commands and ends the daemon.

**What is hard about it, and what makes it right.**

- *History.*  A checkpoint's id is its index, stored in it; pushes truncate,
  squashes and drops renumber, rollbacks move the head.  Ids, head, files, steps
  and limits must stay right through every order of these (Session, Lineage).
- *Workspace.*  Three views of the same files: checkpoint, directory, `synced`.
  They must agree whenever a command starts and after it ends, although a sync can
  fail half way, a checkpoint can be refused, a command can be killed or leave links
  that the next sync follows (Workspace).
- *Executor.*  A call thread, a timer thread, processes and a shutdown race for one
  process group and one mutex.  Killed commands must be reported as such, no
  process group may outlive its call, and every call must end (Executor).
- *Locks.*  Some handlers try a mutex, some wait for it, a merge does one while
  holding the other; a close takes the session out of the map before it waits for
  the session; limits are re-read from the config file at each use.  No limit may be
  exceeded by more than its own lowering makes, no guard leaked, no snapshot missed, no
  circle of waiting (Daemon).
- *Config files.*  Several processes rewrite config.toml through one temporary file; a
  reader must find a whole document, and an edit must do what it reports (ConfigFile).
- *Files of others.*  Bridges edit configs that users wrote, one of them without a
  parser, and can be killed at any step; what the user has must stay, what is
  reported must be so, and repeating must be harmless (Bridges, HermesConfig).
- *Snapshots.*  Two files in place, written by tools, web UI and closes at once; what
  was reported saved must come back although a write fails or the daemon dies
  between any two steps (Snapshots).
- *Sharing.*  Contents are references shared by checkpoints, forks and merges through a
  table that neither keeps nor may mix them (Interner).
- *The border.*  Fetches run without the mutex, overlays are links that `sync_to`
  follows as it follows those a command makes, allowlists change between calls; bundles
  must be whole, commands must keep what they need, and the host must not change where
  nobody allowed it or linked to (Border).
- *Answers.*  The same change is told by an answer, a listing and a diff, each computed
  from something else; ids are remembered by clients while they are renumbered (Views).
- *Forks.*  A fork remembers a checkpoint id of another session, whose ids change
  afterwards; forks and restores check no limit, whatever the config says by then (Lineage).

## 2. The modules and the code

| Module | Models | State |
|---|---|---|
| `Checkpoints` | the edits of a history as pure operators | – |
| `Session` | one session under any sequence of tool calls | `history`, `overlays`, `calls` |
| `Timeline` | abstract: a line of workspace states and where one is | `line`, `now` |
| `Workspace` | the directory between and during commands | `head`, `disk`, `synced`, `phase`, `settled` |
| `Views` | what answers, listings, diffs and pages tell of a session | those of `Session` |
| `Executor` | calls, timers, processes, shutdown | `main`, `timer`, `alive`, `holds`, … |
| `Daemon` | requests in flight, map, mutexes, reaper | `sessions`, `current`, `holder`, `limit`, `timeout`, `req`, … |
| `Lineage` | several sessions: forks, merges, snapshots, restores, tree, under limits that are edited | `open`, `history`, `parent`, `snapshots`, `limits`, … |
| `Snapshots` | the files of snapshots under concurrent writers, failures, crashes | `open`, `holds`, `disk`, `req`, … |
| `Interner` | sharing of contents in and between sessions | `history`, `table`, `heap`, `snapshot`, … |
| `Fetch`, `Packages`, `Pages`, `Sandbox` | bundles of pages, package managers, reading in pieces, a command's view of the host, as pure operators | – |
| `Border` | a session with fetches in flight, the host, overlays and their links | `line`, `now`, `fetching`, `host`, `overlays`, `links`, `temp`, … |
| `ConfigFile` | edits of config.toml by several processes, and what a call reads | `content`, `config`, `tmp`, `editor`, … |
| `HermesConfig` | the line edits of Hermes' YAML, and what the lines mean, as pure operators | – |
| `Bridges` | init and deregister of the four bridges, step by step | `settings`, `servers`, `codex`, `hermes`, `cmd`, … |
| `CheckpointsProofs` | lemmas about the operators of a history | – |
| `SessionProofs`, `LineageProofs`, `SnapshotsProofs`, `InternerProofs`, `BorderProofs` | theorems about the module of the name ([section 4](#4-what-is-proved)); Views' are in `SessionProofs`, Pages' in `BorderProofs` | – |
| `DaemonProofs` | theorems about what runs the calls: `Daemon`, `Executor` and `Workspace` | – |
| `CommandsProofs` | theorems about what drun's command line edits: `ConfigFile` and `Bridges` | – |
| `MC*` | instances for TLC | – |

`Session`, `Lineage` and `Interner` share `Checkpoints`, so that an edit of a history is
written (and proved about) once; `Views` extends `Session`, `Border` extends `Fetch`,
`Packages`, `Pages` and `Sandbox`.  `Session` is shown to implement `Timeline`. Operators
of Executor, Workspace and Bridges that every module has carry the module's name
(`ExecutorNext`, `BridgesTypeOK`), as do `StartCommand` and `CommandStep`, because a
module of theorems extends them together with another.  The other modules are tied
together by what they assume of each other, listed here so that it can be reviewed:

- Daemon counts a call as one change of its session (`Work`); what the change is,
  is Session's.  Daemon's fairness says a call ends; Executor's `TameCallsEnd`
  is the reason, and `executor_binary` the exception to it.
- Session's `ExecuteBash(files)` takes any files; Workspace says which files a
  command starts on and that what it leaves is what the checkpoint gets.
- Bridges takes an edit of config.toml for one step that succeeds or fails; ConfigFile has
  its steps (an init's `allow_mount_path` is one of ConfigFile's commands).
- Snapshots takes a session's history for what it has answered so far; what is in the
  file besides is Lineage's (parents, limits) and Interner's (the table of blobs).
- Border has the edits of a history that come from outside and no squashes; its sync
  and collection repeat of Workspace what a link changes on the host.  Workspace has no
  host: there a link changes other files of the directory, or which of them are files.
- A session's limits are fixed in Session, whose question is what a history makes of
  them; Lineage has the config file they are read from, with the same operators.
- Workspace's `BashTimesOut` is Executor's end `"timeout error"`.

**Checkpoints, Session.**  A history is a record of the vector and the head; an id
counts from 0 and `At` hides that TLA+ counts from 1.  A file map is a total
function with `Absent` for missing keys.  Each action of Session is a whole
handler: its guards are the code's early returns, and the step it records comes
with it.  `Fits`, the size limit, is an operator constant of which only the
assumed facts are used: the empty map fits, and less of what fits fits.  The limit on
checkpoints is an argument of `LimitReached`, since the code reads it at the call.  `calls`
numbers the calls, so that a checkpoint's steps identify the calls recorded at it.

**Workspace.**  The code never looks at a modification time except to compare it with the
one in `synced`; a file carries that comparison (`touched`) in place of the time.
`Inside` makes a path a directory's content, so that a file can be in the way of a
directory and the other way round; `Removed` and `Written` are the loops of `sync_to`, and
`RemoveFails` and `WriteFails` any place where they stop, for what is there, for want of
room or of permission; the write that stopped may be `torn`.  `Command` puts the directory
into any state a command can make, with symbolic links (`Link`) and files under two names
(`shared`); a command that does nothing is one that makes the state it found.  `sync_to`
follows links: what is written at or behind one (`Behind`) or to a shared file lands on
any files of the directory (`Elsewhere`), which `Overwritten` leaves open, as it does what
a torn file holds; what is removed behind one may take any file. `CollectFails` is any
place where `collect_changes` stops.  `MayBeSkipped` allows both outcomes of
`Arc::ptr_eq`.  `settled` is a history variable, only used in properties: since the last
collected command none was killed, no reading failed, no write was torn or went through a
link.

**Executor.**  A call's processes are its child and one descendant at a time (a new one
may be forked when it has ended).  Each step of `run_child` between two points where
other threads can act is an action.  Reading to the end of a pipe waits until no
process holds it open.  `kill_process_tree` kills the group, and what `ps` finds
below the child only while the child is alive (`found`); both outcomes of that race
are allowed.  Nothing forces a process to exit: only kills end it surely.

**Daemon.**  `req[r]` is where a request is (`at`), with the ids it has resolved.  A
handler is cut where it uses the map of sessions, the map of current sessions or a
session's mutex: between two of those another request can come.  `holder` is the mutex,
`live` the entries of live output, made and taken away under it.  The page of a session is
answered without any mutex (`LiveAnswer`) and may be asked for in every state; `TreeNode`
is what `session_tree` says of a session while it holds what it could lock.  The status
page is a request of two steps, since it copies the map before it reads the config.
`limit` and `timeout` are the config file as it is now; `Insert` and the idle check read
them where the code does.  `over` and `lowered` are history variables: how many sessions
were open when the limit was last edited to fewer, and whether it ever was lowered.  Time
is `idle`, ticks since a session was last entered, up to the first value that exceeds
every limit.

**Lineage.**  `parent` is what the code keeps of a fork's origin, `branch` (a history
variable) the checkpoint as it was then; `rewritten` (another) the sessions some
checkpoint of which was lost or moved.  `snapshots` holds what was last written for each
session.  `Forest(locked)` is what `session_tree` draws when exactly `locked` could be
locked, a recursive function over parents.  `limits` is what the config file says: a
number of checkpoints and the file maps within the size; calls read it, `EditConfig` sets
it between calls, before or after a snapshot, a restart, a restore.  `held` (a history
variable) is what each session and each snapshot had when it was last set, handed on by
forks and restores.

**Views.**  Each operator is one answer, in terms of the history: `StateAnswer` of most
calls, `Entry` of a listing, `FilesOf` and `FileOf` of the web UI's pages, `SessionDiff` and
`WebDiff` with their different defaults.  Counts are the sets that are counted.

**Snapshots.**  A write is open-and-truncate and the content, first of the history, then of
its summary; between any two of these a crash, a failure, another writer.  File names
are the sequence of their parts between dots, because the summary's name is made
with `with_extension`, which takes two names for one.  Ids may be drawn again.

**Interner.**  A reference is an address; `heap` has the bytes of those that something
refers to strongly, so that an address can be used again when its last user is gone.
`Hash` may collide.  `meant` is the history as it would be with copies instead of
references.  Merges bring references in without the table, as the code does.
A file map is interned key by key in an order of the keys (`Walked`), because what a
key gets depends on what those before it left in the table; a snapshot numbers the
addresses in their order (`Mapped` puts the numbers in their place).

**Fetch, Packages, Pages, Sandbox.**  A name is a record of its stem, what was numbered
onto it, and its extension, because bundles and assets are named by taking names apart.
`Bundle` lists the files in the order they are written.  `Selected` and `FetchAsset` are
the two loops of a fetch, one link or asset after the other: a failed asset leaves no file
and takes no number.  `Layers` are the mounts in bwrap's order and `Access` the last layer
a path is under; `Resolve` follows a path name by name.  `temp` is the temporary directory
of the daemon's environment, in which the session's own directories are; `Hidden` says
when bwrap's /tmp lies over them.  A text is a sequence of bytes of which line ends and
second bytes of characters are told apart; `Search` searches the `Piece` that offset and
limit cut from it.

**Border.**  `BeginFetch` takes the configuration and the page, `FetchDone` writes the
bundle into the checkpoint that is present by then.  `host` is a function of paths;
`links` are the links earlier calls placed for overlays and those commands made
(`LinksMade`), through which `sync_to` writes and removes (`Through`, `HostAfter`).
`Bash` is the whole of `execute_bash`: sync, links, command, collection, checkpoint;
`SyncFails` and `LinkFails` are where it stops.  Two history variables: `admitted` keeps
the values `mount_allowlist` has had, since a mount outlives the entry that admitted it,
and `strayed` what commands have linked to.

**ConfigFile.**  Files are inodes, since `File::create` on an existing config.tmp truncates
what another writer has open, and a rename moves the file but not what is open.
`FileManager::write` is three steps, `Create`, `Write`, `Rename`.  A document is its lists;
whatever else it holds the commands keep as they keep the other lists.  `Mixed` is
what remains of a partial write or of two; it is taken not to parse, though a
prefix of a document may.  The config a command edits (`~/.drun/config.toml`) and the one
the daemon reads (`DRUN_CONFIG`) are one file, as the installer sets them up.
`ledger` is a history variable: what the successful edits make, one after the other.

**HermesConfig, Bridges.**  A line is its indentation and text.  The surgery is
translated line by line; `Meaning` is the reference, the path of keys above each
line, which the surgery never computes.  Bridges has one action per step of an init:
the files of `init_common`, the settings, the register of servers or the config.
Each may fail the way the code lets it, and `Killed` may follow any of them.
`PushMissing` is `merge_string_array`: one entry after the other, if it is not there yet.
A server the user calls `drun-dev` is taken for drun's, as `init` takes it (`Shadowed`).
`ShellStays` and `HermesStays` say what becomes of a block the user has asked for too.
`settings.json` and Hermes' config are written in place (`Bad`, `WriteBreaks`), Codex' through
`FileManager`.  A behaviour is about one bridge, because the bridges share nothing but
the files of `init_common`, which are in every one of them.

## 3. What is checked

`TypeOK` is checked by itself for Session, and elsewhere as a conjunct of a property
that is about the same state (`SessionLimit`, `LimitsEverywhere`, `SameContents`,
`OwnPathKept`, `TracksDisk`, …).

| Run | Question | Properties |
|---|---|---|
| `session` | Do any calls in any order keep one session's history right, and are answers about it true? | `TypeOK`, `IdsAreIndices`, `WithinLimits`, `Chronology`, `RecordedOnce`, `TrailKept`, `EditsKeepCurrent`, `RollbackHitsLabel`, `ImplementsTimeline`, `AnswersAgree`, `IdsStayPut` |
| `workspace` | Do directory, bookkeeping and checkpoint agree? | `TracksDisk`, `MirrorsHead`, `RecordsDisk` |
| `executor` | Do races of call, timer, processes and shutdown end well? | `StoppedIsReported`, `GroupGone`, `ReachableAtShutdown`, `TameCallsEnd` |
| `daemon` | Do concurrent requests keep the registry right? | `SessionLimit`, `ClosedHasSnapshot`, `EvictedNeverEntered`, `LiveIsRunning` |
| `daemon_live` | Can requests wait in a circle? | `EveryRequestAnswered` |
| `lineage` | Do forks, merges and restores keep what they promise? | `BaseKept`, `LimitsEverywhere`, `TreeComplete` |
| `snapshots` | Does what was saved come back? | `OwnPathKept`, `ClosedComesBack` |
| `interner` | Do shared contents stay what they are, and shared? | `SameContents`, `OneCopy` |
| `border` | Are bundles whole, pieces complete, commands provided for, and the host left alone? | `BundlesWhole`, `PagesJoin`, `CommandsAtHome`, `HostInBounds` |
| `config` | Do edits of config.toml do what they report, and do readers find it whole? | `ReaderSeesWhole`, `TakesEffect`, `RemovedIsGone` |
| `bridges` | Do init and deregister do what they report, and nothing to the user's part? | `CommandsTakeEffect`, `Idempotent`, `UsersEntriesStay` |
| `executor_binary` | expected to fail: [section 5](#5-where-code-and-documentation-disagree) | `EveryCallEnds` |

Some of what the runs showed that one would not guess:

- `max_checkpoints` is tested against the whole vector before a push truncates it, so a
  full session that was rolled back cannot be written to although the write would
  shorten it.  `WithinLimits` holds because of it, and also for what a rollback brings
  back.
- The order of calls along the vector (`Chronology`) survives every edit, but only in
  the form "the call that *made* a checkpoint precedes all calls at later ones": a
  reading call after a rollback is recorded at an old checkpoint.
- `TracksDisk` and `MirrorsHead` hold again as soon as one command has been collected,
  however many failed before, tore a file or wrote through a link; `RecordsDisk` holds
  throughout.  What needs its exception is a file of the checkpoint at or behind a
  link: the sync then writes somewhere else, and the command starts on other files.
- `SessionLimit` and `LimitsEverywhere` are what is left of limits that can be lowered:
  nothing but the edit itself makes anything exceed them, also not a restore of what was
  snapshot before the edit.
- `LiveIsRunning` is an equivalence for the page of a session and one direction for
  `session_tree`.
- `EvictedNeverEntered` needs both that the reaper takes only free sessions and that
  the idle check follows the lock; it fails if the config file gives a *longer*
  timeout than the daemon started with (`IdleTimeouts` above `IdleTimeout`), which is why it
  says so: the session is then entered after its removal from the map and the
  call's change is lost.
- A snapshot a close wrote has every call that was answered before, yet a call that had
  resolved the session before the close can still enter it afterwards (a hazard no
  property excludes).
- `ReaderSeesWhole` and `TakesEffect` need their conditions: two writers at once can
  publish an empty file, and two edits at once lose one.  `RemovedIsGone` needs only
  the first, although `remove` takes out one entry: no race of edits enters a value
  twice into a document whose lists had none twice.
- `OwnPathKept` and `ClosedComesBack` need to say which path is a session's own: an id
  drawn a second time, or a chosen name with an id for its stem (whose summary is the
  id's summary), and one snapshot takes the place of another.
- `AnswersAgree` holds only for files that are not empty on one side and missing on
  the other: a diff reads a missing file as no bytes.
- `OneCopy` holds for sessions that have merged nothing.
- `BundlesWhole` holds although two fetches of one page overlap, because a bundle is
  written whole under one mutex and its manifest last; a page called manifest.json is
  overwritten by it.
- `HostInBounds` is about all allowlists there were: overlays outlive the entry that
  admitted them, and a checkpoint's files inside an overlay are written to the host.  It has
  to except what a command linked to, and nothing else.
- `CommandsAtHome` has to except a workspace under /tmp on Linux, and nothing else.
- `PagesJoin` holds of searches in pieces with offsets that count from where the piece began,
  and of every limit but 0.
- `Idempotent` holds across projects, and `CommandsTakeEffect` in the reference reading of
  Hermes' YAML, for every order of sections, with drun's and the user's entries before,
  after or without each other – given two spaces a level and no other key `drun` – and
  unless the user has a server whose name begins with drun's, which Claude's and Gemini's
  init take for it.

**Bounds, and why they are enough.**

| Run | Instance | Reason |
|---|---|---|
| `session` | 2 keys, 2 contents (one of them empty), 1 label, 1 overlay, 4 checkpoints, 1 file of space, 4 calls | a squash or drop with something before, inside and behind its range, and a head at each of these; a limit that is hit by a merge of two maps that fit; an empty file against a missing one |
| `workspace` | 3 paths, one in another as a directory, 2 contents of one length | a file in the way of a directory and the reverse, a file apart from both that a link or a second name may lead to, a change that keeps the length |
| `executor` | 2 calls; one may redirect, detach and print non-UTF-8, the other none of it | the tame call must end whatever the other does; a shutdown between the two calls' spawn and registration |
| `daemon` | 3 requests of 13 kinds or edits of the limit, on 1 connection, 3 ids, limit 1 or 2, timeout 0 or 1 | two requests in a race and a third that sees the outcome; a limit that two creates compete for, or that is lowered below the open sessions before a create or a status page |
| `daemon_live` | 2 requests of the kinds that wait or hold, 2 connections, 2 sessions | two crossing merges, a merge and a close: the smallest circle is of two requests that each hold what the other waits for |
| `lineage` | 3 sessions, 2 keys, 3 checkpoints, 3 calls or edits of the config, between 3 checkpoints with both files and 2 with none | a fork of a fork, a restore of a fork whose source is closed; a session that grows, the limits lowered, a restore and a call in what was restored |
| `snapshots` | 2 ids, 2 writers, 3 requests, 1 crash, a chosen name that shares a stem with an id | two writers of one path, a crash in one of them, and a restore or a third request that sees what is left |
| `interner` | 2 sessions, 2 keys, 3 contents of which two collide, 5 addresses, 3 checkpoints | a collision beside a content that is shared, an address used again, a snapshot restored beside its source |
| `border` | 2 fetches, 3 pages, 2 projects with an overlay each of the same key, 2 allowlists, 3 links a command can make (to a directory where a directory or a file is due, and to no file yet), a temporary directory elsewhere and /tmp, 3 checkpoints, 4 calls; texts of up to 6 bytes, limits of 0, 1, 2, 3 and none | mount, command, file in the overlay, command is four calls, and a link, a write or rollback and a sync through it are three; two overlapping fetches of one page and a rollback; a line with CR LF, one without, and a piece that ends in each |
| `config` | 2 writers, 3 edits, 2 lists, 2 values, 4 inodes | a leftover config.tmp of a killed edit and two more that race over it |
| `bridges` | 2 projects, 3 commands or edits, 2 required entries per list, a server whose name begins with drun's, 32 Hermes files | init in both projects and a repetition; init, edit by hand, deregister; one entry present and one missing |

`MaxCalls` and `MaxRequests` bound the length of a behaviour, not which states are
possible within it: a history of four checkpoints is three calls, and the fourth is any
edit of it; `MaxRequests` equals the number of requests at a time because a request that
has ended leaves nothing behind but the state of the registry, and `Init` starts from
every such state (an edit of the limit counts as a request).  All other variables are
bounded by their types. Symmetry is used for keys, sessions, requests, writers, fetches
and colliding contents in runs without liveness properties; no definition distinguishes
them.

`CHECK_DEADLOCK FALSE` is given where a behaviour may end: Daemon when `MaxRequests` is
reached, Lineage, Interner, Snapshots and Border when ids, calls or requests are used
up, Executor when the daemon is down, ConfigFile and Bridges when their edits are used
up.  Session and Workspace never stop.

**Fairness.**  Executor: weak fairness of the call threads, timer threads and of the
shutdown handler – threads of one process the scheduler does not starve – and of the
timer's expiry, but none of any process of the command: `TameCallsEnd` says the
timeout suffices.  Daemon: weak fairness of the next step of each request; that a
command ends is the executor's timeout, that a fetch ends the HTTP client's; that a
thread waiting for a mutex gets it at some time is what the standard mutex does in
practice.  No fairness for arrivals, ticks, the reaper or config edits.  The safety
runs use no fairness.

## 4. What is proved

For every value of the constants – any number of sessions, requests, calls,
checkpoints, files, writers and edits, any texts, pages and paths – from the named
`ASSUME`s of the modules.  For each module there is an inductive invariant `IInv`
(`ExecutorIInv`, `WorkspaceIInv`, `BridgesIInv` where a module of theorems is about several)
and a theorem `Invariance == Spec => []IInv`; the other theorems follow from it.

| Module | Theorem | States |
|---|---|---|
| `SessionProofs` | `TypeCorrect` | `Spec => []TypeOK`: in particular the head is an index |
| | `IdsCorrect`, `LimitsCorrect` | `IdsAreIndices`, `WithinLimits` |
| | `ChronologyCorrect`, `RecordedOnceCorrect` | `Chronology`, `RecordedOnce` |
| | `TrailKeptCorrect`, `EditsKeepCurrentCorrect`, `RollbackToLabelCorrect` | the action properties `TrailKept`, `EditsKeepCurrent`, `RollbackHitsLabel` |
| | `Implements` | `ImplementsTimeline`, the refinement |
| | `AnswersAgreeCorrect`, `IdsStayPutCorrect` | Views' action properties `AnswersAgree`, `IdsStayPut` |
| `LineageProofs` | `LimitsCorrect`, `BaseCorrect`, `TreeCorrect` | `LimitsEverywhere`, `BaseKept`, `TreeComplete` |
| `DaemonProofs` | `SessionLimitCorrect`, `EvictedNeverEnteredCorrect`, `ClosedHasSnapshotCorrect`, `LiveIsRunningCorrect` | the properties of those names |
| | `StoppedIsReportedCorrect`, `GroupGoneCorrect`, `ReachableCorrect` | Executor's `StoppedIsReported`, `GroupGone`, `ReachableAtShutdown` |
| | `TracksDiskCorrect`, `MirrorsHeadCorrect`, `RecordsDiskCorrect` | Workspace's `TracksDisk`, `MirrorsHead`, `RecordsDisk`, if not `SameTick` |
| | `PathsMirrorHead` | what of `MirrorsHead` is true with any clock: which paths have files; and that then no removal fails for what is there |
| `SnapshotsProofs` | `OwnPathCorrect`, `ClosedCorrect` | `OwnPathKept`, `ClosedComesBack` |
| `InternerProofs` | `ContentsSafe`, `CopiesSingle` | `SameContents`, `OneCopy` |
| `BorderProofs` | `HostSafe` | `HostInBounds` |
| | `ViewsHold` | on either platform: what a command can read and write of its directories (those that /tmp hides excepted) and overlays, and that mounts have sources |
| | `FetchesWhole`, `AtHome` | `BundlesWhole`, `CommandsAtHome`, if every step is `Careful` |
| | `PagesAlwaysJoin` | `PagesJoin` |
| `CommandsProofs` | `ReaderCorrect`, `TakesEffectCorrect`, `RemovedIsGoneCorrect` | ConfigFile's `ReaderSeesWhole`, `TakesEffect`, and the action property `RemovedIsGone` |
| | `CommandsEffective`, `InitRepeats`, `UsersKeep` | Bridges' `CommandsTakeEffect` and the action properties `Idempotent`, `UsersEntriesStay`, for Claude, Gemini and Codex |

**Session.**  `IInv` is `TypeOK`, `Sound(history)` and `Trail(history, calls)`.  `Sound(h)`
says that `h` is well formed (head below the length), that ids are indices and that
the limits hold; none of the three is inductive alone.  `WithinLimits` needs the head to
be an index (a push reads and keeps `0 .. head`).  `RollbackToLabel` takes an id stored
in a checkpoint for an index: that the head stays one needs `IdsAreIndices`.
`IdsAreIndices` in turn needs the head below the length, as a push stores `head + 1`.
`Trail` adds what `Chronology` needs to be inductive: all recorded calls are below `calls`,
and each checkpoint but the first has one call that came before all that is recorded
behind it.  The proof goes in layers:

1. `CheckpointsProofs`: what each operator returns, index by index (`PushFacts`,
   `SpliceFacts`, `SquashFacts`, `DropFacts`, …).  All arithmetic on sequences is here.
2. The `…Sound` and `…Trail` lemmas: each operator takes a sound history to a sound one.
   A squash and a drop are one case, `Contracts`: each checkpoint of the result stands
   for a run of old ones, in order, with the files of the run's last and the calls of all.
3. `NextIInv`: each action is one or two operators.  `StepForms`: whichever of the twelve
   actions a step is, it changes the history in one of six ways; the action properties
   and the refinement go through these six.  A push is Timeline's `Add`, a rollback its
   `Move`, and what contracts is a `Forget` whose kept positions are the ends of the runs.
4. Views: what is told of an id depends on the files up to it (`SameTold`), and only a push
   leaves the latest call alone at the head (`OnlyPushesMake`, from `Trail`).

**Lineage.**  Each session *and each snapshot* is sound, has the files it branched off
with at checkpoint 0, has its branch point still in the parent's history unless the parent
was rewritten, and is within the limits but for what it is marked to have `held`; a
restore carries these four facts from the one to the other.  The fourth is kept by an edit
of the config because the edit marks all there is, by a squash or a drop because every
checkpoint they leave is one that was there (`Contracts`), and by a push because what it
adds was checked or is a checkpoint's files with some deleted (`ConfigsAssumption`: what
fits still fits then).  For `TreeComplete`, `Forest` is a recursive function over parents:
a value that satisfies its equation exists whatever the parents are (`FollowsSome`: the
sessions with a set of ancestors closed under it), and it is compared with `Unbroken`
along an age by which parents are older than forks (`Acyclic`, part of `IInv`): of the
sessions missing from the forest there would be an oldest one, whose parent is in it.

**Workspace.**  `SyncedAt` says what `sync_to`'s loops make of *one* path, wherever they
stop; everything else follows path by path.  `IInv` has `Tracked` (while `settled`,
`synced` has exactly the paths of the directory's files, and the contents if not
`SameTick`) and `Trusted` (a file whose length and time are unchanged has the content it
is taken to have, settled or not: what goes astray is given a new time, so that only what
nothing has touched is trusted).  The hypothesis `~SameTick` is that of the code: a change
is seen by length or modification time.  `MirrorsHead` follows for a checkpoint none of
whose files is at or behind a link, since then no write goes elsewhere.  `PathsMirrorHead`
says what remains without `~SameTick`.

**Executor.**  `CallInv(c)` ties together where the call's thread is, what of its group is
alive, the registration and the flag.  Every action concerns one call and leaves the
invariant of the others alone (`Bystander`); the daemon's exit concerns all.

**Daemon.**  `IInv` says for each request which ids it knows where it is, that it holds
the session's mutex between entry and exit, and that live output lists it; for each
session that an entry of live output is a request that runs, that what was evicted stays
idle, and that a closed session was saved or is about to be.  Most steps move one request
and change one mutex (`QuietStep`); a mutex changes hands only through nobody (`Handed`).
`EvictedNeverEntered` also needs `StaysIdle`: idleness of an evicted session can only
grow, because entering it needs the check that it fails.  For `SessionLimit`, an insertion
compares with the limit of that moment and everything else only removes sessions, so that
`over` bounds them from an edit on; the copy a status page has taken is within the limit
as long as the limit was never lowered.  `LimitsAssumption` has a longest timeout, as a
u64 has.

**Snapshots.**  Requests that write are told apart by the mutex of their object.  If an id
was drawn once, its requests agree on the object (`OpenInv`), so one at a time is at the
two files of the id's own path, and what is in these files follows from how far it
got (`DiskInv`).  A chosen name touches them only if its path or its summary is one of
them, which `Own` excludes.  `CloseInv` says of what a close saw that it is still to be
written, was written, or was cut off by a failure or crash.

**ConfigFile.**  While `overlap` has no mark, at most one edit is between read and rename,
or between create and rename (`Marked`).  A writer alone has config.tmp to itself
(`WritesAlone`), an edit alone makes of the config what it makes of the ledger
(`EditsAlone`).  `Clean` needs neither: no document on disk or on its way has a value
twice, however edits race, so that removing the first entry removes the value.

**Interner.**  `Reads` says that a history of references reads as one of contents: as
many checkpoints, the same head, and in each file, at the reference, the content meant.
`IInv` has it for every session (the references are addresses, the memory `heap`) and for
the snapshot (the references are numbers, the memory the table of blobs).  Every edit of a
history is made on both sides and keeps it; what is left is that memory stays as it
is where references are (`Walked`: an address in use is never given out, because those in
use include the history's, the snapshot's and the walk's own).  `Handled` says that the
table of a session that has merged nothing leads from a content to the address its
references have, unless the content collides; `OneCopy` follows, and for a snapshot
`Single`, because `Rank` and `Nth` are inverse to each other.

**Border.**  The parts of `IInv` are small: checkpoints are keyed by paths, `config` and
`admitted` are in range, each overlay leads to a project that `admitted` let in when it
was mounted, and each link to such a project or to what is in `strayed`.  What they need
is what the pure operators do: `HostAfterFacts` says that `HostAfter` differs from the
host before it only where a link leads (`ResolveFacts`: a path resolves to itself or to
something below the target of a link), so a sync reaches nothing but projects and what
commands linked to; `AccessFacts` says what the last of the layers above a path is. For
bundles, `AssetsOfFacts` and `BundleFacts` follow the two loops of a fetch: no two assets
have a name in common, the directory is new, and what the manifest names is what was
written.  `BundleInv` has, for every checkpoint, that each manifest lies in a directory
below downloads/ with all the files it names and tells the truth about them, and that a
package's files are where its variables point.  `BundlesWhole` cannot be had for any
caller: `session_write_file` may overwrite what a fetch saved, and a mount or a command
can bring a manifest of its own.  `Careful` says of those four actions that they bring no
manifest and no package and leave alone what manifests name; of fetches, failures,
overlaps, exports, deletions and rollbacks it says nothing.  Every step of the `border`
instance is `Careful`.

**Pages.**  A page is what there is from its offset on (`PageFacts`), pages go on
(`GoOn`), and there is only one way to read on (`OneReading`, over the bytes that are
left); with a limit of 0 they stand still (`Endless`).  For a stream, `Readable` is the
greatest set of offsets from where no page panics. A search of a piece is one of the text
the piece is, moved by where it begins (`PieceFacts`). A search is compared with its text
by a cut of it: `Split(text, n, lines, at)` says that the first n bytes are lines from
`at[k]` to before `at[k + 1]`, with a line feed at the end and nowhere else. Every byte
keeps a cut (`LineMore`, `LineGrows`), a cut has its starts and ends where the text says
(`SplitFacts`), and k is the number of starts up to `at[k]` (`LineNumber`, a bijection).

**Bridges.**  `BridgesIInv` says that where a running init is implies what it has done in
its project (`Progress`), as long as nothing failed (`well`), and what every project in
`inited` has (`DoneIn`). What init and other inits do only adds to the files (`Adds`),
which keeps both; a deregistration empties `inited`.  `UsersKeep` compares what one step
does to a list with what the user had in it: pushes add only entries that are drun's; and
it goes through what a step may make of Codex' shell.  `CommandsEffective` has the
exception of `Shadowed`, which is the very case in which `RegisterCli` finds a server and
none called drun.

*What the proofs changed in the models.*  No property turned out to be false.  Snapshots'
`cut` now marks the path a write of which was cut off, instead of one of its two files:
what is proved is that the two agree.  Loops that were folds – interning, a fetch's links
and assets, resolving a path, the lines of a search, pushing missing entries – are
functions that recur over the number of rounds, which is also closer to the code;
`RoundsExist` and `RoundsReach` say of such a function that it exists and that what every
round keeps holds at the end. Constants got the assumptions that keep names apart
(`NamesAssumption`, `InternerAssumption`, `BorderAssumption`, `BridgesAssumption`, …),
which TLC's model values satisfy by themselves.  Neither the place of the temporary
directory nor a limit of 0 is assumed away.

*Only model-checked:*

- Liveness, `TameCallsEnd` and `EveryRequestAnswered`, which TLAPS cannot prove under fairness.
- Hermes' part of `CommandsTakeEffect`, `Idempotent` and `UsersEntriesStay`.  Its surgery
  is right only for files of a certain shape (two spaces a level, one section of each
  name, nothing of the user's below drun's keys); TLC has the 32 files of the instance,
  each of that shape, and what is missing is that every edit leads from this shape to it.
- `BundlesWhole` and `CommandsAtHome` without `Careful` do not hold of every caller, as
  said above; the run's callers are careful.

## 5. Where code and documentation disagree

One is a run whose property a document states and TLC refutes:

| Run | The document | The code |
|---|---|---|
| `executor_binary` | `README.md:449`, `core/executor.rs:53`: the timeout bounds the call | output that is not UTF-8 ends the reading and cancels the timer |

Others were seen while modelling and have no run of their own.

Of calls and sessions:

- `docs/troubleshooting.md:192` says reading calls keep working on an idle session, and
  `with_session_mut` checks idleness for all of them;
- `mcp/instructions.rs:30` says the tree shows every session, and a fork whose branch
  point was dropped or truncated is in no node (hence `rewritten` in `TreeComplete`);
- what a command killed at its timeout left stays on disk, outside `synced`, for the next
  one (`core/workspace.rs:1` says the directory mirrors the file map; `MirrorsHead`
  without `settled` fails);
- so does a file that a failed write has torn, which `synced` describes as before;
- the sync follows what links an earlier command left in its directory: a checkpoint's
  file of a symbolic link's path, or of one behind it, is written to where the link leads,
  and one of a file under two names under both, so that the command starts on other files
  (`MirrorsHead` without its exception fails);
- the timer is cancelled as well when a command closes its stdout and goes on (`Redirecting`);
- a descendant that left the process group survives its call (`Detaching`;
  `core/sandbox.rs:178` and `:248` say none remains alive);
- a command killed after it deleted a synced file makes the next removal of that file, and
  with it every later command, fail (`RemoveFails` when not `settled`);
- an empty directory left behind blocks a file of its name (`WriteFails`);
- a file replaced within one tick of the clock by one of the same length is not collected
  (`SameTick = TRUE` violates `RecordsDisk`);
- a child between its spawn and its registration survives a shutdown on systems without
  die-with-parent (`core/executor.rs:166`);
- idleness counts from the start of the last call, not its end;
- the idle check uses the timeout the config file has now where `README.md:487` says it is
  fixed at startup;
- a drop before a branch point makes the tree draw a fork under another checkpoint;
- a `session_fork` takes one checkpoint's files, not the history up to it.

Of limits:

- by `README.md:437` the config is re-read on every call, but `core/session.rs:723` and
  `mcp/handler.rs:169` check the next addition only: sessions that are open when
  `max_sessions` is lowered stay, and the status page shows more of them than the limit
  beside them;
- `session_fork` and `session_restore` (`mcp/server/config_snapshot.rs:110`,
  `core/snapshot.rs:147`) check neither the number of checkpoints nor the size, so that a
  restored session may be beyond both (`WithinLimit(sessions)` and the same of every
  session fail; `SessionLimit` and `LimitsEverywhere` say what holds);
- `session_delete_files` is not checked for size, so that what it leaves may be beyond it
  still.

Of answers:

- `session_tree` says `running: true` of every session whose mutex it cannot take, also
  while that only waits, merges or writes (`mcp/state/session_tree.rs:153`; the
  equivalence fails, `LiveIsRunning` has one direction);
- the text of `get_session_state` promises deltas, the code compares with nothing and
  answers zeros, as it does for a merge;
- `session_diff` shows nothing for an empty file that was added or removed;
- `core/interner.rs:1` says every content is stored once, a merge does not ask the table;
- a search in a piece of a file or output (offset and limit given:
  `mcp/server/file_ops.rs:27`, `mcp/server/checkpoint_ops.rs:161`) tells line numbers and
  offsets within the piece, where `mcp/instructions.rs:78` and `mcp/tools.rs:102` and
  `:120` promise an offset to read on from, and a piece that cuts a character is refused
  as binary;
- `checkpoint_read_stdstreams` cuts a string by bytes and panics inside of a character;
- a limit of 0 has more for ever.

Of the border with the host:

- a checkpoint's file whose key lies inside an overlay that was linked by then is written
  through the link into the host's directory, which `README.md:457` and the text of
  `session_mount` call read-only, and is missing from the next checkpoint;
- an overlay whose host directory is deleted after its link was placed makes every later
  `session_bash` fail (`core/executor.rs:62` asks `exists()`, which follows the dangling
  link);
- after a second mount with an overlay of the same key the old link stays and points at a
  directory that is no longer bound;
- the text says a mounted directory becomes its own name, the code puts its content at the
  root;
- a command may make a link in its workspace to any path of the host, through which the
  next `sync_to`, which is not in the sandbox, writes and removes that path's files
  (`core/workspace.rs:40`, `:56`), where `docs/security.md:131` says that nothing is
  written to the host until an export or a snapshot, and `README.md:456` that those keep
  to allowlisted paths (`HostInBounds` without `Strayed` fails);
- with the temporary directory under /tmp, as it is when TMPDIR is not set and
  `install.sh:184` sets none, bwrap's last mount hides workspace and scratch directory
  (`core/sandbox.rs:232`; `CommandsAtHome` without `Hidden` fails);
- fetched assets can make one key a file and a directory, after which every `session_bash`
  fails in `sync_to`;
- keys `a` and `./a` are two files in a checkpoint and one on disk.

Of the config and the bridges (`mcp/bridge/mod.rs:63` and `mcp/cli.rs:25`: deregister
undoes init):

- deregistering Claude or Gemini leaves the native tools blocked in every project's
  settings;
- deregistering Codex or Hermes also lifts blocks the user had before the init
  (`mcp/bridge/hermes.rs:357` removes a required toolset whoever disabled it), and an init
  of Codex overwrites a user's `shell_tool = true` for good (`mcp/bridge/codex.rs:172`,
  where `:176` says the user's override is left alone; `ShellStays` and `HermesStays` name
  these cases);
- a config of Codex or Hermes that cannot be read is taken for an empty one and replaced
  (`Unreadable`);
- a server named `drun-dev` is taken for drun's and keeps it from being registered, while
  the init reports that it is (`mcp/bridge/mod.rs:238`, `:246`; `Shadowed`);
- Hermes' surgery takes a key `drun` in any section for its own and puts items of four
  spaces into a list of two;
- an init on an empty `mount_allowlist`, which permits all paths, narrows it to the
  project;
- `README.md` says to remove `web_port` to disable the web UI, the default of a missing
  field is 7274;
- two config edits at once lose one, and two writers of config.tmp can show a reader half
  a file, which `mcp/file_manager.rs:1` excludes.

## 6. What is not modelled

- HTTP, the parsing of HTML and PDF, what package installers download, what the
  operating system makes of mounts and profiles: external; what drun asks of them and
  does with the result is in Border.
- Contents of commands and their output, chat logs, session labels, metrics
  (`mcp/drunmon.rs`), answers' wording (`mcp/tools.rs`, `mcp/errors.rs`), web pages: no
  control depends on them.
- The web UI's chat, which runs `drun chat` as a process and waits for it without a
  timeout: it comes back as ordinary requests.  Its onboarding marker and content types.
- The setup wizard and the command line: probes of installed programs and dispatch.
- The Python package: one mutex around the calls of Session.
- Symbolic links that are on the host already (those of overlays and of commands are in
  Border), /dev and /proc in the sandbox, the rules for xcrun; a deletion on the host during
  a command; an overlay whose place lies behind a command's link, and more than one file or link
  that one command makes in Border (Workspace has a command do anything, in its directory).
- Process ids that are reused (`core/executor.rs:123` kills a group by number after the
  child was waited for); an edit of the config between the checks of size and of number in
  one call.
- A session that becomes idle while its command runs (`last_activity` is set at its
  start, `mcp/handler.rs:236`): the next call is rejected, by which no property is broken.
- What Workspace's model of the clock leaves out with `SameTick = FALSE`: a change that
  neither length nor modification time tells.
- Hermes' configs of other shapes than two spaces a level.
- Two inits at once (ConfigFile has them for config.toml); the texts of instructions; the
  repair of a Hermes config torn by a kill (`WriteBreaks`), which nothing attempts.

`PROJECT.json` lists the hazards with the properties that are about them.

## 7. Plan

Built first, because everything else relies on it: Checkpoints and Session, with
Timeline as what they promise and the proofs of the invariant.  Then Workspace and
Executor (what a command does), Daemon (what requests do to each other), Lineage
(what sessions do to each other), ConfigFile and Bridges (what processes outside the
daemon do to its files and to those of the agents); then Snapshots and Interner (what
is kept of sessions, on disk and in memory), Views (what is told of them), and Border
with Fetch, Packages, Pages and Sandbox (what they have to do with the world).

What could be added to the model: an edit of the config between two reads of one call;
symbolic links that are on the host already; squashes and drops in Border.

What could still be proved: Hermes' part of Bridges, with the shape of a config file as a
part of `BridgesIInv` and a lemma on `Meaning` for each of the four edits.

## 8. Running it

    tlc -config MCSession.cfg MCSession
    tlapm SessionProofs.tla

and the other `MC*` modules with their `.cfg` files and `*Proofs` modules in the same
way.  Every run ends within three minutes on two cores.  `Mutant:` comments in the modules
mark variants of a definition with a plausible bug; each property is broken by one of
them, and `PROJECT.json` says which.
