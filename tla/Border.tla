------------------------------- MODULE Border -------------------------------
(***************************************************************************)
(* Where a session meets what lies outside of it: pages fetched from the   *)
(* web, host directories mounted into it, overlays that its commands see   *)
(* through links, and files exported to the host or deleted there.  Other  *)
(* changes of the history are left to Session.tla, and the mirroring of a  *)
(* checkpoint on disk, which matters here where a link is in the way, to   *)
(* Workspace.tla.                                                          *)
(*                                                                         *)
(* Paths, of files in a checkpoint and of the host, are sequences of the   *)
(* names of Fetch.tla; a checkpoint is a function from paths to contents,  *)
(* the host one from paths to contents or Dir.                             *)
(***************************************************************************)
EXTENDS Fetch, Packages, Pages, Sandbox

CONSTANTS
  Fetchers,        \* session_fetch calls in flight
  WebPages,        \* what they may fetch
  Domains,         \* the values domain_allowlist may have
  Mounts,          \* the values mount_allowlist may have
  OverlayNames,    \* mount_overlay_paths
  Denylist, Allowlist, Commands,  \* bash_command_denylist, _allowlist; commands
  HostPaths,       \* what callers may ask to mount, to export to or to delete
  FileNames,       \* keys that callers and commands write
  CommandLinks,    \* links that commands make: <<place, what on the host it leads to>>
  InstallEnabled,  \* Config::package_install_enabled
  PackageRequests, \* what callers may ask of package managers
  Host,            \* what the host holds at first
  Platform,        \* "linux" or "macos"
  Dir, Idle,
  MaxCheckpoints,  \* Config::max_checkpoints
  MaxCalls         \* bound: calls of one behaviour

\* A path is a sequence of names.
Path(p) == p \in Seq(Range(p))

ASSUME BorderAssumption ==
  /\ \A path \in HostPaths \cup FileNames : Path(path)
  /\ \A link \in CommandLinks : Path(link[1]) /\ Path(link[2])
  /\ \A path \in DOMAIN Host \cup UNION Mounts : Path(path)
  /\ \A path \in TempDirs \cup {Tmp} : Path(path)
  /\ \A page \in WebPages :
       /\ page.html \in BOOLEAN /\ NamedUrl(page.url)
       /\ page.elements \in Seq(Range(page.elements))
       /\ \A el \in Range(page.elements) :
            /\ el.tag \in {"stylesheet", "script", "img", "other"}
            /\ el.url = NoUrl \/ NamedUrl(el.url)
  /\ Idle \notin [page : WebPages, domains : Domains, call : 1 .. MaxCalls]
  /\ Platform \in {"linux", "macos"}
  /\ MaxCheckpoints \in Nat \ {0} /\ MaxCalls \in Nat

VARIABLES
  line, now,  \* the checkpoints' files, and the present one
  fetching,   \* the page and the configuration each fetch has in hand
  config,     \* domain_allowlist and mount_allowlist
  admitted,   \* history: all values mount_allowlist has had
  host,
  overlays,   \* Session::overlays
  links,      \* the links in the workspace directory
  dirs,       \* directories there that files were written into
  synced,     \* the files sync_to wrote or collect_changes found
  strayed,    \* history: what commands have linked to
  calls

session == <<line, now, overlays>>
disk == <<links, dirs, synced, strayed>>
settings == <<config, admitted, temp>>
vars == <<session, fetching, settings, host, disk, calls>>

Init ==
  /\ line = << <<>> >> /\ now = 1
  /\ fetching = [f \in Fetchers |-> Idle]
  /\ config \in [domains : Domains, mounts : Mounts]
  /\ admitted = {config.mounts}
  /\ temp \in TempDirs
  /\ host = Host
  /\ overlays = <<>> /\ links = <<>> /\ dirs = {} /\ synced = <<>> /\ strayed = {}
  /\ calls = 0

Files == line[now]
Merge(base, top) ==
  [key \in DOMAIN base \cup DOMAIN top |-> IF key \in DOMAIN top THEN top[key] ELSE base[key]]
Only(key, content) == [k \in {key} |-> content]
Count == calls < MaxCalls /\ calls' = calls + 1
StrictPrefixes(path) == {SubSeq(path, 1, n) : n \in 0 .. Len(path) - 1}

LimitReached == Len(line) >= MaxCheckpoints
Push(files) ==
  /\ ~LimitReached
  /\ line' = Append(SubSeq(line, 1, now), files)
  /\ now' = now + 1

EditConfig ==
  /\ Count
  /\ config' \in [domains : Domains, mounts : Mounts] \ {config}
  /\ admitted' = admitted \cup {config'.mounts}
  /\ UNCHANGED <<session, fetching, temp, host, disk>>

\* Drops and squashes only take states away.
Rollback ==
  /\ Count
  /\ now' \in DOMAIN line \ {now}
  /\ UNCHANGED <<line, overlays, fetching, settings, host, disk>>

-----------------------------------------------------------------------------
(***************************************************************************)
(* session_fetch reads the configuration, then the network, without the    *)
(* session's mutex; the files go to what is the present state by then.     *)
(***************************************************************************)
\* Of two files with one path the later one stays.
Written(bundle) ==
  [path \in {file[1] : file \in Range(bundle)} |->
     LET at == {n \in DOMAIN bundle : bundle[n][1] = path}
     IN  bundle[CHOOSE n \in at : \A m \in at : m <= n][2]]

BeginFetch(f) ==
  /\ fetching[f] = Idle
  /\ Count
  /\ \E page \in WebPages :
       /\ DomainAllowed(config.domains, page.url.host)
       /\ fetching' = [fetching EXCEPT ![f] =
                         [page |-> page, domains |-> config.domains, call |-> calls']]
  /\ UNCHANGED <<session, settings, host, disk>>

FetchDone(f) ==
  LET at == fetching[f] IN
  /\ at /= Idle
  /\ \E failing \in SUBSET Range(Assets(at.page)) :
       Push(Merge(Files, Written(Bundle(at.page, at.domains, failing, at.call))))
  /\ fetching' = [fetching EXCEPT ![f] = Idle]
  /\ UNCHANGED <<overlays, settings, host, disk, calls>>

\* No answer, or the session is busy, gone or at its limits.
FetchFails(f) ==
  /\ fetching[f] /= Idle
  /\ fetching' = [fetching EXCEPT ![f] = Idle]
  /\ UNCHANGED <<session, settings, host, disk, calls>>

\* What pip or npm put into the staging directory, if it ended well and wrote to that
\* and not to a /tmp of its own; else the checkpoint only has its output.
InstallPackage ==
  /\ InstallEnabled
  /\ Count
  /\ \E asked \in PackageRequests :
       /\ MayInstall(asked.manager, asked.specs)
       /\ \/ /\ ~Hidden(Platform, StagingDir)
             /\ Push(Merge(Files, Installed(asked.manager, asked.specs)))
          \/ Push(Files)
  /\ UNCHANGED <<overlays, fetching, settings, host, disk>>

\* session_extract_text takes a file for what its extension says, and saves the text
\* beside it unless it is told where (as it is here for a numbered name).
Extractable(path) == Last(path).ext = "pdf"
TextName(name) == [name EXCEPT !.stem = Append(@, name.ext), !.ext = "txt"]
ExtractText ==
  /\ Count
  /\ \E path \in {p \in DOMAIN Files : Extractable(p)} :
       \E save_to \in FileNames \cup (IF Last(path).more /= <<>> THEN {}
                                     ELSE {Append(Front(path), TextName(Last(path)))}) :
         /\ ValidKey(save_to)
         /\ Push(Merge(Files, Only(save_to, [kind |-> "text", of |-> path])))
  /\ UNCHANGED <<overlays, fetching, settings, host, disk>>

WriteFile ==
  /\ Count
  /\ \E key \in FileNames :
       /\ ValidKey(key)
       /\ Push(Merge(Files, Only(key, [kind |-> "written", call |-> calls'])))
  /\ UNCHANGED <<overlays, fetching, settings, host, disk>>

-----------------------------------------------------------------------------
(***************************************************************************)
(* Host directories: session_mount, session_export, delete_from_host.      *)
(***************************************************************************)
Below(path) == {p \in DOMAIN host : IsPrefix(path, p) /\ p /= path}
KeyBelow(path, p) == SubSeq(p, Len(path) + 1, Len(p))

\* scan_mount: the files and the overlays below a directory.
InOverlay(path, p) == \E n \in Len(path) + 1 .. Len(p) - 1 : p[n] \in OverlayNames
ScannedFiles(path) == {p \in Below(path) : host[p] /= Dir /\ ~InOverlay(path, p)}
ScannedOverlays(path) ==
  {p \in Below(path) : host[p] = Dir /\ Last(p) \in OverlayNames /\ ~InOverlay(path, p)}

MountedFiles(path) ==
  IF host[path] = Dir
    THEN [key \in {KeyBelow(path, p) : p \in ScannedFiles(path)} |-> host[path \o key]]
    ELSE Only(<<Last(path)>>, host[path])
MountedOverlays(path) ==
  [key \in {KeyBelow(path, p) : p \in ScannedOverlays(path)} |-> path \o key]

\* At the checkpoint limit the overlays are taken all the same.
Mount ==
  \E path \in HostPaths :
    LET abs == Resolve(path) IN
    /\ abs \in DOMAIN host
    /\ CheckMountPath(config.mounts, abs)
    /\ Count
    /\ \/ Push(Merge(Files, MountedFiles(abs)))
       \/ LimitReached /\ UNCHANGED <<line, now>>
    /\ overlays' = Merge(overlays, MountedOverlays(abs))
    /\ UNCHANGED <<fetching, settings, host, disk>>

\* A host with some files put, and the directories they need made.
CanPut(at, path) ==
  /\ path \in DOMAIN at => at[path] /= Dir
  /\ \A p \in StrictPrefixes(path) \cap DOMAIN at : at[p] = Dir
Put(at, files) ==
  LET made == UNION {StrictPrefixes(p) : p \in DOMAIN files}
  IN  Merge(Merge([p \in made |-> Dir], at), files)

Exportable(path, keys) == \A key \in keys : ValidKey(key) /\ CanPut(host, path \o key)

\* The files a caller names; an export that fails has written some of them.
Export ==
  \E path \in HostPaths, keys \in SUBSET (FileNames \cap DOMAIN Files) :
    /\ CheckMountPath(config.mounts, path)
    /\ Count
    /\ Exportable(Resolve(path), keys)
    /\ host' = Put(host, [p \in {Resolve(path) \o key : key \in keys} |->
                       Files[KeyBelow(Resolve(path), p)]])
    /\ UNCHANGED <<session, fetching, settings, disk>>

DeleteFromHost ==
  \E path \in HostPaths :
    /\ CheckMountPath(config.mounts, path)
    /\ Resolve(path) \in DOMAIN host
    /\ Count
    /\ host' = [p \in {q \in DOMAIN host : ~IsPrefix(Resolve(path), q)} |-> host[p]]
    /\ UNCHANGED <<session, fetching, settings, disk>>

-----------------------------------------------------------------------------
(***************************************************************************)
(* session_bash.  sync_to follows the links that earlier calls placed and  *)
(* that commands made, and follows them outside of the sandbox.            *)
(***************************************************************************)
LinkOver(at, key) == {l \in DOMAIN at : IsPrefix(l, key)}
OnHost(at, key) == LET l == CHOOSE l \in LinkOver(at, key) : TRUE IN at[l] \o KeyBelow(l, key)
Through(at, keys) == {key \in keys : LinkOver(at, key) /= {}}
Without(files, keys) == [p \in DOMAIN files \ keys |-> files[p]]

Stale == {key \in DOMAIN Files : ~(key \in DOMAIN synced /\ synced[key] = Files[key])}
Removed == DOMAIN synced \ DOMAIN Files

\* Removals: a link is unlinked itself, a file that a link leads to is removed on the
\* host, where it may be missing or have become a directory.
Beyond(removed) == Through(links, removed) \ DOMAIN links
Missing ==
  {key \in Beyond(Removed) : OnHost(links, key) \notin DOMAIN host \/ host[OnHost(links, key)] = Dir}
LinksAfter(removed) == Without(links, removed)
HostWithout(removed) == Without(host, {OnHost(links, key) : key \in Beyond(removed)})

\* What is in the way of a file: another one, a directory, what is on the host where
\* a link leads.  A link to nothing is in the way of a directory; a file is created
\* through it where that has a directory to be in.
Blocked(key) ==
  LET at == LinksAfter(Removed)  left == HostWithout(Removed)  to == OnHost(at, key) IN
  \/ \E other \in DOMAIN Files : IsPrefix(other, key) /\ other /= key
  \/ \E other \in DOMAIN Files : IsPrefix(key, other) /\ other /= key
  \/ LinkOver(at, key) = {} /\ key \in dirs
  \/ LinkOver(at, key) /= {} /\ ~CanPut(left, to)
  \/ \E l \in LinkOver(at, key) : l /= key /\ at[l] \notin DOMAIN left
  \/ key \in DOMAIN at /\ to \notin DOMAIN left /\ Front(to) \notin DOMAIN left

Syncs == Missing = {} /\ \A key \in Stale : ~Blocked(key)

\* The host, when sync_to has come as far as these removals and writes.
HostAfter(removed, written) ==
  LET at == LinksAfter(removed)
      put == [p \in {OnHost(at, key) : key \in Through(at, written)} |->
                Files[CHOOSE key \in Through(at, written) : OnHost(at, key) = p]]
  IN  Put(HostWithout(removed), put)
DirsAfter(removed, written) ==
  dirs \cup UNION {StrictPrefixes(key) : key \in written \ Through(LinksAfter(removed), written)}

SyncFails ==
  /\ ~Syncs
  /\ Count
  /\ \E removed \in SUBSET (Removed \ Missing), written \in SUBSET {key \in Stale : ~Blocked(key)} :
       /\ written /= {} => removed = Removed
       /\ host' = HostAfter(removed, written)
       /\ links' = LinksAfter(removed)
       /\ dirs' = DirsAfter(removed, written)
       /\ synced' = [key \in (DOMAIN synced \ removed) \cup written |->
                       IF key \in written THEN Files[key] ELSE synced[key]]
  /\ UNCHANGED <<session, fetching, settings, strayed>>

\* An overlay whose place is free gets its link; a link to nothing is in the way,
\* and so is a file where a directory is needed.  (One whose place lies behind
\* another link is left out.)
HostSynced == HostAfter(Removed, Stale)
LinksSynced == LinksAfter(Removed)
DirsSynced == DirsAfter(Removed, Stale)
Free ==
  {key \in DOMAIN overlays :
     /\ key \notin DOMAIN Files \cup DirsSynced
     /\ LinkOver(LinksSynced, key) \subseteq {key}
     /\ ~(key \in DOMAIN LinksSynced /\ LinksSynced[key] \in DOMAIN HostSynced)}
Linkable ==
  {key \in Free : key \notin DOMAIN LinksSynced /\ StrictPrefixes(key) \cap DOMAIN Files = {}}
Placed(keys) == Merge(LinksSynced, [key \in keys |-> overlays[key]])

LinkFails ==
  /\ Syncs
  /\ Free /= Linkable
  /\ Count
  /\ \E keys \in SUBSET Linkable : links' = Placed(keys)
  /\ host' = HostSynced
  /\ dirs' = DirsSynced
  /\ synced' = Files
  /\ UNCHANGED <<session, fetching, settings, strayed>>

View(platform) ==
  Layers(platform, DOMAIN host, Range(overlays) \cup config.mounts, WorkspaceDir)
InstallView(platform) == Layers(platform, DOMAIN host, {}, StagingDir)

\* What a command makes in its directory: a file, or a link in the place of all that
\* is there.
InPlace == Without(Files, Through(LinksSynced, DOMAIN Files))
FilesMade ==
  {key \in FileNames : /\ ValidKey(key) /\ key \notin DirsSynced
                       /\ LinkOver(Placed(Free), key) = {}
                       /\ StrictPrefixes(key) \cap DOMAIN InPlace = {}}
LinksMade ==
  {Only(link[1], link[2]) :
     link \in {made \in CommandLinks : /\ LinkOver(Placed(Free), made[1]) \subseteq {made[1]}
                                       /\ StrictPrefixes(made[1]) \cap DOMAIN InPlace = {}}}

Gone(link, places) == {p \in places : \E l \in DOMAIN link : IsPrefix(l, p)}

\* In sight of its directory the command may make a file or a link there and remove
\* links; it may write to files of the host where its view lets it.  What is behind a
\* link is not collected.
Bash ==
  /\ Syncs
  /\ Free = Linkable
  /\ Count
  /\ \E command \in Commands : CommandAllowed(Denylist, Allowlist, command)
  /\ LET written == [kind |-> "written", call |-> calls']
         open == {p \in DOMAIN host : host[p] /= Dir /\ Access(View(Platform), p) = "write"}
     IN  \E own \in {{}} \cup {{key} : key \in FilesMade}, link \in {<<>>} \cup LinksMade,
            unlinked \in SUBSET DOMAIN Placed(Free), changed \in SUBSET open :
           /\ Hidden(Platform, WorkspaceDir) => own = {} /\ link = <<>> /\ unlinked = {}
           /\ own = {} \/ link = <<>>
           /\ host' = [p \in DOMAIN HostSynced |->
                         IF p \in changed THEN written ELSE HostSynced[p]]
           /\ links' = Merge(Without(Placed(Free), unlinked \cup Gone(link, DOMAIN Placed(Free))), link)
           /\ dirs' = (DirsSynced \ Gone(link, DirsSynced))
                       \cup UNION {StrictPrefixes(key) : key \in own \cup DOMAIN link}
           /\ synced' = Merge(Without(InPlace, Gone(link, DOMAIN InPlace)), [key \in own |-> written])
           /\ strayed' = strayed \cup Range(link)
           /\ \/ Push(synced')
              \/ LimitReached /\ UNCHANGED <<line, now>>
  /\ UNCHANGED <<overlays, fetching, settings>>

Next ==
  \/ EditConfig \/ Rollback \/ WriteFile \/ InstallPackage \/ ExtractText
  \/ \E f \in Fetchers : BeginFetch(f) \/ FetchDone(f) \/ FetchFails(f)
  \/ Mount \/ Export \/ DeleteFromHost
  \/ SyncFails \/ LinkFails \/ Bash

Spec == Init /\ [][Next]_vars

-----------------------------------------------------------------------------
(***************************************************************************)
(* Properties.                                                             *)
(***************************************************************************)
Content(files, key) == IF key \in DOMAIN files THEN files[key] ELSE Dir

\* Every manifest in every checkpoint tells the truth about the files next to it:
\* they are what the same session_fetch got from the URLs it names, each asset of
\* the page is fetched, skipped or failed, whichever calls overlapped or were
\* rolled back.  (A page that is itself called manifest.json is lost.)
TellsTrue(files, key) ==
  LET told == files[key] IN
  /\ told.saved_to /= key =>
       Content(files, told.saved_to) = Body(told.source.url, told.call)
  /\ \A asset \in told.assets : Content(files, asset.saved_to) = Body(asset.url, told.call)
  /\ {asset.url : asset \in told.assets} \cup told.skipped \cup told.failed =
       {el.url : el \in {e \in Range(told.source.elements) :
                           told.source.html /\ e.tag /= "other" /\ e.url /= NoUrl}}
BundlesWhole ==
  \A i \in DOMAIN line : \A key \in DOMAIN line[i] :
    line[i][key].kind = "manifest" => TellsTrue(line[i], key)

\* Whoever reads a file in pieces gets all of it and each byte once, unless the limit is 0,
\* with which there is more for ever; of an output too, unless a piece ends inside of a
\* character, which panics.  A search, of the whole or of a piece, finds the very lines
\* that match, whether they end with LF, CR LF or nothing, numbered from where the piece
\* begins; reading on from a line's byte_offset, to which the caller has to add where the
\* piece began, gives what begins with that line (session_read_file,
\* checkpoint_read_stdstreams, TextParserUtilities::grep).  A fact of the operators in
\* Pages.tla, of no state: it is looked at in the first ones.
PagesJoin == calls = 0 => PiecesJoin /\ SearchFinds

\* Where the session and its commands are at home.
Own(path) == \E dir \in {WorkspaceDir, ScratchDir} : IsPrefix(dir, path)

\* Named by a value that mount_allowlist has had.
Admits(p) == {} \in admitted \/ \E prefix \in UNION admitted : IsPrefix(prefix, p)

\* At or below what a command has linked to.
Strayed(p) == \E to \in strayed : IsPrefix(to, p)

\* Unless mount_allowlist was empty at some time, nothing on the host changes outside
\* of the directories it named at some time and the session's own, whether by an
\* export, a deletion, a command or a checkpoint written through an overlay's link
\* (directories that have to be made are none; on macOS a command may write in /tmp)
\* - unless a command has made a link of its own to it: sync_to writes a checkpoint's
\* files through that too, and removes them there, wherever it leads.
HostInBounds ==
  [][\A p \in DOMAIN host \cup DOMAIN host' :
       Content(host, p) /= Content(host', p) \/ (p \in DOMAIN host /\ p \notin DOMAIN host') =>
         \/ Admits(p) \/ Own(p) \/ Strayed(p)
         \/ Platform = "macos" /\ IsPrefix(Tmp, p)]_vars

\* The packages of the installs are where commands look for them.
PackagesFound(files) ==
  \A key \in DOMAIN files :
    files[key].kind = "package" =>
      \E dir \in WorkspaceEnvVars(WorkspaceDir) :
        IsPrefix(dir, WorkspaceDir \o key) /\ Len(dir) + 1 = Len(WorkspaceDir) + Len(key)

\* On either platform, whatever the configuration and earlier mounts put into it.
Home(view, platform, dir) ==
  Access(view, dir) = IF Hidden(platform, dir) THEN "private" ELSE "write"
ViewsSafe(platform) ==
  LET view == View(platform)  install == InstallView(platform) IN
  /\ Home(view, platform, WorkspaceDir) /\ Home(view, platform, ScratchDir)
  /\ \A path \in Range(overlays) \cap DOMAIN host :
       \/ Access(view, path) = "read"
       \/ (Own(path) \/ IsPrefix(Tmp, path)) /\ Access(view, path) /= "none"
  /\ Home(install, platform, StagingDir)
  /\ Access(install, WorkspaceDir) = "write" => platform = "macos" /\ IsPrefix(Tmp, WorkspaceDir)
  /\ \A i \in DOMAIN view : view[i].access = "read" => view[i].paths \subseteq DOMAIN host

\* A command can write in its workspace and scratch directories, whatever else the
\* configuration and earlier mounts put into its view, unless the temporary directory
\* is under /tmp: there Linux shows it an empty directory instead, and the files of
\* the checkpoint are nowhere to be seen.  It can read every overlay that is there,
\* without being able to write to it (unless it is in one of those, or under /tmp,
\* which macOS lets it write); no mount lacks its source.
\* An install, which has the network, can write in its staging directory, with the
\* same exception, and does not write in the workspace, unless that is under /tmp on
\* macOS.  A command that sees its workspace finds the packages of all the installs
\* its checkpoint has.
CommandsAtHome ==
  /\ now \in DOMAIN line /\ Len(line) <= MaxCheckpoints
  /\ \A platform \in {"linux", "macos"} : ViewsSafe(platform)
  /\ PackagesFound(Files)
=============================================================================
