------------------------------ MODULE Bridges ------------------------------
(***************************************************************************)
(* `drun-mcp <bridge> init` and `deregister`: the files of an agent's own  *)
(* configuration that they edit, of the project, and of drun's home, with  *)
(* commands that are killed or fail half way and users who edit the files  *)
(* between them.                                                           *)
(*                                                                         *)
(* claude and gemini have a settings file in each project and a register   *)
(* of servers behind their command line; codex and hermes one config file  *)
(* per machine.  The bridges have only drun's home in common, so a         *)
(* behaviour is about one of them.                                         *)
(***************************************************************************)
EXTENDS HermesConfig

CONSTANTS
  Projects,
  ClaudeDeny, ClaudeAllow,  \* Claude::REQUIRED_DENY and REQUIRED_ALLOW
  GeminiExcluded, \* Gemini::EXCLUDED_TOOLS
  AgentSettings,  \* AgentSettings[b]: the hand-written settings of a JSON bridge
  HandLines,      \* hand-written Hermes configs
  Entries,        \* what the lists of settings may have
  Absent,         \* no such file, key or list
  Bad,            \* not to be parsed, or no object, table or list where one is needed
  Unreadable,     \* a file that is there and cannot be read
  MaxCommands     \* bound: commands and edits of one behaviour

Json == {"claude", "gemini"}
Bridge == Json \cup {"codex", "hermes"}

Names == {"drun", "drun-dev", "other"}
Off == "off"                \* features.shell_tool
CodexConfig == [servers : (SUBSET {"drun", "other"}) \cup {Bad}, shell : {"unset", "on", Off, Bad}]
EmptyConfig == [servers |-> {}, shell |-> "unset"]

\* What each JSON bridge needs in each of its lists: its own tools blocked, and at
\* claude the server's allowed.
ClaudeLists == [deny |-> ClaudeDeny, allow |-> ClaudeAllow]
GeminiLists == [excludeTools |-> GeminiExcluded]
RequiredList == [b \in Json |-> IF b = "claude" THEN ClaudeLists ELSE GeminiLists]
SettingsOf(b) == [DOMAIN RequiredList[b] -> {Absent, Bad} \cup Seq(Entries)]

ASSUME BridgesAssumption ==
  /\ MaxCommands \in Nat
  /\ \A b \in Json :
       /\ \A k \in DOMAIN RequiredList[b] : RequiredList[b][k] \in Seq(Entries)
       /\ AgentSettings[b] \subseteq SettingsOf(b)
       /\ {Absent, Bad} \cap SettingsOf(b) = {}
  /\ {Absent, Bad} \cap Seq(Entries) = {} /\ Absent \notin Seq(Projects)
  /\ \A c \in CodexConfig : c \notin {Absent, Bad, Unreadable}
  /\ Absent /= Bad /\ Bad /= Unreadable
  /\ Bad \notin {"unset", "on", Off} /\ \A names \in SUBSET {"drun", "other"} : names /= Bad

\* What line surgery takes for granted: two spaces a level, and no key `drun` but
\* under mcp_servers.
ASSUME HandLinesAssumption ==
  \A lines \in HandLines :
    /\ lines \in Seq(Lines)
    /\ \A i \in DOMAIN lines : lines[i] = DrunKey => Key(lines, Parent(lines, i)) = "mcp_servers:"

VARIABLES
  bridge,        \* the bridge the behaviour is about
  instructions,  \* projects that have the bridge's CLAUDE.md, AGENTS.md, ...
  mounts,        \* mount_allowlist of config.toml, Absent without the file
  registry,      \* the lines of ~/.drun/projects
  settings,      \* .claude/settings.json or .gemini/settings.json of each project
  servers,       \* names registered with the agent's command line
  codex,         \* ~/.codex/config.toml
  hermes,        \* ~/.hermes/config.yaml
  cmd,           \* the command that runs
  count,         \* commands and edits so far
  inited,        \* projects whose last init went well, with nothing else since
  deregistered,  \* the last command was a deregister that went well
  torn           \* a write of the Hermes config broke off, and the user has not
                 \* written it anew

agentFiles == <<instructions, mounts, registry, settings, servers, codex, hermes>>
bridgesVars == <<bridge, agentFiles, cmd, count, inited, deregistered, torn>>

NoCmd == [op |-> "none", dir |-> Absent, at |-> "", well |-> TRUE]

BridgesTypeOK ==
  /\ bridge \in Bridge
  /\ instructions \subseteq Projects
  /\ mounts = Absent \/ (mounts \in Seq(Projects) /\ IsInjective(mounts))
  /\ registry \in Seq(Projects) /\ IsInjective(registry)
  /\ settings \in [Projects -> {Absent, Bad} \cup IF bridge \in Json THEN SettingsOf(bridge) ELSE {}]
  /\ servers \subseteq Names
  /\ codex \in {Absent, Bad, Unreadable} \cup CodexConfig
  /\ hermes \in {Absent, Unreadable} \/ hermes \in Seq(Lines)
  /\ cmd = NoCmd \/ cmd \in [op : {"init", "deregister"}, dir : Projects, well : BOOLEAN,
        at : {"instructions", "mount", "registry", "settings", "cli", "codex", "mcp", "toolsets"}]
  /\ count \in 0 .. MaxCommands
  /\ inited \subseteq Projects
  /\ deregistered \in BOOLEAN /\ torn \in BOOLEAN

BridgesInit ==
  /\ bridge \in Bridge
  /\ instructions \in SUBSET Projects
  /\ mounts \in {Absent, <<>>}
  /\ registry = <<>>
  /\ settings \in IF bridge \in Json THEN [Projects -> AgentSettings[bridge] \cup {Absent, Bad}]
                  ELSE {[p \in Projects |-> Absent]}
  /\ servers \in IF bridge \in Json THEN {{}, {"other"}, {"drun-dev"}} ELSE {{}}
  /\ codex \in IF bridge = "codex" THEN {Absent, Bad, Unreadable} \cup CodexConfig ELSE {Absent}
  /\ hermes \in IF bridge = "hermes" THEN {Absent, Unreadable} \cup HandLines ELSE {Absent}
  /\ cmd = NoCmd /\ count = 0
  /\ inited = {} /\ deregistered = FALSE /\ torn = FALSE

-----------------------------------------------------------------------------
(***************************************************************************)
(* The course of a command.                                                *)
(***************************************************************************)
StartCommand(op, first, p) ==
  /\ cmd = NoCmd /\ count < MaxCommands
  /\ cmd' = [op |-> op, dir |-> p, at |-> first, well |-> TRUE]
  /\ count' = count + 1
  /\ inited' = IF op = "init" THEN inited ELSE {}
  /\ deregistered' = FALSE
  /\ UNCHANGED <<bridge, agentFiles, torn>>

BeginInit(p) == StartCommand("init", "instructions", p)
BeginDeregister(p) ==
  StartCommand("deregister", CASE bridge \in Json -> "cli" [] bridge = "codex" -> "codex" [] OTHER -> "mcp", p)

At(op, place) == cmd.op = op /\ cmd.at = place
GoOn(place, well) ==
  /\ cmd' = [cmd EXCEPT !.at = place, !.well = @ /\ well]
  /\ UNCHANGED <<bridge, count, inited, deregistered>>

Finish(well) ==
  /\ cmd' = NoCmd
  /\ inited' = IF cmd.op /= "init" THEN {} ELSE IF cmd.well /\ well THEN inited \cup {cmd.dir} ELSE {}
  /\ deregistered' = (cmd.op = "deregister" /\ cmd.well /\ well)
  /\ UNCHANGED <<bridge, count>>

\* The command panics or is killed.
Break == cmd' = NoCmd /\ inited' = {} /\ deregistered' = FALSE /\ UNCHANGED <<bridge, count>>
Killed == cmd /= NoCmd /\ Break /\ UNCHANGED <<agentFiles, torn>>

\* The first step of a bridge after init_common.
Own == CASE bridge \in Json -> "settings" [] bridge = "codex" -> "codex" [] OTHER -> "mcp"

WriteProjectInstructions ==
  /\ At("init", "instructions")
  /\ IF cmd.dir \in instructions THEN UNCHANGED instructions /\ GoOn("mount", TRUE)
     ELSE \/ instructions' = instructions \cup {cmd.dir} /\ GoOn("mount", TRUE)
          \/ instructions' \in {instructions, instructions \cup {cmd.dir}} /\ GoOn("mount", FALSE)
  /\ UNCHANGED <<mounts, registry, settings, servers, codex, hermes, torn>>

\* An edit of the config that cannot be written leaves it alone.
AllowMountPath ==
  /\ At("init", "mount")
  /\ IF mounts = Absent \/ Contains(mounts, cmd.dir)
     THEN UNCHANGED mounts /\ GoOn("registry", TRUE)
     ELSE \/ mounts' = Append(mounts, cmd.dir) /\ GoOn("registry", TRUE)
          \/ UNCHANGED mounts /\ GoOn("registry", FALSE)
  /\ UNCHANGED <<instructions, registry, settings, servers, codex, hermes, torn>>

RegisterProject ==
  /\ At("init", "registry")
  /\ IF Contains(registry, cmd.dir) THEN UNCHANGED registry ELSE registry' = Append(registry, cmd.dir)
  /\ GoOn(Own, TRUE)
  /\ UNCHANGED <<instructions, mounts, settings, servers, codex, hermes, torn>>

-----------------------------------------------------------------------------
(***************************************************************************)
(* claude and gemini.                                                      *)
(***************************************************************************)
\* merge_string_array pushes what the list lacks, one after the other.
PushNew(list, entry) == IF entry \in Range(list) THEN list ELSE Append(list, entry)
PushMissing(list, required) ==
  LET pushed[n \in 0 .. Len(required)] ==
        IF n = 0 THEN list ELSE PushNew(pushed[n - 1], required[n])
  IN  pushed[Len(required)]

\* Each list; it is Absent when it has no key.
Merged(old) ==
  [k \in DOMAIN old |->
     PushMissing(IF old[k] = Absent THEN <<>> ELSE old[k], RequiredList[bridge][k])]

Mergeable(old) == old /= Bad /\ \A k \in DOMAIN old : old[k] /= Bad

\* What cannot be merged as a whole stays as it is.
MergeSettings(old) == IF Mergeable(old) THEN Merged(old) ELSE old

Save(p, new) == settings' = [settings EXCEPT ![p] = new]

\* The file is written in place: it is torn if the write breaks off.
WriteSettings ==
  /\ At("init", "settings")
  /\ LET p == cmd.dir
         new == IF settings[p] = Absent THEN RequiredList[bridge]
                ELSE MergeSettings(settings[p])
     IN \/ /\ new = settings[p] /\ UNCHANGED settings
           /\ GoOn("cli", Mergeable(settings[p]))
        \/ new /= settings[p] /\ Save(p, new) /\ GoOn("cli", TRUE)
        \/ new /= settings[p] /\ Save(p, Bad) /\ Break
  /\ UNCHANGED <<instructions, mounts, registry, servers, codex, hermes, torn>>

\* cli_mcp_is_registered: a name that begins like drun's.
IsRegistered == servers \cap {"drun", "drun-dev"} /= {}

\* The agent's command line is not there: init says what to do by hand.
CliMissing ==
  /\ cmd.at = "cli"
  /\ UNCHANGED servers
  /\ Finish(FALSE)
  /\ UNCHANGED <<instructions, mounts, registry, settings, codex, hermes, torn>>

\* It may fail; one that cannot list its servers cannot add one either.
RegisterCli ==
  /\ At("init", "cli")
  /\ \/ IsRegistered /\ UNCHANGED servers /\ Finish(TRUE)
     \/ ~IsRegistered /\ servers' = servers \cup {"drun"} /\ Finish(TRUE)
     \/ UNCHANGED servers /\ Finish(FALSE)
  /\ UNCHANGED <<instructions, mounts, registry, settings, codex, hermes, torn>>

DeregisterCli ==
  /\ At("deregister", "cli")
  /\ \/ servers' = servers \ {"drun"} /\ Finish(TRUE)
     \/ UNCHANGED servers /\ Finish(FALSE)
  /\ UNCHANGED <<instructions, mounts, registry, settings, codex, hermes, torn>>

-----------------------------------------------------------------------------
(***************************************************************************)
(* codex.                                                                  *)
(***************************************************************************)
Loaded == IF codex \in {Absent, Unreadable} THEN EmptyConfig ELSE codex

AddEntry(c) == [c EXCEPT !.servers = IF @ = Bad THEN Bad ELSE @ \cup {"drun"},
                         !.shell = IF @ = Bad THEN Bad ELSE Off]

RemoveEntry(c) == [c EXCEPT !.servers = IF @ = Bad THEN Bad ELSE @ \ {"drun"},
                            !.shell = IF @ = Off THEN "unset" ELSE @]

\* Saved through FileManager::write: as a whole or not at all.
SaveCodex(new, well) ==
  \/ codex' = new /\ Finish(well)
  \/ UNCHANGED codex /\ Finish(FALSE)

\* That a table is no table goes unreported; the command does not count as gone
\* well here.
EditCodex ==
  /\ cmd.at = "codex"
  /\ IF codex = Bad THEN UNCHANGED codex /\ Finish(FALSE)
     ELSE LET new == IF cmd.op = "init" THEN AddEntry(Loaded) ELSE RemoveEntry(Loaded)
          IN IF new = Loaded THEN UNCHANGED codex /\ Finish(Bad \notin {new.servers, new.shell})
             ELSE SaveCodex(new, Bad \notin {new.servers, new.shell})
  /\ UNCHANGED <<instructions, mounts, registry, settings, servers, hermes, torn>>

-----------------------------------------------------------------------------
(***************************************************************************)
(* hermes.                                                                 *)
(***************************************************************************)
Read == IF hermes \in {Absent, Unreadable} THEN <<>> ELSE hermes

Saves(new) == hermes' = new /\ UNCHANGED torn

\* The file is written in place: a write that breaks off leaves the first lines,
\* one that does not even open the file leaves it alone.
WriteBreaks(new) ==
  \/ UNCHANGED <<hermes, torn>>
  \/ hermes' \in {Take(new, n) : n \in 0 .. Len(new) - 1} /\ torn' = TRUE

\* The command line of Hermes is not found: nothing is done.
HermesMissing ==
  /\ At("init", "mcp")
  /\ bridge = "hermes"
  /\ Finish(FALSE)
  /\ UNCHANGED <<agentFiles, torn>>

RegisterMcp ==
  /\ At("init", "mcp")
  /\ IF HasMcpEntry(Read) THEN UNCHANGED <<hermes, torn>> /\ GoOn("toolsets", TRUE)
     ELSE LET new == MergeMcpEntry(Read) IN
          \/ Saves(new) /\ GoOn("toolsets", TRUE)
          \/ WriteBreaks(new) /\ GoOn("toolsets", FALSE)
          \/ WriteBreaks(new) /\ Break
  /\ UNCHANGED <<instructions, mounts, registry, settings, servers, codex>>

RestrictToolsets ==
  /\ At("init", "toolsets")
  /\ LET new == MergeDisabledToolsets(Read) IN
       IF new = Read THEN UNCHANGED <<hermes, torn>> /\ Finish(TRUE)
       ELSE \/ Saves(new) /\ Finish(TRUE)
            \/ WriteBreaks(new) /\ Break
  /\ UNCHANGED <<instructions, mounts, registry, settings, servers, codex>>

DeregisterHermes ==
  /\ At("deregister", "mcp")
  /\ IF hermes \in {Absent, Unreadable} THEN UNCHANGED <<hermes, torn>> /\ Finish(hermes = Absent)
     ELSE LET new == RemoveDisabledToolsets(RemoveMcpEntry(Read)) IN
          IF new = Read THEN UNCHANGED <<hermes, torn>> /\ Finish(TRUE)
          ELSE \/ Saves(new) /\ Finish(TRUE)
               \/ WriteBreaks(new) /\ Break
  /\ UNCHANGED <<instructions, mounts, registry, settings, servers, codex>>

-----------------------------------------------------------------------------
\* The user writes a file anew between two commands.
UserEdits ==
  /\ cmd = NoCmd /\ count < MaxCommands
  /\ count' = count + 1 /\ inited' = {} /\ deregistered' = FALSE
  /\ \/ /\ bridge \in Json
        /\ \E p \in Projects, s \in AgentSettings[bridge] \cup {Absent} : Save(p, s)
        /\ UNCHANGED <<codex, hermes, torn>>
     \/ /\ bridge = "codex" /\ codex' \in CodexConfig
        /\ UNCHANGED <<settings, hermes, torn>>
     \/ /\ bridge = "hermes" /\ hermes' \in HandLines /\ torn' = FALSE
        /\ UNCHANGED <<settings, codex>>
  /\ UNCHANGED <<bridge, instructions, mounts, registry, servers, cmd>>

CommandStep ==
  \/ WriteProjectInstructions \/ AllowMountPath \/ RegisterProject
  \/ WriteSettings \/ CliMissing \/ RegisterCli \/ DeregisterCli
  \/ EditCodex
  \/ HermesMissing \/ RegisterMcp \/ RestrictToolsets \/ DeregisterHermes

BridgesNext ==
  \/ CommandStep \/ Killed \/ UserEdits
  \/ \E p \in Projects : BeginInit(p) \/ BeginDeregister(p)

BridgesSpec == BridgesInit /\ [][BridgesNext]_bridgesVars

-----------------------------------------------------------------------------
(***************************************************************************)
(* Properties.                                                             *)
(***************************************************************************)
Blocked(p) ==
  CASE bridge \in Json -> \A k \in DOMAIN RequiredList[bridge] :
                            Range(RequiredList[bridge][k]) \subseteq Range(settings[p][k])
    [] bridge = "codex" -> codex.shell = Off
    [] bridge = "hermes" -> DisabledEntries \subseteq Meaning(hermes)

Reaches ==
  CASE bridge \in Json -> "drun" \in servers
    [] bridge = "codex" -> "drun" \in codex.servers
    [] bridge = "hermes" -> DrunEntries \subseteq Meaning(hermes)

\* The user has registered a server whose name begins like drun's: init takes it for
\* drun's, reports that it is registered, and registers nothing.
Shadowed == bridge \in Json /\ "drun-dev" \in servers

\* After an init that went well, and whatever inits of other projects and repeated
\* ones come after it, the agent finds the server drun, unless another one is taken
\* for it, and has its own tools blocked, as the parsers of the files see them.  A
\* torn Hermes config may say otherwise.
InitTakesEffect == torn \/ \A p \in inited : Blocked(p) /\ (Reaches \/ Shadowed)

\* After a deregister that went well the agent knows drun no more, and has back its
\* own tools where they were blocked for the whole machine.
DeregisterTakesEffect ==
  deregistered /\ ~torn =>
    CASE bridge \in Json -> "drun" \notin servers
      [] bridge = "codex" -> codex \in CodexConfig =>
                               "drun" \notin codex.servers /\ codex.shell /= Off
      [] bridge = "hermes" -> hermes /= Absent =>
                               Meaning(hermes) \cap (DrunEntries \cup DisabledEntries) = {}

CommandsTakeEffect == BridgesTypeOK /\ InitTakesEffect /\ DeregisterTakesEffect

\* An init that is repeated in a project changes no file, also when inits of other
\* projects came in between.
Idempotent ==
  [][ (cmd.op = "init" /\ cmd.dir \in inited /\ ~torn) => UNCHANGED agentFiles ]_bridgesVars

\* Codex' shell as the user has it.  An init turns it off, an `on` of the user's too, a
\* deregister takes `off` away, one of the user's too: an `on` it leaves alone.
ShellStays ==
  \/ codex'.shell = codex.shell
  \/ cmd.op = "init" /\ codex.shell /= Bad /\ codex'.shell = Off
  \/ cmd.op = "deregister" /\ codex.shell = Off /\ codex'.shell = "unset"

\* Of Hermes' config an init loses nothing, the user's own disabled toolsets among it;
\* a deregister at most what drun puts there, whoever put it: the toolsets of
\* REQUIRED_TOOLSETS that the user had disabled as well, and the list's key with the
\* last of them.
HermesStays ==
  /\ Foreign(hermes') = Foreign(hermes)
  /\ cmd.op = "init" => Meaning(hermes) \subseteq Meaning(hermes')
  /\ Meaning(hermes) \cap {ServersHeader, AgentHeader} \subseteq Meaning(hermes')

\* What the user has in a config that can be read and parsed stays there, whatever
\* the command makes of drun's entries, unless its write breaks off.
KeepsUsers ==
  CASE bridge \in Json ->
         \A p \in Projects : settings[p] \notin {Absent, Bad} /\ settings'[p] /= Bad =>
           \A k \in DOMAIN settings[p] :
             CASE settings[p][k] = Absent -> TRUE
               [] settings[p][k] = Bad -> settings'[p][k] = Bad
               [] OTHER -> IsPrefix(settings[p][k], settings'[p][k])
    [] bridge = "codex" ->
         codex \in CodexConfig =>
           /\ codex.servers /= Bad => codex.servers \ {"drun"} = codex'.servers \ {"drun"}
           /\ codex.servers = Bad => codex'.servers = Bad
           /\ ShellStays
    [] bridge = "hermes" -> hermes \notin {Absent, Unreadable} /\ ~torn' => HermesStays

UsersEntriesStay == [][ cmd /= NoCmd => KeepsUsers ]_bridgesVars
=============================================================================
