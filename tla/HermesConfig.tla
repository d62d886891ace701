---------------------------- MODULE HermesConfig ----------------------------
(***************************************************************************)
(* The edits of ~/.hermes/config.yaml, made on lines without a YAML        *)
(* parser, and what the lines mean to one.                                 *)
(*                                                                         *)
(* A line is its indentation and its text.  Item lines, `    - x`, have    *)
(* the toolset as their text.  drun's entry is its key and one line for    *)
(* the url and headers below it.                                           *)
(***************************************************************************)
EXTENDS Naturals, FiniteSets, SequencesExt

CONSTANTS
  Toolsets,    \* what the items of lists are
  Texts,       \* keys of the user
  Required     \* REQUIRED_TOOLSETS, a sequence of toolsets

ASSUME RequiredAssumption == Required \in Seq(Toolsets) /\ IsInjective(Required)

Line(indent, text) == [indent |-> indent, text |-> text]
Blank == Line(0, "")
Servers == Line(0, "mcp_servers:")
DrunKey == Line(2, "drun:")
Url == Line(4, "url:")
Agent == Line(0, "agent:")
DisabledKey == Line(2, "disabled_toolsets:")
Item(t) == Line(4, t)
Lines == {Blank, Servers, DrunKey, Url, Agent, DisabledKey}
           \cup {Line(d, t) : d \in {0, 2, 4}, t \in Texts} \cup {Item(t) : t \in Toolsets}

ASSUME TextsAssumption ==
  {"", "mcp_servers:", "drun:", "url:", "agent:", "disabled_toolsets:"}
    \cap (Texts \cup Toolsets) = {} /\ Texts \cap Toolsets = {}

-----------------------------------------------------------------------------
(***************************************************************************)
(* The line surgery.                                                       *)
(***************************************************************************)
Take(lines, n) == SubSeq(lines, 1, n)
Drop(lines, n) == SubSeq(lines, n + 1, Len(lines))
Below(lines) == lines \o (IF lines = <<>> THEN <<>> ELSE <<Blank>>)

\* The first line after `from` that is Stop, or the end of the file.
EndOf(lines, from, Stop(_)) ==
  LET at == SelectInSubSeq(lines, from + 1, Len(lines), Stop)
  IN IF at = 0 THEN Len(lines) + 1 ELSE at

HasMcpEntry(lines) == Contains(lines, DrunKey)

\* Mutant: the entry goes one line too high.
InsertsAbove(lines) ==
  LET at == SelectInSeq(lines, LAMBDA l : l = Servers)
      entry == <<DrunKey, Url>>
  IN IF HasMcpEntry(lines) THEN lines
     ELSE IF at = 0 THEN Below(lines) \o <<Servers>> \o entry
     ELSE Take(lines, at - 1) \o entry \o Drop(lines, at - 1)

MergeMcpEntry(lines) ==
  LET at == SelectInSeq(lines, LAMBDA l : l = Servers)
      entry == <<DrunKey, Url>>
  IN IF HasMcpEntry(lines) THEN lines
     ELSE IF at = 0 THEN Below(lines) \o <<Servers>> \o entry
     ELSE Take(lines, at) \o entry \o Drop(lines, at)

\* Skipping after drun's key what Inner takes for its content.
WithoutEntry(lines, Inner(_)) ==
  FoldLeft(LAMBDA acc, l :
             IF l = DrunKey THEN [acc EXCEPT !.skipping = TRUE]
             ELSE IF acc.skipping /\ Inner(l) THEN acc
             ELSE [out |-> Append(acc.out, l), skipping |-> FALSE],
           [out |-> <<>>, skipping |-> FALSE], lines).out

\* Mutant: lines as deep as the key itself are taken for its content.
RemovesSiblings(lines) == WithoutEntry(lines, LAMBDA l : l = Blank \/ l.indent >= 2)

\* The key and what follows it that is deeper, or blank.
RemoveMcpEntry(lines) == WithoutEntry(lines, LAMBDA l : l = Blank \/ l.indent >= 3)

AgentStart(lines) == SelectInSeq(lines, LAMBDA l : l = Agent)
AgentEnd(lines) == EndOf(lines, AgentStart(lines), LAMBDA l : l /= Blank /\ l.indent < 2)

\* disabled_toolsets of the agent block; 0 when there is none.
DisabledPos(lines) ==
  IF AgentStart(lines) = 0 THEN 0
  ELSE SelectInSubSeq(lines, AgentStart(lines) + 1, AgentEnd(lines) - 1,
                      LAMBDA l : l = DisabledKey)

ListEnd(lines) ==
  EndOf(lines, DisabledPos(lines), LAMBDA l : l /= Blank /\ l \notin {Item(t) : t \in Toolsets})
ListOf(lines) == SubSeq(lines, DisabledPos(lines) + 1, ListEnd(lines) - 1)

ItemsOf(toolsets) == [i \in DOMAIN toolsets |-> Item(toolsets[i])]

\* Mutant: the whole list is added when one toolset of it is missing.
MergesWholeList(lines) ==
  LET pos == DisabledPos(lines)
      list == <<DisabledKey>> \o ItemsOf(Required)
      end == ListEnd(lines) - 1
  IN IF AgentStart(lines) = 0 THEN Below(lines) \o <<Agent>> \o list
     ELSE IF pos = 0 THEN Take(lines, AgentStart(lines)) \o list \o Drop(lines, AgentStart(lines))
     ELSE Take(lines, end) \o ItemsOf(Required) \o Drop(lines, end)

MergeDisabledToolsets(lines) ==
  LET pos == DisabledPos(lines)
      list == <<DisabledKey>> \o ItemsOf(Required)
      new == SelectSeq(Required, LAMBDA t : ~Contains(ListOf(lines), Item(t)))
      end == ListEnd(lines) - 1
  IN IF AgentStart(lines) = 0 THEN Below(lines) \o <<Agent>> \o list
     ELSE IF pos = 0 THEN Take(lines, AgentStart(lines)) \o list \o Drop(lines, AgentStart(lines))
     ELSE Take(lines, end) \o ItemsOf(new) \o Drop(lines, end)

\* The list goes with its last line.
RemoveDisabledToolsets(lines) ==
  LET pos == DisabledPos(lines)
      remaining == SelectSeq(ListOf(lines), LAMBDA l : ~Contains(ItemsOf(Required), l))
  IN IF pos = 0 \/ remaining = ListOf(lines) THEN lines
     ELSE Take(lines, pos - 1) \o (IF remaining = <<>> THEN <<>> ELSE <<DisabledKey>> \o remaining)
            \o Drop(lines, ListEnd(lines) - 1)

-----------------------------------------------------------------------------
(***************************************************************************)
(* What a YAML parser makes of the lines: every line with the keys it is   *)
(* under.  Reference for the surgery, which does not build it.             *)
(***************************************************************************)
Parent(lines, i) ==
  LET above == {j \in 1 .. i - 1 : lines[j] /= Blank /\ lines[j].indent < lines[i].indent}
  IN IF above = {} THEN 0 ELSE Max(above)

Key(lines, i) == IF i = 0 THEN "" ELSE lines[i].text

Meaning(lines) ==
  { LET p == Parent(lines, i) IN
      <<IF p = 0 THEN "" ELSE Key(lines, Parent(lines, p)), Key(lines, p), Key(lines, i)>> :
    i \in {j \in DOMAIN lines : lines[j] /= Blank} }

DrunEntries == {<<"", "mcp_servers:", "drun:">>, <<"mcp_servers:", "drun:", "url:">>}
DisabledEntries == {<<"agent:", "disabled_toolsets:", Required[i]>> : i \in DOMAIN Required}
ServersHeader == <<"", "", "mcp_servers:">>
AgentHeader == <<"", "", "agent:">>
Headers == {ServersHeader, AgentHeader, <<"", "agent:", "disabled_toolsets:">>}

\* What the config says besides what drun puts into it.
Foreign(lines) == Meaning(lines) \ (DrunEntries \cup DisabledEntries \cup Headers)
=============================================================================
