----------------------------- MODULE MCBridges -----------------------------
(* Bridges with two projects; of each agent's lists as much as tells their *)
(* entries apart.                                                          *)
EXTENDS Bridges, TLC

MCRequired == <<"terminal", "file">>
MCClaudeDeny == <<"Bash", "Edit">>
MCClaudeAllow == <<"mcp__drun__*">>
MCGeminiExcluded == <<"ShellTool", "EditTool">>
MCEntries ==
  {"Bash", "Edit", "mcp__drun__*", "ShellTool", "EditTool", "mine"}

\* Without lists, with a part of what is needed and something else, and with
\* something that is no list.
MCAgentSettings ==
  "claude" :> { [deny |-> Absent, allow |-> Absent],
                [deny |-> <<"Edit", "mine">>, allow |-> <<>>],
                [deny |-> <<"mine">>, allow |-> Bad] }
  @@ "gemini" :> { [excludeTools |-> Absent], [excludeTools |-> <<"EditTool", "mine">>],
                   [excludeTools |-> Bad] }

\* Sections in two orders: no server, one, drun's before and after another;
\* no agent, one without a list, with a list of the user's in front of or behind
\* other keys.
Entry == <<Line(2, "x"), Line(4, "y")>>
ServerSections ==
  { <<>>, <<Servers>> \o Entry, <<Servers, DrunKey, Url>> \o Entry,
    <<Servers>> \o Entry \o <<DrunKey, Url, Blank>> }
AgentSections ==
  { <<>>, <<Agent, Line(2, "x")>>,
    <<Agent, DisabledKey, Item("vision"), Blank, Line(2, "x")>>,
    <<Agent, Line(2, "x"), DisabledKey, Item("file")>> }
OtherSection == <<Line(0, "z")>> \o Entry

MCHandLines ==
  UNION { { s \o OtherSection \o a, a \o s \o OtherSection } :
          s \in ServerSections, a \in AgentSections }

Symmetry == Permutations(Projects)
=============================================================================
