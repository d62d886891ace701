CONSTANTS
  Toolsets = {"terminal", "file", "vision"}
  Texts = {"x", "y", "z"}
  Required <- MCRequired
  Projects = {p1, p2}
  ClaudeDeny <- MCClaudeDeny
  ClaudeAllow <- MCClaudeAllow
  GeminiExcluded <- MCGeminiExcluded
  AgentSettings <- MCAgentSettings
  HandLines <- MCHandLines
  Entries <- MCEntries
  Absent = Absent
  Bad = Bad
  Unreadable = Unreadable
  MaxCommands = 3
SPECIFICATION BridgesSpec
CHECK_DEADLOCK FALSE
INVARIANT CommandsTakeEffect
PROPERTIES Idempotent UsersEntriesStay
SYMMETRY Symmetry
