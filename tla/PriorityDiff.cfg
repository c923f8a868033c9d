CONSTANTS
  Thread = {"a", "w"}
  Shell = {"a"}
  Names = {"w", "1"}
  Numbered <- MCNumbered
  Lists <- MCLists
  Prios <- MCPrios
  Diffs <- MCDiffs
  NCpu = 3
SPECIFICATION Spec
INVARIANT NoDiffNoShift
