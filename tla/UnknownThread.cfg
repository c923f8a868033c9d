CONSTANTS
  Thread = {"a", "w"}
  Shell = {"a"}
  Names = {"w", "1", "nobody"}
  Numbered <- MCNumbered
  Lists <- MCLists
  Prios <- MCPrios
  Diffs <- MCDiffs
  NCpu = 3
SPECIFICATION Spec
PROPERTY UnknownChangesNothing
