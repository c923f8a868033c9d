CONSTANTS
  Thread = {"a", "b", "w"}
  Shell = {"a", "b"}
  Names = {"w", "1"}
  Numbered <- MCNumbered
  Lists <- MCLists
  Prios <- MCPrios
  Diffs <- MCDiffs
  NCpu = 3
SPECIFICATION Spec
INVARIANTS TypeOK PrintedListReadsBack AffinityAsAsked ErrVerboseRestored
