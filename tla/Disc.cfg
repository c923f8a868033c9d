CONSTANTS
  Path <- MCPath
  InitialTrees <- MCTrees
  Hidden = {".h"}
  Reads <- MCReads
  Shell = {"s1"}
  Commands <- MCCommands
SPECIFICATION Spec
INVARIANTS TypeOK AllAskedRemoved
PROPERTIES OnlyAskedRemoved RmReturns
