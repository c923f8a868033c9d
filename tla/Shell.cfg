CONSTANTS
  Shells = {main, telnet}
  Main = main
  Resources = {"f", "n"}
  Unit <- MCUnit
  RlimValues = 4
  Meaning <- MCMeaning
  Joined <- MCJoined
  Long = {"long"}
  Typed <- MCTyped
  Listing <- MCListing
  Shown = "limits"
  Files <- MCFiles
  ReadOnly = {"ro"}
  Directories = {"d"}
  Filling = {"full"}
  MaxSignals = 2
  MaxDepth = 6
  Sessions <- MCSessions
  Contents <- MCContents
  InitialLimits <- MCLimits
SPECIFICATION Spec
INVARIANTS TypeOK CommandsKeepPromise StreamsClosed LimitsAsAsked SleepsAsAsked
PROPERTIES StdoutRestored CommandReturns
