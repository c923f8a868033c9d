CONSTANTS
  Thread = {m, w}
  main = m
  Signals <- MCSignals
  MaxSent = 2
SPECIFICATION Spec
INVARIANTS TypeOK OneSignalIsClean OriginalsRestored
PROPERTIES SignalTerminates
CHECK_DEADLOCK FALSE
