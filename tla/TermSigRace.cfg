CONSTANTS
  Thread = {m, w}
  main = m
  Signals <- MCSignals
  MaxSent = 2
SPECIFICATION Spec
INVARIANT ExitHandlersCalled
CHECK_DEADLOCK FALSE
