SPECIFICATION Spec
CONSTANTS
  MaxForks = 3
  Pids = {5, 6, 7}
  Root = 5
  Host = 6
INVARIANTS
  ProgramKeepsWorking
  HookedOnceInstalled
  ViewExact
PROPERTY
  StartReturns
CHECK_DEADLOCK FALSE
