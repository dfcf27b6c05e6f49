CONSTANTS
  Services = {sharing, proxy}
  ServerSharing = sharing
  Callers = {c1, c2}
  Tasks = {t1, t2}
  NoTask = NoTask
  NoCaller = NoCaller
  StuckTasks = TRUE
SPECIFICATION MCSpec
CHECK_DEADLOCK FALSE
SYMMETRY Symmetry
INVARIANT LiveIsReal OwnershipInv SoleCallsAgree
PROPERTY OwnershipRefined
