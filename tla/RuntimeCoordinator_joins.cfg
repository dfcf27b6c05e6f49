CONSTANTS
  Services = {sharing, proxy}
  ServerSharing = sharing
  Callers = {c1}
  Tasks = {t1, t2}
  NoTask = NoTask
  NoCaller = NoCaller
  StuckTasks = FALSE
SPECIFICATION Spec
CHECK_DEADLOCK FALSE
PROPERTY ShutdownJoinsAll
