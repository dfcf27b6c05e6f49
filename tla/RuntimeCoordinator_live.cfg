CONSTANTS
  Services = {sharing}
  ServerSharing = sharing
  Callers = {c1, c2}
  Tasks = {t1, t2}
  NoTask = NoTask
  NoCaller = NoCaller
  StuckTasks = TRUE
SPECIFICATION Spec
CHECK_DEADLOCK FALSE
PROPERTY CallsReturn
