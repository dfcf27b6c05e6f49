CONSTANTS
  Daemons = {d1, d2}
  Connections = {c1, c2}
  Addressed = {d1}
  Nobody = Nobody
  MaxJobs = 1
SPECIFICATION Spec
INVARIANT StopsIdle OneDaemon
PROPERTY DaemonEnds
