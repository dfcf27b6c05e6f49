CONSTANTS
  Daemons = {d1}
  Connections = {c1}
  Addressed = {d1}
  Nobody = Nobody
  MaxJobs = 1
SPECIFICATION Spec
INVARIANT DrainRestoresAdmission
