CONSTANTS
  Leases = {r1, r2}
  Drainers = {}
  Workers = {w1}
  Clients = {c1}
  JobIds = {i1}
  MaxTracked = 1
  NoLease = NoLease
  NoJob = NoJob
SPECIFICATION Spec
INVARIANT HandOffIsCounted
