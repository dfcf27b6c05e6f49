CONSTANTS
  Leases = {r1, r2}
  Drainers = {d1}
  Workers = {w1}
  Clients = {c1, c2}
  JobIds = {i1}
  MaxTracked = 1
  NoLease = NoLease
  NoJob = NoJob
SPECIFICATION MCSpec
INVARIANT ActiveJobsAreLeased EveryLeaseHasOneOwner ProcessingIsSent ProxyKeepsLeases
PROPERTY AbandonedJobsLeave
