CONSTANTS
  Leases = {r1, r2}
  Drainers = {d1, d2}
  Workers = {w1, w2}
SPECIFICATION Spec
INVARIANT NoLostWakeup RestartExclusive
