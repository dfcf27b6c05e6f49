CONSTANTS
  Leases = {r1}
  Drainers = {d1, d2}
  Workers = {}
SPECIFICATION Spec
SYMMETRY Symmetry
INVARIANT DrainHolds
