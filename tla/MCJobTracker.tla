---------------------------- MODULE MCJobTracker ----------------------------
(* Small instances of JobTracker for TLC.                                  *)
EXTENDS JobTracker, TLC

(* Requests, drain calls and workers are interchangeable.                  *)
Symmetry ==
  Permutations(Leases) \cup Permutations(Drainers) \cup Permutations(Workers)
=============================================================================
