CONSTANTS
  Leases = {r1, r2}
  Checkers = {background, manual}
  Background = background
  Requesters = {u1}
  Worker = worker
  NoChecker = NoChecker
SPECIFICATION MCSpec
CHECK_DEADLOCK FALSE
INVARIANT InstallExclusive
PROPERTY UnattendedIsReal AdmissionReturns UpdateApplied
