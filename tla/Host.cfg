SPECIFICATION MCSpec
CONSTANTS
  Requests = {r1, r2}
  Terminal = {r2}
  Nobody = Nobody
  Self = self
  Pids = {p1, p2}
  MaxSpawns = 2
  Imports = {i1, i2}
  MaxLaunches = 3
  MaxForeign = 1
  MaxChoices = 2
  OwnQueues = {"own"}
  OtherQueues = {"others"}
  Ports = {"tcp", "udp"}
  WindowsRules <- MCWindowsRules
  FirewalldRules <- MCFirewalldRules
  UfwRules <- MCUfwRules
  MaxChanges = 1
  Mutations <- MCMutations
  Hyphened = {"-y", "--socket", "--json", "--stdin"}
  Numerals = {"5"}
  Socket = "/run/shaprint/shaprintd.sock"
INVARIANTS QueueDone ServingIsReachable LeftIsNamed UsersChoicesStay OnlyStaleIsEnded AnswersAreTrue NamesAreKept
PROPERTY QueueStays
CHECK_DEADLOCK FALSE
