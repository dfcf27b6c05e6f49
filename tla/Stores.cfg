SPECIFICATION MCSpec
SYMMETRY Symmetry
CONSTANTS
  Requests = {r1, r2}
  Addresses = {a1, a2}
  Certs = {f1, f2}
  NoCert = NoCert
  NoAddress = NoAddress
  NoChannel = NoChannel
  MaxMade = 2
INVARIANT OnlyReviewedServers NoChangeIsLost SharingIsRemembered OneChannel
