SPECIFICATION MCSpec
SYMMETRY Symmetry
CONSTANTS
  Owners = {c1, c2}
  Media = {a4, letter}
  NoMedia = NoMedia
  Machine = TRUE
  MaxSessions = 2
  MaxRuns = 3
  NoSession = NoSession
INVARIANT OutcomeIsTrue OfferedWhenFree PrintsWhatWasShown
