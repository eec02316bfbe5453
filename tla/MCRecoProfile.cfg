SPECIFICATION Spec
CONSTANTS
  b1 = b1
  Events = {e1, e2, e3}
  Views = {e1, e2}
  Books = {b1}
  BookOf <- OneBook
  Consumers = {c1, c2}
  Workers = {w1, w2}
  Readers = {}
  MaxRuns = 3
  Prompt = TRUE
  MaxInFlight = 3
  MaxCrashes = 1
  MaxFailures = 1
  MaxOutages = 1
  MaxLapses = 1
  None = None
CHECK_DEADLOCK FALSE
SYMMETRY Swaps
CONSTRAINT OneMishap
INVARIANTS
  TypeOK
  BuildersBounded
  PendingHasTask
  DoneIsSaved
  StaleOnlyIfOvertaken
