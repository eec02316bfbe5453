SPECIFICATION Spec
CONSTANTS
  b1 = b1
  Events = {e1, e2}
  Views = {}
  Books = {b1}
  BookOf <- OneBook
  Consumers = {c1}
  Workers = {w1}
  Readers = {}
  MaxRuns = 3
  Prompt = TRUE
  MaxInFlight = 2
  MaxCrashes = 0
  MaxFailures = 0
  MaxOutages = 0
  MaxLapses = 0
  None = None
CHECK_DEADLOCK FALSE
PROPERTIES
  FlagDropIsCovered
