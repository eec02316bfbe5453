SPECIFICATION IndexSpec
CONSTANTS
  BookIds = {k1}
  t1 = t1
  t2 = t2
  m1 = m1
  m2 = m2
  Edits <- Rewrites
  Texts = {t1, t2}
  Metas = {m1, m2}
  SyncWorkers = {s1}
  Reindexers = {r1}
  MaxTries = 1
  MaxJobs = 2
  MaxChanges = 3
  MaxSlips = 0
  Gone = Gone
CHECK_DEADLOCK FALSE
PROPERTIES
  VectorsConverge
