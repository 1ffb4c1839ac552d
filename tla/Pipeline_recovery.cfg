CONSTANTS
  j1 = j1
  t1 = t1
  t2 = t2
  Job = {j1}
  Task = {t1, t2}
  Reader = {}
  None = None
  Arrivals = {"upload", "ingest"}
  Outcomes = {"ran", "failed", "skipped"}
  Faults = TRUE
  MaxCrashes = 1
SPECIFICATION FairSpec
 
INVARIANT RebuildIsClean
PROPERTY RunningSettles
CHECK_DEADLOCK FALSE
