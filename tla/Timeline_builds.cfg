CONSTANTS
  j1 = j1
  t1 = t1
  b1 = b1
  b2 = b2
  Job = {j1}
  Task = {t1}
  Reader = {b1, b2}
  None = None
  Arrivals = {"ingest"}
  Outcomes = {"ran"}
  Faults = TRUE
  MaxCrashes = 1
SPECIFICATION TLSpec
INVARIANT PublishedTogether
INVARIANT ReadsUndisturbed
CHECK_DEADLOCK FALSE
SYMMETRY BuildSymmetry
