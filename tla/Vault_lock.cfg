CONSTANTS
  u1 = u1
  u2 = u2
  g1 = g1
  g2 = g2
  a = a
  b = b
  Content = {a, b}
  ContentOf <- MCContentOf
  None = None
  Upload = {}
  Ingest = {g1, g2}
  Faults = TRUE
SPECIFICATION Spec
PROPERTY LockedUnmodified
