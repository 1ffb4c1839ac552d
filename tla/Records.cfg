CONSTANTS
  u1 = u1
  u2 = u2
  g1 = g1
  g2 = g2
  a = a
  b = b
  Content = {a, b}
  ContentOf <- MCContentOf
  None = None
  Upload = {u1, u2}
  Ingest = {g1, g2}
  Faults = TRUE
  Request = {r1, r2}
  NoEntry = NoEntry
  Hash <- MCHash
  MaxEvents = 6
  RequestsFail = TRUE
SPECIFICATION RecordsSpec
INVARIANT LockedWhenCommitted
INVARIANT NoCircularWait
PROPERTY RowsOnce
