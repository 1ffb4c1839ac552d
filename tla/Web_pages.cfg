SPECIFICATION WebSpec
CONSTANTS
  Slot <- MCSlot
  Reads <- MCReads
  Row = {r1, r2}
  Self = r1
  Nothing = Nothing
  None = None
  Role = "admin"
  MaxEvents = 3
  MaxMoves = 2
  MaxFaults = 1
INVARIANT TypeOK
INVARIANT ChangesShown
INVARIANT PageNotEmpty
INVARIANT NothingStuck
CHECK_DEADLOCK FALSE
