SPECIFICATION IncidentSpec
CONSTANTS
  Slot <- MCSlot
  Reads <- MCReads
  Row = {r1, r2}
  Self = r1
  Nothing = Nothing
  None = None
  Role = "admin"
  MaxEvents = 2
  MaxMoves = 2
  MaxFaults = 1
  MaxSock = 2
  MaxCmd = 2
INVARIANT TypeOK
INVARIANT LogLinesOnce
INVARIANT NothingStuck
INVARIANT RowsAsNamed
INVARIANT BulkCloseTruthful
INVARIANT NotesShown
INVARIANT QueuesBelong
INVARIANT ConsoleOutcome
PROPERTY NeverOlder
CHECK_DEADLOCK FALSE
