CONSTANTS
  Slot <- MCSlot
  Reads <- MCReads
  Device = {d1}
  Scheduled = {s1}
  Nothing = Nothing
  IsViewer = FALSE
  MaxLogs = 2
  MaxEvents = 2
  MaxFaults = 1
SPECIFICATION FairSpec
INVARIANT TypeOK
INVARIANT StartedOnce
INVARIANT LogsInOrder
PROPERTY EndIsShown
CHECK_DEADLOCK FALSE
