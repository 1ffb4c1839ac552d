CONSTANTS
  d1 = d1
  h1 = h1
  d2 = d2
  w1 = w1
  w2 = w2
  l1 = l1
  p1 = p1
  q1 = q1
  Nothing = Nothing
  None = None
  Slot <- MCSlot
  Reads <- MCReads
  Host = {d1, d2, h1}
  Device = {d1, d2}
  OS <- MCOS
  DeviceOS <- MCDeviceOS
  Module = {w1, w2, l1}
  ModulesOf <- MCModulesOf
  CategoryOf <- MCCategoryOf
  Profile = {p1}
  ProfileOf <- MCProfileOf
  Query = {q1}
  Matches <- MCMatches
  IsViewer = FALSE
  MaxTargets = 2
  MaxEdits = 2
  MaxVisits = 1
  MaxFaults = 1
SPECIFICATION FairSpec
INVARIANT TypeOK
INVARIANT ChoiceFitsOS
PROPERTY LoadSettles
CHECK_DEADLOCK FALSE
