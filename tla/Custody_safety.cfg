CONSTANTS
  i1 = i1
  i2 = i2
  upload = upload
  ingest = ingest
  note = note
  download1 = download1
  download2 = download2
  other = other
  Incident = {i1, i2}
  Request = {upload, ingest, download1, download2}
  None = None
  Plan <- MCPlan
  Hash <- MCHash
  Faults = TRUE
SPECIFICATION FairSpec
INVARIANT ChainIntact
INVARIANT VerifiedOnRead
PROPERTY ImplementsCustodyLog
PROPERTY EveryRequestEnds
