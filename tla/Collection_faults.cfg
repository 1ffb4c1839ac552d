CONSTANTS
  i1 = i1
  j1 = j1
  a1 = a1
  a2 = a2
  Incident = {i1}
  Job = {j1}
  Agent = {a1, a2}
  NoAgent = NoAgent
  Session = {s1, s2}
  IncidentOf <- MCIncidentOf
  AgentOf <- MCAgentOf
  MaxConcurrentJobs = 0
  S3Enabled = TRUE
  Faults = TRUE
SPECIFICATION Spec
SYMMETRY Sessions
INVARIANT EvidenceBeforeSuccess
PROPERTY ClosedStays
