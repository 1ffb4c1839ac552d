CONSTANTS
  i1 = i1
  j1 = j1
  a1 = a1
  a2 = a2
  Incident = {i1}
  Job = {j1, j2}
  Agent = {a1, a2}
  NoAgent = NoAgent
  Session = {s1}
  IncidentOf <- MCIncidentOf
  AgentOf <- MCAgentOf
  MaxConcurrentJobs = 2
  S3Enabled = FALSE
  Faults = FALSE
SPECIFICATION FairSpec
PROPERTY ClaimSettles
