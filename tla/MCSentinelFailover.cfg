SPECIFICATION SentinelSpec
CONSTANTS
  Servers = {m, a, b, c} FirstMaster = m NeverPromoted = {c} None = None
  ParallelSyncs = 1 MaxFailovers = 1 MaxFaults = 2
  MaxQueue = 3 MaxRunning = 2 MaxRetry = 2 MaxJobs = 5
INVARIANTS ReconfigurationSound ScriptsBounded
PROPERTIES NoServerForgotten FailoverEnds
CHECK_DEADLOCK FALSE
