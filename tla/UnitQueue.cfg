SPECIFICATION FairSpec
CONSTANTS
  j1 = j1
  j2 = j2
  j3 = j3
  d1 = d1
  d2 = d2
  NoDaemon = NoDaemon
  NUnits = 2
  JobsOf <- SmallCorpus
  LayoutJobs = {j1}
  VlmJobs = {j2, j3}
  Excluded = {}
  RetryFailed = FALSE
  Daemons = {d1, d2}
  MaxZips = 3
  MaxFaults = 2
INVARIANTS UnitSafety
PROPERTIES SavedIsNotRecomputed SavedGetsSettled
CHECK_DEADLOCK FALSE
