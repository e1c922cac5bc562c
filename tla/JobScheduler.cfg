CONSTANTS
  j1 = j1
  j2 = j2
  c1 = c1
  scheduler = scheduler
  Jobs <- TwoJobs
  Mode <- BothModes
  Policy <- Escalating
  Period = 2
  Clients <- OneClient
  Scheduler <- scheduler
  MaxTime = 3
  MaxRequests = 3
  MaxRestarts = 1
SPECIFICATION FairSpec
INVARIANTS
  RerunOnlyIfUndone
PROPERTY DueIsRun
