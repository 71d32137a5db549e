SPECIFICATION FairSpec
CONSTANTS
  j1 = j1
  j2 = j2
  w1 = w1
  w2 = w2
  h1 = h1
  h2 = h2
  Job = {j1}
  Worker = {w1}
  Handler = {h1, h2}
  NoJob = NoJob
  NoWorker = NoWorker
  NoCall = NoCall
  CanRun <- OneJobRunnable
  MaxAttempts <- TwoAttempts
  Rank <- FlatRank
  PopLimit = 2
  Sharing = {}
  CallsMayFail = FALSE
PROPERTIES
  LeaseReturnsJob
