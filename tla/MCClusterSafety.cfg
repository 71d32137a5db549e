SPECIFICATION ClusterSpec
CONSTANTS
  j1 = j1
  j2 = j2
  w1 = w1
  w2 = w2
  h1 = h1
  h2 = h2
  Job = {j1}
  Worker = {w1, w2}
  Handler = {h1, h2}
  NoJob = NoJob
  NoWorker = NoWorker
  NoCall = NoCall
  CanRun <- OneJobRunnable
  MaxAttempts <- TwoAttempts
  Rank <- FlatRank
  PopLimit = 2
  Sharing = {w1, w2}
  CallsMayFail = TRUE
SYMMETRY Symmetry
INVARIANTS
  RowsConsistent
  QueueMatchesRows
  AuditNeverAhead
  OneWorkerPerAttempt
  LatestAttemptOwns
PROPERTIES
  AcknowledgedIsCompleted
  LifecycleImplemented
