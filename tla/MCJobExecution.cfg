SPECIFICATION TwoJobsSpec
CONSTANTS
  t = t
  b = b
  e = e
  w1 = w1
  w2 = w2
  Job = {t, b, e}
  Worker = {w1, w2}
  Windows = {w1}
  CanRun <- Enough
  MaxAttempts <- TwoAttempts
  Kind <- Kinds
  RunLength = 2
  MaxTroubles = 1
  NoWorker = NoWorker
  NoJob = NoJob
CHECK_DEADLOCK FALSE

  
PROPERTIES
  BenchmarksSurviveTrouble
