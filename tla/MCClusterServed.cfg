SPECIFICATION CompetingSpec
CONSTANTS
  j1 = j1
  j2 = j2
  w1 = w1
  w2 = w2
  h1 = h1
  h2 = h2
  Job = {j1, j2}
  Worker = {w1, w2}
  Handler = {h1, h2}
  NoJob = NoJob
  NoWorker = NoWorker
  NoCall = NoCall
  CanRun <- OnlySecond
  MaxAttempts <- SecondTwice
  Rank <- FirstAhead
  PopLimit = 2
  Sharing = {}
  CallsMayFail = FALSE
PROPERTIES
  EligibleJobIsServed
  DisownedWorkerStops
