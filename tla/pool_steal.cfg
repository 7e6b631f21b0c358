SPECIFICATION FairSpec
CHECK_DEADLOCK FALSE
CONSTANTS
  g1 = g1
  g2 = g2
  h1 = h1
  h2 = h2
  NoKernel = NoKernel
  Panicked = Panicked
  NoTask = NoTask
  Threads = {t1, t2}
  Graphs = {g1, g2}
  Hashes = {h1, h2}
  NumCores = 3
  GIL = FALSE
  ModeChoices = {}
  MaxSets = 0
  MaxSignals = 0
  SpawnMayFail = FALSE
  MaxCalls = 3
  HashOf <- OwnHash
  Outcome <- G2Panics
INVARIANT NoLostTask
PROPERTY HangIsExplained
