SPECIFICATION Spec
CHECK_DEADLOCK FALSE
CONSTANTS
  g1 = g1
  g2 = g2
  h1 = h1
  h2 = h2
  NoKernel = NoKernel
  Panicked = Panicked
  NoTask = NoTask
  Threads = {t1}
  Graphs = {g1, g2}
  Hashes = {h1, h2}
  NumCores = 2
  GIL = TRUE
  ModeChoices = {"Xtreme"}
  MaxSets = 1
  MaxSignals = 0
  SpawnMayFail = FALSE
  MaxCalls = 2
  HashOf <- OwnHash
  Outcome <- G2Panics
INVARIANT XtremeWorkerLives
