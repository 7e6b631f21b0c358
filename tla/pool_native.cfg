SPECIFICATION Spec
CHECK_DEADLOCK FALSE
SYMMETRY ThreadSymmetry
CONSTANTS
  g1 = g1
  g2 = g2
  h1 = h1
  h2 = h2
  NoKernel = NoKernel
  Panicked = Panicked
  NoTask = NoTask
  Threads = {t1, t2}
  Graphs = {g1, g2}
  Hashes = {h1, h2}
  NumCores = 2
  GIL = FALSE
  ModeChoices = {"Eager", "Xtreme"}
  MaxSets = 2
  MaxSignals = 1
  SpawnMayFail = TRUE
  MaxCalls = 2
  HashOf <- OwnHash
  Outcome <- G2Panics
INVARIANT TypeOK
INVARIANT SingleSpawn
INVARIANT XtremeSpawnTried
INVARIANT NoLostTask
INVARIANT KernelMatchesHash
PROPERTY ServiceImplemented
