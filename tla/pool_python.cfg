SPECIFICATION FairSpec
CONSTANTS
  g1 = g1
  g2 = g2
  h1 = h1
  h2 = h2
  NoKernel = NoKernel
  Panicked = Panicked
  NoTask = NoTask
  Threads = {t1, t2}
  Graphs = {g1, g2}
  Hashes = {h1, h2}
  NumCores = 2
  GIL = TRUE
  ModeChoices = {"Default", "Eager", "Hyper", "Xtreme"}
  MaxSets = 2
  MaxSignals = 0
  SpawnMayFail = FALSE
  MaxCalls = 2
  HashOf <- OwnHash
  Outcome <- AllCompile
INVARIANT FlagFollowsMode
PROPERTY ExecuteReturns
