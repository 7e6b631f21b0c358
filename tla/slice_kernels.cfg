SPECIFICATION Spec
CONSTANTS
  NoKernel = NoKernel
  Panicked = Panicked
  NoTask = NoTask
  Threads = {t1}
  Graphs <- SliceGraphs
  Hashes <- SliceHashes
  HashOf <- SliceHashOf
  Outcome <- SliceOutcome
  NumCores = 2
  GIL = TRUE
  ModeChoices = {}
  MaxSets = 0
  MaxSignals = 0
  SpawnMayFail = FALSE
  MaxCalls = 2
INVARIANT KernelFitsCall
