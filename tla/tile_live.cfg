SPECIFICATION FairSpec
CHECK_DEADLOCK FALSE
CONSTANTS
  node = node
  NoEngine = NoEngine
  Process = {node}
  Owner = {1}
  ProcessOf <- OneProcess
  NumNodes = 1
  Sizes = {4}
  Threshold = 1
  InputLen = 3
  RingCap = 3
  MaxIds = 6
PROPERTY TileAnswered
PROPERTY LossNoticed
PROPERTY ShutdownEnds
