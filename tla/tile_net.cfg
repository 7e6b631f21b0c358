SPECIFICATION Spec
CHECK_DEADLOCK FALSE
CONSTANTS
  node = node
  NoEngine = NoEngine
  Process = {node}
  Owner = {1, 2}
  ProcessOf <- OneProcess
  NumNodes = 2
  Sizes = {4}
  Threshold = 1
  InputLen = 3
  RingCap = 3
  MaxIds = 4
INVARIANT TileNetTypeOK
INVARIANT OwnAnswers
INVARIANT WholeWhenComplete
INVARIANT TileInOnePlace
INVARIANT ActiveEngineAllocated
PROPERTY NetworkImplementsService
