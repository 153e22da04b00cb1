SPECIFICATION FairSpec
CONSTANTS
  N = 4
  Port = {0, 1, 2, 3, 4, 5}
  numPartitions = 2
  Modes = {"oneRandomNode", "preferStubs", "random"}
  StartNode = 4
  Topologies <- Networks
INVARIANTS
  NodesDivided
  UndefinedOnlyIfDense
  NoPacketLoops
  EveryNodeReached
PROPERTIES
  DivisionComesToAnEnd
  EndsIfConnected
CHECK_DEADLOCK FALSE
