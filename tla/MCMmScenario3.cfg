CONSTANTS
  WordBits = 16
  Junk = 8
  HeapLo = 16
  MaxHeap = 8192
  chunksize = 4096
  Slots <- MCScenarioSlots
  Requests <- MCScenarioRequests
  CallocArgs <- MCScenarioCallocArgs
  SbrkRefusals <- MCScenarioRefusals
SPECIFICATION ScenarioSpec
INVARIANT ScenarioThreeBuckets
CHECK_DEADLOCK FALSE
