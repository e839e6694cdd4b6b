CONSTANTS
  WordBits = 16
  Junk = 8
  HeapLo = 16
  MaxHeap = 144
  chunksize = 64
  Slots <- MCSlots
  Requests <- MCRequests
  CallocArgs <- MCHugeCallocArgs
  SbrkRefusals <- MCNoRefusals
SPECIFICATION Spec
PROPERTY AllocatorRefinement
VIEW StateView
