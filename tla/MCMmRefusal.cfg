CONSTANTS
  WordBits = 16
  Junk = 8
  HeapLo = 16
  MaxHeap = 144
  chunksize = 64
  Slots <- MCSlots
  Requests <- MCRequests
  CallocArgs <- MCCallocArgs
  SbrkRefusals <- MCRefusals
SPECIFICATION Spec
INVARIANT NoLeakedBlock
INVARIANT CheckHeapHolds
PROPERTY AllocatorRefinement
VIEW StateView
