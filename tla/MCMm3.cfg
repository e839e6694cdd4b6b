CONSTANTS
  WordBits = 16
  Junk = 8
  HeapLo = 16
  MaxHeap = 144
  chunksize = 64
  Slots <- MCSlots3
  Requests <- MCRequests3
  CallocArgs <- MCCallocArgs3
  SbrkRefusals <- MCNoRefusals
SPECIFICATION Spec
INVARIANT CheckHeapHolds
INVARIANT FreeListsExact
VIEW StateView
