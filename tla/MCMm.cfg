CONSTANTS
  WordBits = 16
  Junk = 8
  HeapLo = 16
  MaxHeap = 144
  chunksize = 64
  Slots <- MCSlots
  Requests <- MCRequests
  CallocArgs <- MCCallocArgs
  SbrkRefusals <- MCNoRefusals
SPECIFICATION Spec
INVARIANT TypeOK
INVARIANT NoLeakedBlock
INVARIANT CheckHeapHolds
INVARIANT BoundaryTagsConsistent
INVARIANT FreeListsExact
PROPERTY NoWriteIntoLivePayload
PROPERTY NoNeedlessExtend
PROPERTY AllocatorRefinement
VIEW StateView
