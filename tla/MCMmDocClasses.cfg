CONSTANTS
  WordBits = 16
  Junk = 8
  HeapLo = 16
  MaxHeap = 144
  chunksize = 64
  Slots <- MCSlots
  Requests <- MCRequests
  CallocArgs <- MCCallocArgs
  SbrkRefusals <- MCNoRefusals
SPECIFICATION Spec
INVARIANT FreeListsMatchDocumentedClasses
VIEW StateView
