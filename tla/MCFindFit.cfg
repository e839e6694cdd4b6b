CONSTANTS
  WordBits = 16
  Junk = 8
  HeapLo = 16
  MaxHeap = 16384
  chunksize = 64
  BucketSizes <- MCBucketSizes
  ASizes <- MCASizes
  MaxLen = 3
SPECIFICATION Spec
INVARIANT FitSoundAndComplete
