CONSTANTS
  Width <- MCWidth
  HeapBase <- MCHeapBase
  MaxHeap <- MCMaxHeap
  ScanLimit <- MCScanLimit
  BlockSizes <- MCBlockSizes
SPECIFICATION Spec
INVARIANT
  FitAgrees
