CONSTANTS
  Width <- MCWidth
  HeapBase <- MCHeapBase
  MaxHeap <- MCMaxHeap
  ChunkSize <- MCChunkSize
  ScanLimit <- MCScanLimit
  Requests <- MCOverflowRequests
  CallocArgs <- MCOverflowCallocArgs
SPECIFICATION Spec
INVARIANT
  MallocContract
