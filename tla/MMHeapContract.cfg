CONSTANTS
  Width <- MCWidth
  HeapBase <- MCHeapBase
  MaxHeap <- MCMaxHeap
  ChunkSize <- MCChunkSize
  ScanLimit <- MCScanLimit
  Requests <- MCRequests
  CallocArgs <- MCCallocArgs
SPECIFICATION Spec
PROPERTIES
  ContractRefined
