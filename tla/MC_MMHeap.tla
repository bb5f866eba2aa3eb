----------------------------- MODULE MC_MMHeap -----------------------------
(* A small instance of MMHeap for TLC.  A 12-bit size_t keeps every word  *)
(* a TLC integer while leaving requests near 2^12 expressible; the region *)
(* holds mm_init's two sentinel words and two 48-byte chunks, so that the *)
(* heap is extended once after mm_init and then runs out; ScanLimit 1    *)
(* lets the better-fit window end before the list does.                   *)
EXTENDS MMHeap

MCWidth == 12
MCSizeMax == 2 ^ MCWidth - 1
MCHeapBase == 16
MCMaxHeap == 112
MCChunkSize == 48
MCScanLimit == 1
\* malloc(0), one mini block, a 32-byte block, a 48-byte block
MCRequests == {0, 8, 24, 40}
\* calloc with no elements, a plain product (24 bytes: the states malloc(24)
\* reaches), and one that wraps at 2^12
MCCallocArgs == {<<0, 8>>, <<2, 12>>, <<64, 64>>}
\* size_t's largest value, 2^12 - 1: malloc(SIZE_MAX), and calloc(1, SIZE_MAX)
\* which passes calloc's overflow test
MCOverflowRequests == {MCSizeMax}
MCOverflowCallocArgs == {<<1, MCSizeMax>>}
=============================================================================
