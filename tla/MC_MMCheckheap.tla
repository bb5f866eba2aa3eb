--------------------------- MODULE MC_MMCheckheap ---------------------------
(* mm_checkheap evaluated on the instance of MC_MMHeap.                    *)
EXTENDS MMCheckheap, MC_MMHeap
=============================================================================
