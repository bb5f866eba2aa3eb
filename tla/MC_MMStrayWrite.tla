-------------------------- MODULE MC_MMStrayWrite --------------------------
(* The fault model on the instance of MC_MMHeap.                           *)
EXTENDS MMStrayWrite, MC_MMHeap
=============================================================================
