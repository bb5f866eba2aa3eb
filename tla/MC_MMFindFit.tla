---------------------------- MODULE MC_MMFindFit ----------------------------
(* Four slots and sizes of four classes: the mini class, class 1 (32),    *)
(* class 2 (48 and 64, so that one list can hold a better fit behind its  *)
(* first fit) and class 3 (80).  With ScanLimit 2 a list of class 2 can   *)
(* place a better fit on each side of the window's last block.            *)
EXTENDS MMFindFit

MCWidth == 12
MCHeapBase == 16
MCMaxHeap == 128
MCScanLimit == 2
MCBlockSizes == {16, 32, 48, 64, 80}
=============================================================================
