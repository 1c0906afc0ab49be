------------------------------- MODULE MCHeap -------------------------------
(* Small instance of Heap: the region starts at an odd address, so that    *)
(* alignment leaves a front piece.                                         *)
EXTENDS Heap
=============================================================================
