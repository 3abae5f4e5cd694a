------------------------------- MODULE MCHeap -------------------------------
(* A heap of a few pages with arenas of three blocks and of one block.     *)
EXTENDS Heap
=============================================================================
