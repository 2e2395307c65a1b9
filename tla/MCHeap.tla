------------------------------- MODULE MCHeap -------------------------------
(***************************************************************************)
(* A heap of five two-byte blocks; requests of 0, 1, 2 and 3 blocks, one   *)
(* of them an exact multiple of the block size.                            *)
(***************************************************************************)
EXTENDS Heap

MCSizes == {0, 1, 4, 5}
=============================================================================
