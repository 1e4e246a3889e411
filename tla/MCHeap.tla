------------------------------- MODULE MCHeap -------------------------------
(***************************************************************************)
(* The allocator with a heap of 4 bytes.                                   *)
(***************************************************************************)
EXTENDS Heap

MCBytes == [k \in 0..Top |-> 2^k]

=============================================================================
