-------------------------------- MODULE Slab --------------------------------
(***************************************************************************)
(* The heap of the kernel, kernel/mem/heap.c: lists of free blocks whose   *)
(* sizes are powers of two, filled from slabs that are never given back.   *)
(* Addresses and sizes are in words, from the beginning of the heap.       *)
(***************************************************************************)
EXTENDS Naturals, Sequences, SequencesExt, FiniteSets

CONSTANTS Buckets,   \* how many lists there are (16)
          PageLog,   \* a page has 2^PageLog words (10)
          HeapEnd,   \* the size of the heap
          Sizes,     \* sizes that the kernel asks for
          MaxLive    \* bound on the blocks in use

VARIABLES bucket,   \* heap_bucket[i]: the free blocks of size 2^i, first one first
          brk,      \* where the next slab begins
          live,     \* the blocks in use: address and requested size
          panic     \* debug_panic was called: nothing happens any more

vars == <<bucket, brk, live, panic>>

List == 0..Buckets - 1

(* The list for a size; none if the size is too large.                     *)
Fits(size) == {i \in List : size <= 2^i}
Bucket(size) == CHOOSE i \in Fits(size) : \A j \in Fits(size) : i <= j

Init == bucket = [i \in List |-> <<>>] /\ brk = 0 /\ live = {} /\ panic = FALSE

(* A page, or four blocks that are larger.                                 *)
SlabSize(i) == IF i <= PageLog THEN 2^PageLog ELSE 4 * 2^i

(* The blocks of a new slab as they are then in the list: last one first.  *)
heap_new_slab(i) ==
  [k \in 1..SlabSize(i) \div 2^i |-> brk + (SlabSize(i) \div 2^i - k) * 2^i]

(* heap_valloc panics when the heap is used up.                            *)
heap_valloc_fails(i) == brk + SlabSize(i) >= HeapEnd

heap_alloc(size) ==
  LET i == Bucket(size)
      list == IF bucket[i] = <<>> THEN heap_new_slab(i) ELSE bucket[i]
  IN /\ ~panic /\ Fits(size) # {} /\ Cardinality(live) < MaxLive
     /\ IF bucket[i] = <<>> /\ heap_valloc_fails(i)
        THEN panic' = TRUE /\ UNCHANGED <<bucket, brk, live>>
        ELSE /\ bucket' = [bucket EXCEPT ![i] = Tail(list)]
             /\ brk' = IF bucket[i] = <<>> THEN brk + SlabSize(i) ELSE brk
             /\ live' = live \cup {[at |-> Head(list), size |-> size]}
             /\ UNCHANGED panic

(* Mutant of heap_free: the list of the next size.                         *)
heap_free_up(b) ==
  /\ ~panic
  /\ bucket' = [bucket EXCEPT ![IF Bucket(b.size) + 1 \in List THEN Bucket(b.size) + 1
                                ELSE Bucket(b.size)] = <<b.at>> \o @]
  /\ live' = live \ {b}
  /\ UNCHANGED <<brk, panic>>

(* heap_free, with the size that the block was allocated with.             *)
heap_free(b) ==
  /\ ~panic
  /\ bucket' = [bucket EXCEPT ![Bucket(b.size)] = <<b.at>> \o @]
  /\ live' = live \ {b}
  /\ UNCHANGED <<brk, panic>>

Next == (\E size \in Sizes : heap_alloc(size)) \/ \E b \in live : heap_free(b)

Spec == Init /\ [][Next]_vars

-----------------------------------------------------------------------------
Extent(at, i) == at..at + 2^i - 1
Free == {Extent(bucket[i][k], i) : <<i, k>> \in {e \in List \X (1..HeapEnd) : e[2] <= Len(bucket[e[1]])}}
Used == {Extent(b.at, Bucket(b.size)) : b \in live}

RECURSIVE Total(_)
Total(s) == IF s = {} THEN 0 ELSE LET e == CHOOSE x \in s : TRUE IN Cardinality(e) + Total(s \ {e})

(* Every word of the slabs belongs to one block, which is free or in use,  *)
(* however blocks of all sizes are allocated and freed (heap.c:49-147).    *)
Partition ==
  /\ UNION (Free \cup Used) = 0..brk - 1
  /\ Total(Free) + Total(Used) = brk
  /\ Cardinality(Used) = Cardinality(live)
  /\ Cardinality(Free) = FoldLeft(LAMBDA n, i : n + Len(bucket[i]), 0, SetToSeq(List))

(* "The block of memory is 16 byte aligned for allocations of size 9 bytes *)
(* or greater, and page aligned for allocations of 2049 to 4096 bytes."    *)
(* (heap.c:45-46), in words.                                               *)
Aligned ==
  \A b \in live : /\ b.size > 2 => b.at % 4 = 0
                  /\ b.size \in 2^PageLog \div 2 + 1..2^PageLog => b.at % 2^PageLog = 0

=============================================================================
