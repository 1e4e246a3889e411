-------------------------------- MODULE Heap --------------------------------
(***************************************************************************)
(* The memory allocator of the C library, libc/stdlib/malloc.c: a buddy    *)
(* tree over a region of 2^Top bytes with a list of free blocks for every  *)
(* size, shared by the threads of a process under a spin lock.  Blocks are *)
(* split and never joined again.                                           *)
(*                                                                         *)
(* The inner nodes of the tree matter only to _get_by_addr, which follows  *)
(* them to the leaf that holds an address; the leaves are therefore kept   *)
(* by their base address.  _find_node recurses upwards to a list that is   *)
(* not empty and splits on its way back; here each level is one step of    *)
(* the thread that holds the lock.  The structures of the nodes            *)
(* (heap_node.c) are taken to be always available.                         *)
(***************************************************************************)
EXTENDS Integers, Sequences, FiniteSets

CONSTANTS Thread,    \* the threads of the process
          Top,       \* the logarithm of the size of the heap
          Lists,     \* the number of lists: 32 in the code
          PageLog,   \* the logarithm of the size of a page: 12 in the code
          Bytes,     \* function: Bytes[k] = 2^k, the size of a block of size k
          Request,   \* the sizes asked for
          Free, None \* the lock is not held; no block begins here

(* The numbers of 32 bits.                                                 *)
Word == {n \in Nat : n \div (256 * 256) < 256 * 256}

ASSUME HeapAssumption ==
  /\ Top \in Nat /\ PageLog \in 0..Top
  /\ Lists \in 0..32 /\ Lists > Top
  /\ Bytes \in [0..Top -> Nat \ {0}]
  /\ Bytes[0] = 1 /\ \A k \in 0..Top - 1 : Bytes[k + 1] = 2 * Bytes[k]
  /\ Free \notin Thread /\ None \notin Nat
  /\ Request \subseteq Word

Addr == 0..Bytes[Top] - 1

VARIABLES size,    \* size[b]: the logarithm of the size of the leaf at b
          status,  \* status[b] = 1: the leaf at b is allocated
          list,    \* _list: the free blocks of every size, latest first
          mutex,   \* the thread that holds _mutex
          pc,      \* where each thread is
          asked,   \* the number of bytes it has asked for
          level,   \* the size of list or block it has come to
          node,    \* the base of the block it has taken
          live,    \* the blocks that malloc has returned and nobody freed
          mapped   \* the pages of the heap that have memory

vars == <<size, status, list, mutex, pc, asked, level, node, live, mapped>>

TypeOK ==
  /\ size \in [Addr -> 0..Top \cup {None}]
  /\ status \in [Addr -> {0, 1}]
  /\ list \in [0..Lists - 1 -> Seq(Addr)]
  /\ mutex \in Thread \cup {Free}
  /\ pc \in [Thread -> {"idle", "find", "split", "map"}]
  /\ asked \in [Thread -> Nat]
  /\ level \in [Thread -> Nat]
  /\ node \in [Thread -> Addr]
  /\ live \in SUBSET Addr
  /\ mapped \in SUBSET Addr

Init ==
  /\ size = [b \in Addr |-> None]
  /\ status = [b \in Addr |-> 0]
  /\ list = [k \in 0..Lists - 1 |-> <<>>]
  /\ mutex = Free
  /\ pc = [t \in Thread |-> "idle"]
  /\ asked = [t \in Thread |-> 0]
  /\ level = [t \in Thread |-> 0]
  /\ node = [t \in Thread |-> 0]
  /\ live = {}
  /\ mapped = {}

-----------------------------------------------------------------------------

(* One of the five tests of ilog2: if the rest, the first of the pair, has *)
(* a bit above the lower s it loses these and s is added to the result.    *)
shift(nr, s, p) == IF nr[1] >= p THEN <<nr[1] \div p, nr[2] + s>> ELSE nr

(* The position of the highest bit of n, a number of 32 bits.              *)
highest(n) ==
  shift(shift(shift(shift(shift(<<n, 0>>,
    16, 256 * 256), 8, 256), 4, 16), 2, 4), 1, 2)[2]

(* One shifted left by r: a factor for each bit of r.                      *)
factor(r, s, p) == IF (r \div s) % 2 = 1 THEN p ELSE 1
shl(r) ==
  factor(r, 16, 256 * 256) * factor(r, 8, 256) * factor(r, 4, 16) * factor(r, 2, 4) * factor(r, 1, 2)

(* Mutant of ilog2: the logarithm is rounded down.                         *)
ilog2_down(n) == highest(n)

(* The logarithm of n, rounded up; 1 for 0.                                *)
ilog2(n) == IF shl(highest(n)) = n THEN highest(n) ELSE highest(n) + 1

(* Mutant of _add_to_list: the other blocks of the list are dropped.       *)
_add_to_list_drop(k, b, l) == [l EXCEPT ![k] = <<b>>]

_add_to_list(k, b, l) == [l EXCEPT ![k] = <<b>> \o @]

(* The size of the block that t asked for.                                 *)
index(t) == ilog2(asked[t])

(* The addresses of the leaf at b.                                         *)
Block(b) == b..b + Bytes[size[b]] - 1

(* The leaf at which _get_by_addr ends if addr is its base.                *)
_get_by_addr(addr) == size[addr] # None

(* The variables of a call end with it.                                    *)
malloc_return(t) ==
  /\ pc' = [pc EXCEPT ![t] = "idle"]
  /\ asked' = [asked EXCEPT ![t] = 0]
  /\ level' = [level EXCEPT ![t] = 0]

(* malloc up to its call of _find_node, which builds the tree the first    *)
(* time.                                                                   *)
malloc(t, n) ==
  /\ pc[t] = "idle" /\ mutex = Free
  /\ mutex' = t
  /\ pc' = [pc EXCEPT ![t] = "find"]
  /\ asked' = [asked EXCEPT ![t] = n]
  /\ level' = [level EXCEPT ![t] = ilog2(n)]
  /\ IF size[0] = None /\ ilog2(n) < Lists
     THEN /\ size' = [size EXCEPT ![0] = Top]
          /\ status' = [status EXCEPT ![0] = 0]
          /\ list' = _add_to_list(Top, 0, list)
     ELSE UNCHANGED <<size, status, list>>
  /\ UNCHANGED <<node, live, mapped>>

(* aalloc: malloc of a block at least as large as its alignment, which     *)
(* must be a power of two if it is not zero.                               *)
aalloc(t, n, align) ==
  /\ align # 0 => align = shl(ilog2(align))
  /\ malloc(t, IF n > align THEN n ELSE align)

(* Above the last list _find_node returns NULL on every level.             *)
malloc_null(t) ==
  /\ level[t] >= Lists
  /\ mutex' = Free
  /\ malloc_return(t)
  /\ UNCHANGED <<list, node>>

(* One level of _find_node on the way up: no list is left, this list has a *)
(* block, or the next larger one is tried.                                 *)
_find_node(t) ==
  /\ pc[t] = "find"
  /\ \/ malloc_null(t)
     \/ /\ level[t] < Lists
        /\ list[level[t]] # <<>>
        /\ node' = [node EXCEPT ![t] = Head(list[level[t]])]
        /\ list' = [list EXCEPT ![level[t]] = Tail(@)]
        /\ pc' = [pc EXCEPT ![t] = "split"]
        /\ UNCHANGED <<mutex, asked, level>>
     \/ /\ level[t] < Lists
        /\ list[level[t]] = <<>>
        /\ level' = [level EXCEPT ![t] = @ + 1]
        /\ UNCHANGED <<list, mutex, asked, node, pc>>
  /\ UNCHANGED <<size, status, live, mapped>>

(* Mutant of _split_node: the right half begins one byte early.            *)
_split_node_overlap(t) ==
  LET b == node[t]
      k == level[t] - 1
      r == b + Bytes[k] - 1
  IN /\ pc[t] = "split" /\ level[t] > index(t)
     /\ size' = [size EXCEPT ![b] = k, ![r] = k]
     /\ status' = [status EXCEPT ![b] = 0, ![r] = 0]
     /\ list' = _add_to_list(k, r, list)
     /\ level' = [level EXCEPT ![t] = k]
     /\ UNCHANGED <<mutex, pc, asked, node, live, mapped>>

(* One level of _find_node on the way down: the block becomes an inner     *)
(* node, its right half is put in the list and its left half returned.     *)
_split_node(t) ==
  LET b == node[t]
      k == level[t] - 1
      r == b + Bytes[k]
  IN /\ pc[t] = "split" /\ level[t] > index(t)
     /\ size' = [size EXCEPT ![b] = k, ![r] = k]
     /\ status' = [status EXCEPT ![b] = 0, ![r] = 0]
     /\ list' = _add_to_list(k, r, list)
     /\ level' = [level EXCEPT ![t] = k]
     /\ UNCHANGED <<mutex, pc, asked, node, live, mapped>>

(* The block has the size asked for: the lock is released.                 *)
malloc_unlock(t) ==
  /\ pc[t] = "split" /\ level[t] = index(t)
  /\ mutex' = Free
  /\ pc' = [pc EXCEPT ![t] = "map"]
  /\ UNCHANGED <<size, status, list, asked, level, node, live, mapped>>

(* The pages, by their first address, that hold the addresses b..b + n - 1. *)
Pages(b, n) ==
  {p \in Addr : /\ p % Bytes[PageLog] = 0
                /\ p < b + n /\ b < p + Bytes[PageLog]}

(* Mutant of malloc_map: the block is not marked.                          *)
malloc_map_unmarked(t) ==
  /\ pc[t] = "map"
  /\ node' = [node EXCEPT ![t] = 0]
  /\ malloc_return(t)
  /\ live' = live \cup {node[t]}
  /\ mapped' = mapped \cup Pages(node[t], Bytes[index(t)])
  /\ UNCHANGED <<size, status, list, mutex>>

(* Outside the lock, the block is marked as allocated and given memory.    *)
(* When page_anon fails malloc returns NULL and the block stays allocated. *)
malloc_map(t) ==
  /\ pc[t] = "map"
  /\ status' = [status EXCEPT ![node[t]] = 1]
  /\ node' = [node EXCEPT ![t] = 0]
  /\ malloc_return(t)
  /\ \/ /\ live' = live \cup {node[t]}
        /\ mapped' = mapped \cup Pages(node[t], Bytes[index(t)])
     \/ UNCHANGED <<live, mapped>>
  /\ UNCHANGED <<size, list, mutex>>

(* Mutant of free: the memory of a small block is given back as well.      *)
free_unmap_all(t, b) ==
  /\ pc[t] = "idle" /\ mutex = Free /\ b \in live
  /\ _get_by_addr(b) /\ status[b] = 1
  /\ status' = [status EXCEPT ![b] = 0]
  /\ list' = _add_to_list(size[b], b, list)
  /\ mapped' = mapped \ Pages(b, Bytes[size[b]])
  /\ live' = live \ {b}
  /\ UNCHANGED <<size, mutex, pc, asked, level, node>>

(* free of a block that the program got from malloc and has not yet given  *)
(* back: all of it is done under the lock.  Blocks of a page and more give *)
(* their memory back.                                                      *)
free(t, b) ==
  /\ pc[t] = "idle" /\ mutex = Free /\ b \in live
  /\ _get_by_addr(b) /\ status[b] = 1
  /\ status' = [status EXCEPT ![b] = 0]
  /\ list' = _add_to_list(size[b], b, list)
  /\ mapped' = IF size[b] >= PageLog
               THEN mapped \ Pages(b, Bytes[size[b]]) ELSE mapped
  /\ live' = live \ {b}
  /\ UNCHANGED <<size, mutex, pc, asked, level, node>>

Locked(t) == _find_node(t) \/ _split_node(t) \/ malloc_unlock(t)

Next ==
  \E t \in Thread :
    \/ \E n \in Request : malloc(t, n)
    \/ \E n, align \in Request : aalloc(t, n, align)
    \/ Locked(t)
    \/ malloc_map(t)
    \/ \E b \in Addr : free(t, b)

Spec == Init /\ [][Next]_vars

(* A thread that holds the lock is scheduled again (round robin).          *)
FairSpec == Spec /\ \A t \in Thread : WF_vars(Locked(t))

-----------------------------------------------------------------------------

Leaf == {b \in Addr : size[b] # None}

(* The blocks in the hands of a thread between the list and the caller.    *)
Holds(t) == pc[t] \in {"split", "map"}

Taken == {node[t] : t \in {u \in Thread : Holds(u)}}

Members(s) == {s[i] : i \in DOMAIN s}

Once(s) == \A i, j \in DOMAIN s : s[i] = s[j] => i = j

(* Blocks never overlap and none gets lost: once the tree has been built,  *)
(* every byte of the heap belongs to exactly one leaf, whatever splits     *)
(* were made (lines 252 to 272), so two callers of malloc never share one. *)
Partition ==
  size[0] # None =>
    \A a \in Addr : \E b \in Leaf :
      /\ a \in Block(b)
      /\ \A c \in Leaf : a \in Block(c) => c = b

(* A block begins at a multiple of its size, which is all that aalloc does *)
(* for the alignment it promises.                                          *)
Aligned == \A b \in Leaf : b % Bytes[size[b]] = 0

(* A leaf that is not allocated is once in the list for its size or in the *)
(* hands of one thread; lists hold nothing else.  The status is written    *)
(* outside the lock (line 83), so this rests on no other thread being able *)
(* to reach the block.                                                     *)
ListsExact ==
  /\ \A k \in 0..Lists - 1 :
       /\ Once(list[k])
       /\ \A b \in Members(list[k]) :
            size[b] = k /\ status[b] = 0 /\ b \notin Taken
  /\ \A b \in Leaf \ Taken : status[b] = 0 => b \in Members(list[size[b]])
  /\ \A t, u \in Thread :
       Holds(t) /\ Holds(u) /\ t # u => node[t] # node[u]

(* free() never aborts on a block that malloc returned and that was not    *)
(* freed since: the search finds it and it counts as allocated.            *)
FreeAccepts == \A b \in live : _get_by_addr(b) /\ status[b] = 1

(* A program may use the memory that malloc returned until it frees it,    *)
(* even though the pages of small blocks are shared with other blocks and  *)
(* mapped outside the lock (malloc.c:74-100).                              *)
LiveMapped == \A b \in live : Pages(b, Bytes[size[b]]) \subseteq mapped

(* A block is as large as was asked for, and less than twice as large: the *)
(* unrolled logarithm of line 179 is the ceiling, here on both sides of    *)
(* every power of two.                                                     *)
BlockFits ==
  \A t \in Thread : pc[t] = "map" =>
    /\ Bytes[size[node[t]]] >= asked[t]
    /\ asked[t] > 0 => Bytes[size[node[t]]] < 2 * asked[t]
    /\ \A k \in 2..29 :
         ilog2(shl(k) - 1) = k /\ ilog2(shl(k)) = k /\ ilog2(shl(k) + 1) = k + 1

(* malloc lets go of the lock whatever it finds.                           *)
LockReleased == \A t \in Thread : (mutex = t) ~> (mutex # t)

(* What the comment of line 249 says: malloc fails when the free blocks    *)
(* together hold fewer bytes than were asked for.                          *)
FailsOnlyWhenFull ==
  \A t \in Thread : pc[t] = "find" /\ level[t] >= Lists /\ asked[t] > 0 =>
    Cardinality(UNION {Block(b) : b \in {c \in Leaf \ Taken : status[c] = 0}})
      < asked[t]

=============================================================================
