----------------------------- MODULE HeapProofs -----------------------------
(***************************************************************************)
(* Blocks of the allocator never overlap, for every number of threads and  *)
(* every size of heap.                                                     *)
(***************************************************************************)
EXTENDS Heap, TLAPS

(* The time, in seconds, that each prover has for a leaf.                  *)
USE SMTT(20), ZenonT(20)

(* Leaves lie in the heap, one behind the other.                           *)
Apart ==
  /\ \A b \in Leaf : b + Bytes[size[b]] <= Bytes[Top]
  /\ \A b, c \in Leaf : b < c => b + Bytes[size[b]] <= c

(* Once the tree has been built its leaves cover the heap; before, there   *)
(* is none.                                                                *)
Cover ==
  /\ size[0] # None =>
       \A a \in Addr : \E b \in Leaf : b <= a /\ a < b + Bytes[size[b]]
  /\ size[0] = None => Leaf = {}

(* The block in a thread's hands is a leaf of the size the thread has come *)
(* to, which is the size it asked for once the lock has been released.     *)
Hands ==
  \A t \in Thread :
    /\ pc[t] \in {"find", "split"} <=> mutex = t
    /\ pc[t] # "idle" => level[t] >= index(t)
    /\ Holds(t) =>
         /\ node[t] \in Leaf
         /\ size[node[t]] = level[t]
         /\ status[node[t]] = 0
         /\ level[t] <= Top

(* The inductive invariant.  A split needs to know that the block in hand  *)
(* is a leaf that no list and no other thread knows of; the status, set    *)
(* outside the lock, separates the blocks in hand from the live ones.      *)
HeapInv == TypeOK /\ Apart /\ Cover /\ ListsExact /\ Hands /\ FreeAccepts

-----------------------------------------------------------------------------

(* The logarithm is a natural number.                                      *)
LEMMA LogNat == \A n \in Nat : ilog2(n) \in Nat
  <1> DEFINE P == Nat \X Nat
  <1>2. \A p \in P : shift(p, 16, 256 * 256) \in P BY DEF shift
  <1>3. \A p \in P : shift(p, 8, 256) \in P BY DEF shift
  <1>4. \A p \in P : shift(p, 4, 16) \in P BY DEF shift
  <1>5. \A p \in P : shift(p, 2, 4) \in P BY DEF shift
  <1>6. \A p \in P : shift(p, 1, 2) \in P BY DEF shift
  <1>7. \A n \in Nat : <<n, 0>> \in P OBVIOUS
  <1>8. \A p \in P : p[2] \in Nat OBVIOUS
  <1> HIDE DEF P
  <1>9. ASSUME NEW n \in Nat PROVE highest(n) \in Nat
    <2>1. PICK p \in P : p = shift(<<n, 0>>, 16, 256 * 256) BY <1>2, <1>7, Zenon
    <2>2. PICK q \in P : q = shift(p, 8, 256) BY <1>3
    <2>3. PICK r \in P : r = shift(q, 4, 16) BY <1>4
    <2>4. PICK s \in P : s = shift(r, 2, 4) BY <1>5
    <2>5. PICK t \in P : t = shift(s, 1, 2) BY <1>6
    <2>6. highest(n) = t[2]
      BY <2>1, <2>2, <2>3, <2>4, <2>5 DEF highest
    <2> QED BY <2>5, <2>6, <1>8
  <1> QED BY <1>9 DEF ilog2

(* The first address is one of the heap.                                   *)
LEMMA ZeroAddr == /\ Bytes[Top] \in Nat \ {0}
                  /\ 0 \in Addr
                  /\ \A b : b \in Addr <=> b \in Nat /\ b < Bytes[Top]
  <1>1. Top \in 0..Top BY HeapAssumption
  <1>2. Bytes[Top] \in Nat \ {0} BY <1>1, HeapAssumption
  <1> QED BY <1>2 DEF Addr

(* The sizes of blocks are positive and double from one to the next.       *)
LEMMA Double ==
  /\ \A k \in 0..Top : Bytes[k] \in Nat /\ Bytes[k] > 0
  /\ \A k \in 1..Top : k - 1 \in 0..Top /\ Bytes[k] = 2 * Bytes[k - 1]
  <1>1. \A k \in 0..Top : Bytes[k] \in Nat /\ Bytes[k] > 0
    BY HeapAssumption
  <1>2. ASSUME NEW k \in 1..Top PROVE k - 1 \in 0..Top /\ Bytes[k] = 2 * Bytes[k - 1]
    <2>1. k - 1 \in 0..Top - 1 /\ (k - 1) + 1 = k BY HeapAssumption
    <2> QED BY <2>1, HeapAssumption
  <1> QED BY <1>1, <1>2

(* The members of a list of addresses are addresses.                       *)
LEMMA MembersIn ==
  ASSUME NEW S, NEW s \in Seq(S), NEW x \in Members(s) PROVE x \in S
  <1>1. PICK i \in 1..Len(s) : x = s[i] BY DEF Members
  <1> QED BY <1>1

(* A block put at the front of a list is a new member of it.               *)
LEMMA Cons ==
  ASSUME NEW S, NEW s \in Seq(S), NEW b \in S
  PROVE  /\ <<b>> \o s \in Seq(S)
         /\ Members(<<b>> \o s) = Members(s) \cup {b}
         /\ Once(s) /\ b \notin Members(s) => Once(<<b>> \o s)
  <1> DEFINE r == <<b>> \o s
  <1>1. r \in Seq(S) /\ Len(r) = Len(s) + 1 OBVIOUS
  <1>2. r[1] = b /\ \A i \in 1..Len(s) : r[i + 1] = s[i] OBVIOUS
  <1>3. \A i \in 2..Len(r) : i - 1 \in 1..Len(s) /\ r[i] = s[i - 1]
    BY <1>1, <1>2
  <1>4. Members(r) = Members(s) \cup {b}
    <2>1. ASSUME NEW x \in Members(r) PROVE x \in Members(s) \cup {b}
      <3>1. PICK i \in 1..Len(r) : x = r[i] BY <1>1 DEF Members
      <3>2. CASE i = 1 BY <3>1, <3>2, <1>2
      <3>3. CASE i # 1
        <4>1. i - 1 \in DOMAIN s /\ x = s[i - 1] BY <3>1, <3>3, <1>1, <1>3
        <4> QED BY <4>1 DEF Members
      <3> QED BY <3>2, <3>3
    <2>2. ASSUME NEW x \in Members(s) PROVE x \in Members(r)
      <3>1. PICK i \in 1..Len(s) : x = s[i] BY DEF Members
      <3>2. i + 1 \in DOMAIN r /\ r[i + 1] = x BY <3>1, <1>1, <1>2
      <3> QED BY <3>2, ZenonT(20) DEF Members
    <2>3. b \in Members(r)
      <3>1. 1 \in DOMAIN r BY <1>1
      <3> QED BY <3>1, <1>2 DEF Members
    <2> QED BY <2>1, <2>2, <2>3
  <1>5. ASSUME Once(s), b \notin Members(s),
               NEW i \in DOMAIN r, NEW j \in DOMAIN r, r[i] = r[j]
        PROVE  i = j
    <2>1. i \in 1..Len(r) /\ j \in 1..Len(r) BY <1>1
    <2>2. \A m \in 2..Len(r) : m - 1 \in DOMAIN s /\ r[m] = s[m - 1] /\ r[m] # b
      BY <1>1, <1>3, <1>5 DEF Members
    <2>3. CASE i = 1 \/ j = 1 BY <2>1, <2>2, <2>3, <1>2, <1>5
    <2>4. CASE i # 1 /\ j # 1
      <3>1. i \in 2..Len(r) /\ j \in 2..Len(r) BY <2>1, <2>4, <1>1
      <3>2. s[i - 1] = s[j - 1] /\ i - 1 \in DOMAIN s /\ j - 1 \in DOMAIN s
        BY <3>1, <2>2, <1>5
      <3>3. i - 1 = j - 1 BY <3>2, <1>5 DEF Once
      <3> QED BY <3>1, <3>3
    <2> QED BY <2>3, <2>4
  <1> QED BY <1>1, <1>4, <1>5 DEF Once

(* Taking the first block of a list takes it out of the list.              *)
LEMMA Uncons ==
  ASSUME NEW S, NEW s \in Seq(S), s # <<>>, Once(s)
  PROVE  /\ Head(s) \in S /\ Head(s) \in Members(s)
         /\ Tail(s) \in Seq(S)
         /\ Members(Tail(s)) = Members(s) \ {Head(s)}
         /\ Once(Tail(s))
  <1> DEFINE r == Tail(s)
  <1>1. /\ Len(s) > 0 /\ r \in Seq(S) /\ Len(r) = Len(s) - 1
        /\ Head(s) = s[1] /\ Head(s) \in S /\ 1 \in DOMAIN s
    OBVIOUS
  <1>2. \A i \in 1..Len(r) : i + 1 \in DOMAIN s /\ r[i] = s[i + 1]
    BY <1>1
  <1>3. Once(r)
    <2>1. ASSUME NEW i \in DOMAIN r, NEW j \in DOMAIN r, r[i] = r[j] PROVE i = j
      <3>1. i \in 1..Len(r) /\ j \in 1..Len(r) BY <1>1
      <3>2. s[i + 1] = s[j + 1] /\ i + 1 \in DOMAIN s /\ j + 1 \in DOMAIN s
        BY <2>1, <3>1, <1>2
      <3>3. i + 1 = j + 1 BY <3>2 DEF Once
      <3> QED BY <3>1, <3>3
    <2> QED BY <2>1 DEF Once
  <1>4. ASSUME NEW x \in Members(r) PROVE x \in Members(s) /\ x # s[1]
    <2>1. PICK i \in 1..Len(r) : x = r[i] BY <1>1 DEF Members
    <2>2. i + 1 \in DOMAIN s /\ x = s[i + 1] /\ i + 1 # 1 BY <2>1, <1>2
    <2>3. s[i + 1] # s[1] BY <2>2, <1>1 DEF Once
    <2> QED BY <2>2, <2>3 DEF Members
  <1>5. ASSUME NEW x \in Members(s), x # s[1] PROVE x \in Members(r)
    <2>1. PICK i \in 1..Len(s) : x = s[i] BY DEF Members
    <2>2. i - 1 \in 1..Len(r) /\ (i - 1) + 1 = i BY <2>1, <1>1, <1>5
    <2>3. r[i - 1] = x /\ i - 1 \in DOMAIN r BY <2>1, <2>2, <1>1, <1>2
    <2> QED BY <2>3, ZenonT(20) DEF Members
  <1>6. s[1] \in Members(s) BY <1>1 DEF Members
  <1> QED BY <1>1, <1>3, <1>4, <1>5, <1>6

-----------------------------------------------------------------------------

(* Before the first call there is neither a leaf nor a listed block.       *)
LEMMA InitInv == Init => HeapInv
  <1> SUFFICES ASSUME Init PROVE HeapInv OBVIOUS
  <1>1. TypeOK
    BY ZeroAddr, HeapAssumption DEF Init, TypeOK
  <1>2. Leaf = {} /\ Taken = {} /\ \A t \in Thread : ~ Holds(t)
    BY DEF Init, Leaf, Taken, Holds
  <1>3. \A k \in 0..Lists - 1 : list[k] = <<>> BY DEF Init
  <1>4. Once(<<>>) /\ Members(<<>>) = {} BY DEF Once, Members
  <1>5. ListsExact BY <1>2, <1>3, <1>4 DEF ListsExact
  <1>6. Apart /\ FreeAccepts BY <1>2 DEF Apart, FreeAccepts, Init
  <1>7. Cover BY <1>2, ZeroAddr DEF Cover, Init
  <1>8. Hands
    BY <1>2, HeapAssumption DEF Hands, Init
  <1> QED BY <1>1, <1>5, <1>6, <1>7, <1>8 DEF HeapInv

(* Building the tree (lines 228 to 236): its one leaf is the heap.         *)
LEMMA MallocInv ==
  ASSUME HeapInv, NEW t \in Thread, NEW n \in Request, malloc(t, n)
  PROVE  HeapInv'
  <1> USE DEF HeapInv
  <1>n. n \in Nat /\ ilog2(n) \in Nat BY LogNat, HeapAssumption DEF Word
  <1>f. t # Free /\ mutex = Free /\ pc[t] = "idle"
    BY HeapAssumption DEF malloc
  <1>h. /\ Taken' = Taken /\ \A u \in Thread : Holds(u)' = Holds(u)
        /\ \A u \in Thread \ {t} : index(u)' = index(u) /\ level'[u] = level[u]
        /\ ~ Holds(t)
    BY <1>f DEF malloc, Taken, Holds, TypeOK, index
  <1>l. level'[t] = index(t)' /\ pc'[t] = "find" /\ mutex' = t
    BY DEF malloc, TypeOK, index
  <1>p. \A u \in Thread \ {t} : pc'[u] = pc[u] BY DEF malloc, TypeOK
  <1>i. index(t)' \in Nat /\ index(t)' >= index(t)' BY <1>n, LogNat DEF malloc, TypeOK, index
  <1>m. \A u \in Thread : pc'[u] \in {"find", "split"} <=> mutex' = u
    BY <1>f, <1>l, <1>p, HeapAssumption DEF Hands
  <1>1. CASE size[0] = None /\ ilog2(n) < Lists
    <2>1. /\ size' = [size EXCEPT ![0] = Top] /\ list' = [list EXCEPT ![Top] = <<0>> \o @]
          /\ status' = [status EXCEPT ![0] = 0]
          /\ live' = live /\ mapped' = mapped /\ node' = node
      BY <1>1 DEF malloc, _add_to_list
    <2>2. Leaf = {} /\ Leaf' = {0} /\ size'[0] = Top
      BY <1>1, <2>1, ZeroAddr, HeapAssumption DEF Cover, Leaf, TypeOK
    <2>3. live = {} /\ Taken = {} /\ (\A u \in Thread : ~ Holds(u))
      <3>1. ASSUME NEW b \in live PROVE FALSE
        <4>1. b \in Addr /\ size[b] # None BY DEF TypeOK, FreeAccepts, _get_by_addr
        <4>2. b \in Leaf BY <4>1 DEF Leaf
        <4> QED BY <4>2, <2>2
      <3>2. \A u \in Thread : ~ Holds(u) BY <2>2 DEF Hands
      <3>3. Taken = {} BY <3>2 DEF Taken
      <3> QED BY <3>1, <3>2, <3>3
    <2>4. Top \in 0..Lists - 1 /\ Top \in 0..Top BY HeapAssumption
    <2>5. \A k \in 0..Lists - 1 : Members(list[k]) = {}
      <3>1. ASSUME NEW k \in 0..Lists - 1, NEW b \in Members(list[k]) PROVE FALSE
        <4>1. list[k] \in Seq(Addr) BY ZenonT(20) DEF TypeOK
        <4>2. b \in Addr BY <4>1, MembersIn
        <4>3. size[b] = k BY DEF ListsExact
        <4>4. size[b] = None BY <4>2, <2>2 DEF Leaf
        <4> QED BY <4>3, <4>4, HeapAssumption
      <3> QED BY <3>1
    <2>6. /\ <<0>> \o list[Top] \in Seq(Addr)
          /\ Members(<<0>> \o list[Top]) = {0}
          /\ Once(<<0>> \o list[Top])
      <3>1. list[Top] \in Seq(Addr) /\ 0 \in Addr BY <2>4, ZeroAddr, ZenonT(20) DEF TypeOK
      <3>2. Members(list[Top]) = {} /\ Once(list[Top]) BY <2>4, <2>5 DEF ListsExact
      <3>3. 0 \notin Members(list[Top]) BY <3>2
      <3> QED BY <3>1, <3>2, <3>3, Cons
    <2>7. \A k \in 0..Lists - 1 : list'[k] = IF k = Top THEN <<0>> \o list[Top] ELSE list[k]
      BY <2>1 DEF TypeOK
    <2>8. TypeOK'
      <3>1. list' \in [0..Lists - 1 -> Seq(Addr)] BY <2>1, <2>4, <2>6 DEF TypeOK
      <3>2. size' \in [Addr -> 0..Top \cup {None}] /\ status' \in [Addr -> {0, 1}]
        BY <2>1, <2>4, ZeroAddr DEF TypeOK
      <3>3. /\ mutex' \in Thread \cup {Free}
            /\ pc' \in [Thread -> {"idle", "find", "split", "map"}]
            /\ asked' \in [Thread -> Nat] /\ level' \in [Thread -> Nat]
        BY <1>n DEF malloc, TypeOK
      <3> QED BY <2>1, <3>1, <3>2, <3>3 DEF TypeOK
    <2>9. Apart' BY <2>2, ZeroAddr DEF Apart
    <2>10. Cover' BY <2>2, ZeroAddr, HeapAssumption DEF Cover
    <2>11. ListsExact'
      <3>1. \A k \in 0..Lists - 1 : Once(list'[k])
        BY <2>6, <2>7 DEF ListsExact
      <3>2. \A k \in 0..Lists - 1 : \A b \in Members(list'[k]) : b = 0 /\ k = Top
        BY <2>5, <2>6, <2>7, ZenonT(20)
      <3>3. status'[0] = 0 /\ size'[0] = Top BY <2>1, ZeroAddr DEF TypeOK
      <3>4. 0 \in Members(list'[Top]) BY <2>4, <2>6, <2>7
      <3> QED BY <3>1, <3>2, <3>3, <3>4, <2>2, <2>3, <1>h DEF ListsExact
    <2>12. Hands' BY <2>3, <1>h, <1>m, <1>l, <1>i, <1>p DEF Hands
    <2>13. FreeAccepts' BY <2>1, <2>3 DEF FreeAccepts
    <2> QED BY <2>8, <2>9, <2>10, <2>11, <2>12, <2>13
  <1>2. CASE ~ (size[0] = None /\ ilog2(n) < Lists)
    <2>1. UNCHANGED <<size, status, list, node, live, mapped>> BY <1>2 DEF malloc
    <2>2. TypeOK' BY <2>1, <1>n DEF TypeOK, malloc
    <2>3. Leaf' = Leaf BY <2>1 DEF Leaf
    <2>4. Apart' /\ Cover' /\ FreeAccepts'
      BY <2>1, <2>3 DEF Apart, Cover, FreeAccepts, _get_by_addr
    <2>5. ListsExact' BY <2>1, <2>3, <1>h DEF ListsExact
    <2>6. Hands' BY <2>1, <2>3, <1>h, <1>m, <1>l, <1>i, <1>p DEF Hands
    <2> QED BY <2>2, <2>4, <2>5, <2>6
  <1> QED BY <1>1, <1>2

(* A block popped from its list is in the hands of the thread that holds   *)
(* the lock and nowhere else.                                              *)
LEMMA FindInv ==
  ASSUME HeapInv, NEW t \in Thread, _find_node(t)
  PROVE  HeapInv'
  <1> USE DEF HeapInv
  <1>f. t # Free /\ pc[t] = "find" /\ mutex = t /\ ~ Holds(t)
    BY HeapAssumption DEF _find_node, Hands, Holds
  <1>u. UNCHANGED <<size, status, live, mapped>> BY DEF _find_node, malloc_null
  <1>n. index(t) \in Nat /\ level[t] \in Nat /\ level[t] >= index(t)
    BY <1>f, LogNat DEF TypeOK, index, Hands
  <1>s. Leaf' = Leaf /\ Apart' /\ Cover' /\ FreeAccepts'
    BY <1>u DEF Leaf, Apart, Cover, FreeAccepts, _get_by_addr
  <1>1. CASE level[t] >= Lists /\ mutex' = Free /\ malloc_return(t)
             /\ UNCHANGED <<list, node>>
    <2>1. TypeOK' BY <1>1, <1>u DEF TypeOK, malloc_return
    <2>2. /\ pc'[t] = "idle" /\ ~ Holds(t)'
          /\ \A u \in Thread \ {t} : /\ pc'[u] = pc[u] /\ Holds(u)' = Holds(u)
                                     /\ index(u)' = index(u) /\ level'[u] = level[u]
      BY <1>1 DEF malloc_return, TypeOK, Holds, index
    <2>3. Taken' = Taken BY <2>2, <1>f, <1>1 DEF Taken
    <2>4. ListsExact' BY <2>2, <2>3, <1>1, <1>u, <1>s DEF ListsExact
    <2>5. Hands'
      <3>1. \A u \in Thread : pc'[u] \in {"find", "split"} <=> mutex' = u
        BY <2>2, <1>f, <1>1, HeapAssumption DEF Hands
      <3> QED BY <3>1, <2>2, <1>1, <1>u, <1>s DEF Hands
    <2> QED BY <2>1, <2>4, <2>5, <1>s
  <1>2. CASE /\ level[t] < Lists /\ list[level[t]] # <<>>
             /\ node' = [node EXCEPT ![t] = Head(list[level[t]])]
             /\ list' = [list EXCEPT ![level[t]] = Tail(@)]
             /\ pc' = [pc EXCEPT ![t] = "split"]
             /\ UNCHANGED <<mutex, asked, level>>
    <2> DEFINE k == level[t]
               b == Head(list[k])
    <2>1. k \in 0..Lists - 1 BY <1>2, <1>n, HeapAssumption
    <2>2. /\ b \in Addr /\ b \in Members(list[k]) /\ Tail(list[k]) \in Seq(Addr)
          /\ Members(Tail(list[k])) = Members(list[k]) \ {b}
          /\ Once(Tail(list[k]))
      BY <2>1, <1>2, Uncons DEF TypeOK, ListsExact
    <2>3. size[b] = k /\ status[b] = 0 /\ b \notin Taken /\ b \in Leaf
      <3>1. size[b] = k /\ status[b] = 0 /\ b \notin Taken
        BY <2>1, <2>2 DEF ListsExact
      <3>2. k # None BY <2>1, HeapAssumption
      <3> QED BY <3>1, <3>2, <2>2 DEF Leaf
    <2>k. k <= Top BY <2>3, <2>1, <2>2, HeapAssumption DEF TypeOK
    <2> HIDE DEF b, k
    <2>d. /\ node' = [node EXCEPT ![t] = b] /\ list' = [list EXCEPT ![k] = Tail(list[k])]
      BY <1>2 DEF b, k
    <2>4. TypeOK'
      <3>1. list' \in [0..Lists - 1 -> Seq(Addr)] BY <2>1, <2>2, <2>d DEF TypeOK
      <3>2. node' \in [Thread -> Addr] BY <2>2, <2>d DEF TypeOK
      <3>3. pc' \in [Thread -> {"idle", "find", "split", "map"}] BY <1>2 DEF TypeOK
      <3> QED BY <3>1, <3>2, <3>3, <1>2, <1>u DEF TypeOK
    <2>5. /\ pc'[t] = "split" /\ Holds(t)' /\ node'[t] = b
          /\ \A u \in Thread \ {t} : /\ pc'[u] = pc[u] /\ Holds(u)' = Holds(u)
                                     /\ node'[u] = node[u]
          /\ \A u \in Thread : index(u)' = index(u)
      BY <1>2, <2>d DEF TypeOK, Holds, index
    <2>6. Taken' = Taken \cup {b} BY <2>5, <1>f DEF Taken
    <2>7. \A j \in 0..Lists - 1 : list'[j] = IF j = k THEN Tail(list[k]) ELSE list[j]
      BY <2>d DEF TypeOK
    <2>8. ListsExact'
      <3>1. \A j \in 0..Lists - 1 :
              Once(list'[j]) /\ Members(list'[j]) = Members(list[j]) \ {b}
        <4>1. ASSUME NEW j \in 0..Lists - 1, j # k PROVE b \notin Members(list[j])
          BY <4>1, <2>3 DEF ListsExact
        <4> QED BY <4>1, <2>2, <2>7 DEF ListsExact
      <3>2. ASSUME NEW u \in Thread, NEW v \in Thread, Holds(u)', Holds(v)', u # v
            PROVE  node'[u] # node'[v]
        <4>1. \A w \in Thread \ {t} : Holds(w)' => node[w] \in Taken
          BY <2>5 DEF Taken
        <4> QED BY <4>1, <3>2, <2>3, <2>5 DEF ListsExact
      <3>3. ASSUME NEW c \in Leaf' \ Taken', status'[c] = 0
            PROVE  c \in Members(list'[size'[c]])
        <4>1. c \in Leaf \ Taken /\ status[c] = 0 /\ c # b
          BY <3>3, <2>6, <1>s, <1>u
        <4>2. c \in Members(list[size[c]]) BY <4>1 DEF ListsExact
        <4>3. size[c] \in 0..Lists - 1 BY <4>1, HeapAssumption DEF Leaf, TypeOK
        <4> QED BY <4>1, <4>2, <4>3, <3>1, <1>u
      <3>4. ASSUME NEW j \in 0..Lists - 1, NEW c \in Members(list'[j])
            PROVE  size'[c] = j /\ status'[c] = 0 /\ c \notin Taken'
        BY <3>1, <2>6, <1>u DEF ListsExact
      <3> QED BY <3>1, <3>2, <3>3, <3>4 DEF ListsExact
    <2>9. Hands'
      <3>1. \A u \in Thread : pc'[u] \in {"find", "split"} <=> mutex' = u
        BY <2>5, <1>f, <1>2 DEF Hands
      <3>2. /\ level'[t] >= index(t)' /\ node'[t] \in Leaf' /\ size'[node'[t]] = level'[t]
            /\ status'[node'[t]] = 0 /\ level'[t] <= Top
        BY <1>n, <2>3, <2>5, <2>k, <1>2, <1>u, <1>s DEF k
      <3> QED BY <3>1, <3>2, <2>5, <1>2, <1>u, <1>s DEF Hands
    <2> QED BY <2>4, <2>8, <2>9, <1>s
  <1>3. CASE /\ level[t] < Lists /\ level' = [level EXCEPT ![t] = @ + 1]
             /\ UNCHANGED <<list, mutex, asked, node, pc>>
    <2>1. TypeOK' BY <1>3, <1>u DEF TypeOK
    <2>2. /\ \A u \in Thread : Holds(u)' = Holds(u) /\ index(u)' = index(u)
          /\ \A u \in Thread \ {t} : level'[u] = level[u]
          /\ Taken' = Taken
      BY <1>3 DEF TypeOK, Holds, index, Taken
    <2>3. ListsExact' BY <2>2, <1>3, <1>u, <1>s DEF ListsExact
    <2>4. Hands'
      <3>1. \A u \in Thread : ~ Holds(t)' BY <1>f, <2>2
      <3>2. level'[t] = level[t] + 1 /\ level[t] \in Nat BY <1>3 DEF TypeOK
      <3>3. level'[t] >= index(t)' BY <3>2, <2>2, <1>n
      <3> QED BY <3>1, <3>3, <2>2, <1>3, <1>u, <1>s DEF Hands
    <2> QED BY <2>1, <2>3, <2>4, <1>s
  <1> QED BY <1>1, <1>2, <1>3 DEF _find_node, malloc_null

(* A split: the right half begins where no leaf was, and both halves lie   *)
(* in the block that was split.                                            *)
LEMMA SplitInv ==
  ASSUME HeapInv, NEW t \in Thread, _split_node(t)
  PROVE  HeapInv'
  <1> USE DEF HeapInv
  <1> DEFINE b == node[t]
             k == level[t] - 1
             r == b + Bytes[k]
  <1>1. Holds(t) /\ b \in Leaf /\ size[b] = level[t] /\ status[b] = 0 /\ b \in Taken
    BY DEF _split_node, Holds, Hands, Taken
  <1>2. index(t) \in Nat BY LogNat DEF TypeOK, index
  <1>3. level[t] \in 1..Top /\ level[t] > index(t) /\ k \in 0..Top /\ k >= index(t)
    <2>1. level[t] \in Nat /\ level[t] <= Top /\ level[t] > index(t)
      BY <1>1 DEF _split_node, Hands, TypeOK
    <2>2. Top \in Nat BY HeapAssumption
    <2> HIDE DEF HeapInv
    <2> QED BY <2>1, <2>2, <1>2
  <1>4. Bytes[k] \in Nat /\ Bytes[k] > 0 /\ Bytes[level[t]] = 2 * Bytes[k]
    BY <1>3, Double
  <1>5. b \in Nat /\ b \in Addr /\ b + Bytes[level[t]] <= Bytes[Top]
    BY <1>1, ZeroAddr DEF Apart, Leaf
  <1>6. r \in Addr /\ r > b /\ r + Bytes[k] = b + Bytes[level[t]] /\ r \in Nat
    BY <1>4, <1>5, ZeroAddr
  <1>7. r \notin Leaf
    <2>1. SUFFICES ASSUME r \in Leaf PROVE FALSE OBVIOUS
    <2>2. b + Bytes[level[t]] <= r BY <2>1, <1>1, <1>6 DEF Apart
    <2> QED BY <2>2, <1>4, <1>5, <1>6
  <1>k. k # None /\ k \in 0..Lists - 1 BY <1>3, HeapAssumption
  <1>d. /\ size' = [size EXCEPT ![b] = k, ![r] = k]
        /\ status' = [status EXCEPT ![b] = 0, ![r] = 0]
        /\ list' = [list EXCEPT ![k] = <<r>> \o @]
        /\ level' = [level EXCEPT ![t] = k]
        /\ UNCHANGED <<mutex, pc, asked, node, live, mapped>>
    BY DEF _split_node, _add_to_list
  <1> HIDE DEF b, k, r
  <1>8. /\ size'[b] = k /\ size'[r] = k /\ status'[b] = 0 /\ status'[r] = 0
        /\ \A c \in Addr \ {b, r} : size'[c] = size[c] /\ status'[c] = status[c]
    BY <1>d, <1>5, <1>6 DEF TypeOK
  <1>9. Leaf' = Leaf \cup {r}
    BY <1>8, <1>1, <1>5, <1>6, <1>k, ZenonT(20) DEF Leaf
  <1>10. \A c \in Leaf \ {b} : c # r /\ size'[c] = size[c] /\ status'[c] = status[c]
    BY <1>8, <1>7 DEF Leaf
  <1>11. \A c \in Leaf : c \in Addr /\ c \in Nat /\ size[c] \in 0..Top
                         /\ Bytes[size[c]] \in Nat /\ Bytes[size[c]] > 0
    BY ZeroAddr, Double DEF Leaf, TypeOK
  <1>12. Apart'
    <2>1. ASSUME NEW c \in Leaf' PROVE c + Bytes[size'[c]] <= Bytes[Top]
      <3>1. CASE c = b BY <3>1, <1>4, <1>5, <1>8, <1>6, ZeroAddr
      <3>2. CASE c = r BY <3>2, <1>5, <1>6, <1>8
      <3>3. CASE c \in Leaf \ {b} BY <3>3, <1>10 DEF Apart
      <3> QED BY <3>1, <3>2, <3>3, <1>9
    <2>2. ASSUME NEW c \in Leaf', NEW e \in Leaf', c < e
          PROVE  c + Bytes[size'[c]] <= e
      <3>0. b + Bytes[k] = r BY DEF r
      <3>1. CASE c = b /\ e = r BY <3>1, <3>0, <1>8, <1>6
      <3>2. CASE c = b /\ e \in Leaf
        <4>1. b + Bytes[level[t]] <= e BY <3>2, <2>2, <1>1 DEF Apart
        <4>2. e \in Nat BY <3>2, <1>11
        <4> QED BY <4>1, <4>2, <3>2, <1>8, <1>4, <1>5
      <3>3. CASE c = r /\ e \in Leaf
        <4>1. e \in Nat BY <3>3, <1>11
        <4>2. b < e BY <4>1, <3>3, <2>2, <1>6, <1>5
        <4>3. b + Bytes[level[t]] <= e BY <4>2, <3>3, <1>1 DEF Apart
        <4> QED BY <4>3, <3>3, <1>8, <1>6
      <3>4. CASE c \in Leaf \ {b} /\ e \in Leaf
        BY <3>4, <2>2, <1>10 DEF Apart
      <3>5. CASE c \in Leaf \ {b} /\ e = r
        <4>1. c \in Nat /\ Bytes[size[c]] \in Nat BY <3>5, <1>11
        <4>2. CASE c < b
          <5>1. c + Bytes[size[c]] <= b BY <4>2, <3>5, <1>1 DEF Apart
          <5> QED BY <5>1, <4>1, <3>5, <1>10, <1>6, <1>5
        <4>3. CASE b < c
          <5>1. b + Bytes[level[t]] <= c BY <4>3, <3>5, <1>1 DEF Apart
          <5> QED BY <5>1, <4>1, <3>5, <2>2, <1>4, <1>5, <1>6
        <4> QED BY <4>1, <4>2, <4>3, <3>5, <1>5
      <3>6. c # r \/ e # r BY <2>2, <1>6
      <3> QED BY <3>1, <3>2, <3>3, <3>4, <3>5, <3>6, <1>9
    <2> QED BY <2>1, <2>2 DEF Apart
  <1>13. Cover'
    <2>1. size[0] # None BY <1>1 DEF Cover
    <2>2. 0 \in Leaf BY <2>1, ZeroAddr DEF Leaf
    <2>3. size'[0] # None BY <2>2, <1>9 DEF Leaf
    <2>4. ASSUME NEW a \in Addr
          PROVE  \E c \in Leaf' : c <= a /\ a < c + Bytes[size'[c]]
      <3>1. PICK c \in Leaf : c <= a /\ a < c + Bytes[size[c]] BY <2>1 DEF Cover
      <3>2. CASE c # b BY <3>1, <3>2, <1>9, <1>10
      <3>3. CASE c = b /\ a < r
        <4>1. b <= a /\ a < b + Bytes[size'[b]] BY <3>1, <3>3, <1>8 DEF r
        <4> QED BY <4>1, <1>1, <1>9
      <3>4. CASE c = b /\ r <= a
        <4>1. a < r + Bytes[size'[r]] BY <3>1, <3>4, <1>8, <1>6, <1>1
        <4> QED BY <4>1, <3>4, <1>9
      <3>5. a \in Nat BY ZeroAddr
      <3> QED BY <3>2, <3>3, <3>4, <3>5, <1>6
    <2> QED BY <2>3, <2>4 DEF Cover
  <1>14. /\ Taken' = Taken
         /\ \A u \in Thread : Holds(u)' = Holds(u) /\ index(u)' = index(u)
    BY <1>d DEF Taken, Holds, index
  <1>15. \A c \in Taken : c \in Leaf BY DEF Taken, Hands
  <1>16. \A j \in 0..Lists - 1 : \A c \in Members(list[j]) : c \in Leaf /\ c # b
    <2>1. \A j \in 0..Lists - 1 : \A c \in Members(list[j]) :
            size[c] = j /\ c \notin Taken
      BY DEF ListsExact
    <2>a. \A j \in 0..Lists - 1 : \A c \in Members(list[j]) : c \in Addr
      BY MembersIn, ZenonT(20) DEF TypeOK
    <2>2. \A j \in 0..Lists - 1 : j # None BY HeapAssumption
    <2> QED BY <2>1, <2>2, <2>a, <1>1 DEF Leaf
  <1>17. /\ <<r>> \o list[k] \in Seq(Addr)
         /\ Members(<<r>> \o list[k]) = Members(list[k]) \cup {r}
         /\ Once(<<r>> \o list[k])
    <2>1. list[k] \in Seq(Addr) /\ Once(list[k]) BY <1>k, ZenonT(20) DEF TypeOK, ListsExact
    <2>2. r \notin Members(list[k]) BY <1>k, <1>7, <1>16
    <2> QED BY <2>1, <2>2, <1>6, Cons
  <1>18. \A j \in 0..Lists - 1 : list'[j] = IF j = k THEN <<r>> \o list[k] ELSE list[j]
    BY <1>d DEF TypeOK
  <1>19. ListsExact'
    <2>1. ASSUME NEW j \in 0..Lists - 1
          PROVE  Once(list'[j]) /\ \A c \in Members(list'[j]) :
                   size'[c] = j /\ status'[c] = 0 /\ c \notin Taken'
      <3>1. Once(list'[j]) BY <1>17, <1>18 DEF ListsExact
      <3>2. ASSUME NEW c \in Members(list[j])
            PROVE  size'[c] = j /\ status'[c] = 0 /\ c \notin Taken'
        BY <1>16, <1>10, <1>14 DEF ListsExact
      <3>3. r \notin Taken' BY <1>14, <1>15, <1>7
      <3> QED BY <3>1, <3>2, <3>3, <1>8, <1>17, <1>18
    <2>2. ASSUME NEW c \in Leaf' \ Taken', status'[c] = 0
          PROVE  c \in Members(list'[size'[c]])
      <3>1. CASE c = r BY <3>1, <1>8, <1>17, <1>18, <1>k
      <3>2. CASE c # r
        <4>1. c \in Leaf \ {b} /\ c \notin Taken BY <2>2, <3>2, <1>9, <1>14, <1>1
        <4>2. c \in Members(list[size[c]]) BY <4>1, <2>2, <1>10 DEF ListsExact
        <4>3. size[c] \in 0..Lists - 1 BY <4>1, <1>11, HeapAssumption
        <4> QED BY <4>1, <4>2, <4>3, <1>10, <1>17, <1>18
      <3> QED BY <3>1, <3>2
    <2>3. \A u, v \in Thread : Holds(u)' /\ Holds(v)' /\ u # v => node'[u] # node'[v]
      BY <1>14, <1>d DEF ListsExact
    <2> QED BY <2>1, <2>2, <2>3 DEF ListsExact
  <1>20. Hands'
    <2>1. ASSUME NEW u \in Thread, u # t, Holds(u)
          PROVE  node'[u] \in Leaf \ {b} /\ level'[u] = level[u] /\ node'[u] = node[u]
      BY <2>1, <1>1, <1>d DEF Hands, ListsExact, TypeOK, b
    <2>2. ASSUME NEW u \in Thread, u # t, Holds(u)
          PROVE  /\ node'[u] \in Leaf' /\ size'[node'[u]] = level'[u]
                 /\ status'[node'[u]] = 0 /\ level'[u] <= Top
      BY <2>1, <2>2, <1>9, <1>10 DEF Hands
    <2>3. /\ node'[t] = b /\ level'[t] = k /\ k <= Top /\ k >= index(t)'
          /\ b \in Leaf' /\ size'[b] = k /\ status'[b] = 0
      BY <1>d, <1>1, <1>3, <1>8, <1>9, <1>14, HeapAssumption DEF TypeOK, b
    <2>4. \A u \in Thread : /\ pc'[u] \in {"find", "split"} <=> mutex' = u
      BY <1>d DEF Hands
    <2>5. \A u \in Thread \ {t} : pc'[u] # "idle" => level'[u] >= index(u)'
      BY <1>d, <1>14 DEF Hands, TypeOK
    <2> QED BY <2>2, <2>3, <2>4, <2>5, <1>14 DEF Hands
  <1>21. FreeAccepts'
    <2>1. \A c \in live : c \in Leaf \ {b} BY <1>1 DEF FreeAccepts, _get_by_addr, Leaf, TypeOK
    <2> QED BY <2>1, <1>9, <1>10, <1>d, ZenonT(20) DEF FreeAccepts, _get_by_addr, Leaf
  <1>22. TypeOK'
    <2>1. list' \in [0..Lists - 1 -> Seq(Addr)] BY <1>17, <1>k, <1>d DEF TypeOK
    <2>2. size' \in [Addr -> 0..Top \cup {None}] BY <1>d, <1>3, ZenonT(20) DEF TypeOK
    <2>3. status' \in [Addr -> {0, 1}] BY <1>d, ZenonT(20) DEF TypeOK
    <2>4. level' \in [Thread -> Nat] BY <1>d, <1>3 DEF TypeOK
    <2> QED BY <2>1, <2>2, <2>3, <2>4, <1>d, ZenonT(20) DEF TypeOK
  <1> QED BY <1>12, <1>13, <1>19, <1>20, <1>21, <1>22

(* The end of malloc's section: the block in hand stays in hand.           *)
LEMMA UnlockInv ==
  ASSUME HeapInv, NEW t \in Thread, malloc_unlock(t)
  PROVE  HeapInv'
  <1> USE DEF HeapInv
  <1>1. /\ UNCHANGED <<size, status, list, asked, level, node, live, mapped>>
        /\ mutex' = Free /\ pc' = [pc EXCEPT ![t] = "map"]
        /\ pc[t] = "split" /\ mutex = t /\ t # Free
    BY HeapAssumption DEF malloc_unlock, Hands
  <1>2. TypeOK' BY <1>1 DEF TypeOK
  <1>3. /\ pc'[t] = "map" /\ Holds(t) /\ \A u \in Thread : Holds(u)' = Holds(u)
        /\ \A u \in Thread \ {t} : pc'[u] = pc[u]
        /\ \A u \in Thread : index(u)' = index(u)
    BY <1>1 DEF TypeOK, Holds, index
  <1>4. Leaf' = Leaf /\ Taken' = Taken BY <1>1, <1>3 DEF Leaf, Taken
  <1>5. Apart' /\ Cover' /\ FreeAccepts'
    BY <1>1, <1>4 DEF Apart, Cover, FreeAccepts, _get_by_addr
  <1>6. ListsExact' BY <1>1, <1>3, <1>4 DEF ListsExact
  <1>7. Hands'
    <2>1. \A u \in Thread : pc'[u] \in {"find", "split"} <=> mutex' = u
      BY <1>1, <1>3, HeapAssumption DEF Hands
    <2> QED BY <2>1, <1>1, <1>3, <1>4 DEF Hands
  <1> QED BY <1>2, <1>5, <1>6, <1>7

(* The write of the status outside the lock touches a block that no list   *)
(* and no other thread holds.                                              *)
LEMMA MapInv ==
  ASSUME HeapInv, NEW t \in Thread, malloc_map(t)
  PROVE  HeapInv'
  <1> USE DEF HeapInv
  <1> DEFINE b == node[t]
  <1>1. /\ pc[t] = "map" /\ Holds(t) /\ b \in Leaf /\ b \in Taken /\ b \in Addr
        /\ mutex # t
    BY DEF malloc_map, Holds, Hands, Taken, Leaf
  <1>2. /\ UNCHANGED <<size, list, mutex>>
        /\ status' = [status EXCEPT ![b] = 1]
        /\ node' = [node EXCEPT ![t] = 0]
        /\ pc' = [pc EXCEPT ![t] = "idle"]
        /\ asked' = [asked EXCEPT ![t] = 0]
        /\ level' = [level EXCEPT ![t] = 0]
        /\ live' = live \cup {b} \/ live' = live
    BY DEF malloc_map, malloc_return
  <1>m. mapped' \in SUBSET Addr BY DEF malloc_map, Pages, TypeOK
  <1> HIDE DEF b
  <1>3. TypeOK'
    <2>1. node' \in [Thread -> Addr] BY <1>2, ZeroAddr DEF TypeOK
    <2>2. live' \in SUBSET Addr BY <1>1, <1>2 DEF TypeOK
    <2>3. status' \in [Addr -> {0, 1}] BY <1>2, ZenonT(20) DEF TypeOK
    <2>4. /\ pc' \in [Thread -> {"idle", "find", "split", "map"}]
          /\ asked' \in [Thread -> Nat] /\ level' \in [Thread -> Nat]
      BY <1>2 DEF TypeOK
    <2> QED BY <2>1, <2>2, <2>3, <2>4, <1>2, <1>m DEF TypeOK
  <1>4. /\ pc'[t] = "idle" /\ ~ Holds(t)'
        /\ \A u \in Thread \ {t} : /\ pc'[u] = pc[u] /\ Holds(u)' = Holds(u)
                                   /\ node'[u] = node[u] /\ level'[u] = level[u]
                                   /\ index(u)' = index(u)
    BY <1>2 DEF TypeOK, Holds, index
  <1>5. Taken' = Taken \ {b}
    <2>1. \A u \in Thread \ {t} : Holds(u) => node[u] # b BY <1>1 DEF ListsExact, b
    <2> QED BY <2>1, <1>1, <1>4 DEF Taken, b
  <1>6. status'[b] = 1 /\ \A c \in Addr \ {b} : status'[c] = status[c]
    BY <1>1, <1>2 DEF TypeOK
  <1>7. Leaf' = Leaf /\ Apart' /\ Cover' BY <1>2 DEF Leaf, Apart, Cover
  <1>8. ListsExact'
    <2>1. ASSUME NEW k \in 0..Lists - 1, NEW c \in Members(list'[k])
          PROVE  size'[c] = k /\ status'[c] = 0 /\ c \notin Taken'
      <3>1. size[c] = k /\ status[c] = 0 /\ c \notin Taken BY <2>1, <1>2 DEF ListsExact
      <3>2. c \in Addr BY <1>2, MembersIn, ZenonT(20) DEF TypeOK
      <3> QED BY <3>1, <3>2, <1>1, <1>2, <1>5, <1>6
    <2>2. ASSUME NEW c \in Leaf' \ Taken', status'[c] = 0
          PROVE  c \in Members(list'[size'[c]])
      <3>1. c \in Leaf /\ c # b /\ c \in Addr BY <2>2, <1>6, <1>7 DEF Leaf
      <3> QED BY <3>1, <2>2, <1>2, <1>5, <1>6 DEF ListsExact
    <2>3. \A u, v \in Thread : Holds(u)' /\ Holds(v)' /\ u # v => node'[u] # node'[v]
      BY <1>4 DEF ListsExact
    <2>4. \A k \in 0..Lists - 1 : Once(list'[k]) BY <1>2 DEF ListsExact
    <2> QED BY <2>1, <2>2, <2>3, <2>4, ZenonT(20) DEF ListsExact
  <1>9. Hands'
    <2>1. \A u \in Thread : pc'[u] \in {"find", "split"} <=> mutex' = u
      BY <1>1, <1>2, <1>4 DEF Hands
    <2>2. ASSUME NEW u \in Thread, Holds(u)'
          PROVE  /\ u # t /\ node'[u] \in Leaf' /\ size'[node'[u]] = level'[u]
                 /\ status'[node'[u]] = 0 /\ level'[u] <= Top
      <3>1. u # t /\ Holds(u) /\ node[u] # b BY <2>2, <1>1, <1>4 DEF ListsExact, b
      <3>2. node[u] \in Addr BY DEF TypeOK
      <3> QED BY <3>1, <3>2, <1>2, <1>4, <1>6, <1>7 DEF Hands
    <2> QED BY <2>1, <2>2, <1>4, ZenonT(20) DEF Hands
  <1>10. FreeAccepts'
    <2>1. ASSUME NEW c \in live' PROVE _get_by_addr(c)' /\ status'[c] = 1
      <3>1. CASE c = b BY <3>1, <1>1, <1>2, <1>6 DEF _get_by_addr, Leaf
      <3>2. CASE c # b
        <4>1. c \in live /\ c \in Addr BY <3>2, <1>2 DEF TypeOK
        <4> QED BY <4>1, <3>2, <1>2, <1>6 DEF FreeAccepts, _get_by_addr
      <3> QED BY <3>1, <3>2
    <2> QED BY <2>1 DEF FreeAccepts
  <1> QED BY <1>3, <1>7, <1>8, <1>9, <1>10

(* A live block is neither listed nor in hand, so free() lists it once.    *)
LEMMA FreeInv ==
  ASSUME HeapInv, NEW t \in Thread, NEW b \in Addr, free(t, b)
  PROVE  HeapInv'
  <1> USE DEF HeapInv
  <1> DEFINE k == size[b]
  <1>1. /\ b \in live /\ k # None /\ status[b] = 1 /\ b \in Leaf
        /\ status' = [status EXCEPT ![b] = 0]
        /\ list' = [list EXCEPT ![k] = <<b>> \o @]
        /\ live' = live \ {b}
        /\ UNCHANGED <<size, mutex, pc, asked, level, node>>
    BY DEF free, _get_by_addr, Leaf, _add_to_list
  <1>m. mapped' \in SUBSET Addr BY DEF free, TypeOK
  <1>2. k \in 0..Top /\ k \in 0..Lists - 1 BY <1>1, HeapAssumption DEF TypeOK
  <1>3. b \notin Taken BY <1>1 DEF Taken, Hands
  <1>4. \A j \in 0..Lists - 1 : b \notin Members(list[j]) BY <1>1 DEF ListsExact
  <1>5. /\ <<b>> \o list[k] \in Seq(Addr)
        /\ Members(<<b>> \o list[k]) = Members(list[k]) \cup {b}
        /\ Once(<<b>> \o list[k])
    <2>1. list[k] \in Seq(Addr) /\ Once(list[k]) BY <1>2 DEF TypeOK, ListsExact
    <2> QED BY <2>1, <1>2, <1>4, Cons
  <1> HIDE DEF k
  <1>6. TypeOK'
    <2>1. list' \in [0..Lists - 1 -> Seq(Addr)] BY <1>1, <1>2, <1>5 DEF TypeOK
    <2>2. status' \in [Addr -> {0, 1}] /\ live' \in SUBSET Addr BY <1>1 DEF TypeOK
    <2> QED BY <2>1, <2>2, <1>1, <1>m DEF TypeOK
  <1>7. status'[b] = 0 /\ \A c \in Addr \ {b} : status'[c] = status[c]
    BY <1>1 DEF TypeOK
  <1>8. \A j \in 0..Lists - 1 : list'[j] = IF j = k THEN <<b>> \o list[k] ELSE list[j]
    BY <1>1 DEF TypeOK
  <1>9. /\ Leaf' = Leaf /\ Taken' = Taken
        /\ \A u \in Thread : Holds(u)' = Holds(u) /\ index(u)' = index(u)
    BY <1>1 DEF Leaf, Taken, Holds, index
  <1>10. Apart' /\ Cover' BY <1>1, <1>9 DEF Apart, Cover
  <1>11. ListsExact'
    <2>1. ASSUME NEW j \in 0..Lists - 1, NEW c \in Members(list'[j])
          PROVE  size'[c] = j /\ status'[c] = 0 /\ c \notin Taken'
      <3>1. CASE c = b
        <4>1. j = k BY <3>1, <1>4, <1>8
        <4> QED BY <4>1, <3>1, <1>1, <1>3, <1>7, <1>9 DEF k
      <3>2. CASE c # b
        <4>1. c \in Members(list[j]) BY <3>2, <1>5, <1>8
        <4>2. c \in Addr BY <4>1, MembersIn, ZenonT(20) DEF TypeOK
        <4> QED BY <4>1, <4>2, <3>2, <1>1, <1>7, <1>9 DEF ListsExact
      <3> QED BY <3>1, <3>2
    <2>2. ASSUME NEW c \in Leaf' \ Taken', status'[c] = 0
          PROVE  c \in Members(list'[size'[c]])
      <3>1. CASE c = b BY <3>1, <1>1, <1>2, <1>5, <1>8 DEF k
      <3>2. CASE c # b
        <4>1. c \in Leaf \ Taken /\ c \in Addr /\ status[c] = 0
          BY <3>2, <2>2, <1>7, <1>9 DEF Leaf
        <4>2. c \in Members(list[size[c]]) BY <4>1 DEF ListsExact
        <4>3. size[c] \in 0..Lists - 1 BY <4>1, HeapAssumption DEF Leaf, TypeOK
        <4> QED BY <4>2, <4>3, <1>1, <1>5, <1>8
      <3> QED BY <3>1, <3>2
    <2>3. \A j \in 0..Lists - 1 : Once(list'[j]) BY <1>5, <1>8 DEF ListsExact
    <2> QED BY <2>1, <2>2, <2>3, <1>1, <1>9 DEF ListsExact
  <1>12. Hands'
    <2>1. \A u \in Thread : Holds(u) => node[u] # b /\ node[u] \in Addr
      BY <1>3 DEF Taken, TypeOK
    <2>2. \A u \in Thread : Holds(u)' => status'[node'[u]] = 0
      BY <2>1, <1>1, <1>7, <1>9, ZenonT(20) DEF Hands
    <2> QED BY <2>2, <1>1, <1>9, ZenonT(20) DEF Hands
  <1>13. FreeAccepts'
    BY <1>1, <1>7 DEF FreeAccepts, _get_by_addr, TypeOK
  <1> QED BY <1>6, <1>10, <1>11, <1>12, <1>13

-----------------------------------------------------------------------------

(* The invariant holds in every state of the allocator.                    *)
THEOREM HeapInvariant == Spec => []HeapInv
  <1>1. HeapInv /\ [Next]_vars => HeapInv'
    <2> SUFFICES ASSUME HeapInv, [Next]_vars PROVE HeapInv' OBVIOUS
    <2>1. CASE UNCHANGED vars
      <3>1. /\ size' = size /\ status' = status /\ list' = list /\ mutex' = mutex
            /\ pc' = pc /\ asked' = asked /\ level' = level /\ node' = node
            /\ live' = live /\ mapped' = mapped
        BY <2>1 DEF vars
      <3>2. TypeOK' BY <3>1 DEF HeapInv, TypeOK
      <3>3. Leaf' = Leaf /\ Taken' = Taken /\ \A t \in Thread : Holds(t)' = Holds(t)
        BY <3>1 DEF Leaf, Taken, Holds
      <3>4. Apart' BY <3>1, <3>3 DEF HeapInv, Apart
      <3>5. Cover' BY <3>1, <3>3 DEF HeapInv, Cover
      <3>6. ListsExact' BY <3>1, <3>3 DEF HeapInv, ListsExact
      <3>7. Hands' BY <3>1, <3>3 DEF HeapInv, Hands, index
      <3>8. FreeAccepts' BY <3>1 DEF HeapInv, FreeAccepts, _get_by_addr
      <3> QED BY <3>2, <3>4, <3>5, <3>6, <3>7, <3>8 DEF HeapInv
    <2>2. CASE Next
      <3>1. PICK t \in Thread : \/ \E n \in Request : malloc(t, n)
                                \/ \E n, align \in Request : aalloc(t, n, align)
                                \/ Locked(t)
                                \/ malloc_map(t)
                                \/ \E b \in Addr : free(t, b)
        BY <2>2 DEF Next
      <3>2. ASSUME NEW n \in Request, NEW align \in Request, aalloc(t, n, align)
            PROVE  \E m \in Request : malloc(t, m)
        BY <3>2 DEF aalloc
      <3> QED BY <3>1, <3>2, MallocInv, FindInv, SplitInv, UnlockInv, MapInv, FreeInv
              DEF Locked
    <2> QED BY <2>1, <2>2
  <1> QED BY <1>1, InitInv, PTL DEF Spec

(* No byte of the heap belongs to two blocks and none gets lost.           *)
THEOREM BlocksPartition == Spec => []Partition
  <1>1. HeapInv => Partition
    <2> SUFFICES ASSUME HeapInv, size[0] # None, NEW a \in Addr
                 PROVE  \E b \in Leaf :
                          /\ a \in Block(b)
                          /\ \A c \in Leaf : a \in Block(c) => c = b
      BY DEF Partition
    <2>1. PICK b \in Leaf : b <= a /\ a < b + Bytes[size[b]]
      BY DEF HeapInv, Cover
    <2>2. \A c \in Leaf : /\ c \in Nat /\ Bytes[size[c]] \in Nat
      BY ZeroAddr, Double DEF Leaf, HeapInv, TypeOK
    <2>3. a \in Nat BY ZeroAddr
    <2>4. \A c \in Leaf : a \in Block(c) <=> c <= a /\ a < c + Bytes[size[c]]
      BY <2>2, <2>3 DEF Block
    <2>5. ASSUME NEW c \in Leaf, a \in Block(c), c # b PROVE FALSE
      <3>1. c <= a /\ a < c + Bytes[size[c]] BY <2>4, <2>5
      <3>2. c < b => c + Bytes[size[c]] <= b BY DEF HeapInv, Apart
      <3>3. b < c => b + Bytes[size[b]] <= c BY DEF HeapInv, Apart
      <3> QED BY <3>1, <3>2, <3>3, <2>1, <2>2, <2>3, <2>5
    <2> QED BY <2>1, <2>4, <2>5
  <1> QED BY <1>1, HeapInvariant, PTL

(* The lists hold the free blocks, each once, and no two threads have the  *)
(* same block in hand.                                                     *)
THEOREM FreeListsExact == Spec => []ListsExact
  BY HeapInvariant, PTL DEF HeapInv

(* free() accepts every block that malloc returned.                        *)
THEOREM LiveBlocksFreeable == Spec => []FreeAccepts
  BY HeapInvariant, PTL DEF HeapInv

-----------------------------------------------------------------------------
(* Alignment, and the memory of live blocks.                               *)

Mult(a, n) == \E q \in Nat : a = q * n

(* Divisibility as the remainder computes it.                              *)
LEMMA MultMod == ASSUME NEW a \in Nat, NEW n \in Nat \ {0}
                 PROVE  a % n = 0 <=> Mult(a, n)
  <1>1. ASSUME a % n = 0 PROVE Mult(a, n)
    <2>1. PICK q \in Nat : q = a \div n OBVIOUS
    <2>2. a - n * (a \div n) = a % n OBVIOUS
    <2>3. a - n * q = 0 BY <2>1, <2>2, <1>1
    <2>4. a = q * n BY <2>3
    <2> QED BY <2>4 DEF Mult
  <1>2. ASSUME Mult(a, n) PROVE a % n = 0
    <2>1. PICK q \in Nat : a = q * n BY <1>2 DEF Mult
    <2> QED BY <2>1
  <1> QED BY <1>1, <1>2

(* Multiples of a number keep their distance.                              *)
LEMMA MultOrder ==
  ASSUME NEW x \in Nat, NEW y \in Nat, NEW n \in Nat, x * n < y * n
  PROVE  x * n + n <= y * n
  <1>1. x < y
    OBVIOUS
  <1>2. PICK d \in Nat : y = x + 1 + d
    BY <1>1
  <1>3. y * n = x * n + n + d * n /\ d * n \in Nat
    BY <1>2
  <1> QED BY <1>3

INSTANCE WellFoundedInduction

(* A nonempty set of naturals has a least member: the form in which the    *)
(* proofs use induction.                                                   *)
LEMMA LeastNat ==
  ASSUME NEW S \in SUBSET Nat, S # {}
  PROVE  \E m \in S : \A k \in S : m <= k
<1> DEFINE Less == OpToRel(<, Nat)
<1>1. \E x \in S : \A y \in S : <<y, x>> \notin Less
  BY NatLessThanWellFounded, WFMin, Zenon
<1>2. \A x, y \in Nat : <<y, x>> \in Less <=> y < x
  BY DEF OpToRel
<1> HIDE DEF Less
<1>3. PICK x \in S : \A y \in S : <<y, x>> \notin Less
  BY <1>1, Zenon
<1>4. x \in Nat /\ \A y \in S : y \in Nat
  OBVIOUS
<1>5. \A y \in S : ~(y < x)
  BY <1>2, <1>3, <1>4, Zenon
<1>6. \A y \in S : x <= y
  BY <1>4, <1>5
<1> QED
  BY <1>6
(* A block of a page or more consists of pages.                            *)
LEMMA PageMult ==
  ASSUME NEW k \in PageLog..Top PROVE Mult(Bytes[k], Bytes[PageLog])
  <1> DEFINE Bad == {j \in PageLog..Top : ~Mult(Bytes[j], Bytes[PageLog])}
  <1>0. PageLog \in Nat /\ Top \in Nat /\ PageLog <= Top
    BY HeapAssumption
  <1>1. ASSUME Bad # {} PROVE FALSE
    <2>1. Bad \in SUBSET Nat BY <1>0
    <2>2. PICK m \in Bad : \A j \in Bad : m <= j BY <1>1, <2>1, LeastNat, Zenon
    <2>3. m \in PageLog..Top /\ ~Mult(Bytes[m], Bytes[PageLog]) OBVIOUS
    <2>4. Bytes[PageLog] \in Nat /\ Bytes[PageLog] = 1 * Bytes[PageLog]
      BY <1>0, Double
    <2>5. m # PageLog BY <2>3, <2>4 DEF Mult
    <2>6. m - 1 \in PageLog..Top /\ m \in 1..Top /\ ~(m <= m - 1)
      BY <2>3, <2>5, <1>0
    <2>7. Mult(Bytes[m - 1], Bytes[PageLog]) BY <2>2, <2>6
    <2>8. PICK q \in Nat : Bytes[m - 1] = q * Bytes[PageLog] BY <2>7 DEF Mult
    <2>9. Bytes[m] = 2 * Bytes[m - 1] BY <2>6, Double
    <2>10. Bytes[m] = (2 * q) * Bytes[PageLog] /\ 2 * q \in Nat
      BY <2>4, <2>8, <2>9
    <2> QED BY <2>3, <2>10 DEF Mult
  <1> QED BY <1>1

(* The pages of an aligned block of a page or more lie inside it.          *)
LEMMA PagesInside ==
  ASSUME NEW b \in Addr, NEW k \in PageLog..Top, Mult(b, Bytes[k]),
         NEW p \in Pages(b, Bytes[k])
  PROVE  b <= p /\ p + Bytes[PageLog] <= b + Bytes[k]
  <1> DEFINE P == Bytes[PageLog]
             B == Bytes[k]
  <1>1. P \in Nat /\ P > 0 /\ B \in Nat /\ B > 0 /\ b \in Nat /\ p \in Nat
    <2>1. PageLog \in 0..Top /\ k \in 0..Top BY HeapAssumption
    <2> QED BY <2>1, Double, ZeroAddr DEF Pages
  <1>2. p % P = 0 /\ p < b + B /\ b < p + P BY DEF Pages
  <1>3. PICK m \in Nat : B = m * P BY PageMult DEF Mult
  <1>4. PICK c \in Nat : b = c * B BY DEF Mult
  <1> HIDE DEF P, B
  <1>5. PICK a \in Nat : p = a * P
    <2>1. Mult(p, P) BY <1>1, <1>2, MultMod
    <2> QED BY <2>1 DEF Mult
  <1>6. PICK e \in Nat : e = c * m OBVIOUS
  <1>7. b = e * P BY <1>1, <1>3, <1>4, <1>6
  <1>8. b + B = (e + m) * P /\ e + m \in Nat BY <1>1, <1>3, <1>7
  <1>9. p + P = (a + 1) * P /\ a + 1 \in Nat BY <1>1, <1>5
  <1>10. b + P <= p + P
    <2>1. e * P < (a + 1) * P BY <1>2, <1>7, <1>9
    <2> QED BY <2>1, <1>1, <1>7, <1>9, MultOrder
  <1>11. p + P <= b + B
    <2>1. a * P < (e + m) * P BY <1>2, <1>5, <1>8
    <2> QED BY <2>1, <1>1, <1>5, <1>8, MultOrder
  <1> QED BY <1>1, <1>10, <1>11 DEF P, B

(* The invariant about memory: blocks are aligned, a block to be mapped    *)
(* has the size asked for, and the pages of live blocks are mapped.        *)
Multiples == \A b \in Leaf : Mult(b, Bytes[size[b]])

Exact == \A t \in Thread : pc[t] = "map" => level[t] = index(t)

MemInv == Multiples /\ Exact /\ LiveMapped

(* The unmapped heap of the start satisfies the invariant on mapped pages. *)
LEMMA MemInit == Init => MemInv
  BY DEF Init, MemInv, Multiples, Exact, LiveMapped, Leaf

(* Entering malloc keeps the invariant on mapped pages.                    *)
LEMMA MemMalloc ==
  ASSUME HeapInv, MemInv, NEW t \in Thread, NEW n \in Request, malloc(t, n)
  PROVE  MemInv'
  <1> USE DEF HeapInv, MemInv
  <1>0. 0 \in Addr BY ZeroAddr
  <1>1. pc' = [pc EXCEPT ![t] = "find"] /\ asked' = [asked EXCEPT ![t] = n]
        /\ level' = [level EXCEPT ![t] = ilog2(n)] /\ live' = live /\ mapped' = mapped
    BY DEF malloc
  <1>2. Exact' BY <1>1 DEF Exact, index, TypeOK
  <1>3. CASE UNCHANGED size
    BY <1>1, <1>2, <1>3 DEF Multiples, LiveMapped, Leaf
  <1>4. CASE size[0] = None /\ size' = [size EXCEPT ![0] = Top]
    <2>1. Leaf = {} BY <1>4 DEF Cover
    <2>2. live = {} BY <2>1 DEF FreeAccepts, _get_by_addr, Leaf, TypeOK
    <2>3. Leaf' = {0} /\ size'[0] = Top
      BY <1>0, <1>4, <2>1, HeapAssumption DEF Leaf, TypeOK
    <2>4. Mult(0, Bytes[Top])
      <3>1. 0 = 0 * Bytes[Top] BY ZeroAddr
      <3> QED BY <3>1 DEF Mult
    <2> QED BY <1>1, <1>2, <2>2, <2>3, <2>4 DEF Multiples, LiveMapped
  <1> QED BY <1>3, <1>4 DEF malloc

(* Searching the free lists, and leaving malloc, keep the invariant on     *)
(* mapped pages.                                                           *)
LEMMA MemFind ==
  ASSUME HeapInv, MemInv, NEW t \in Thread, _find_node(t) \/ malloc_unlock(t)
  PROVE  MemInv'
  <1> USE DEF HeapInv, MemInv
  <1>1. UNCHANGED <<size, live, mapped>>
    BY DEF _find_node, malloc_unlock
  <1>2. Multiples' /\ LiveMapped'
    BY <1>1 DEF Multiples, LiveMapped, Leaf
  <1>3. Exact'
    BY DEF Exact, index, TypeOK, _find_node, malloc_unlock, malloc_null, malloc_return
  <1> QED BY <1>2, <1>3

(* _split_node keeps the invariant on mapped pages.                        *)
LEMMA MemSplit ==
  ASSUME HeapInv, MemInv, NEW t \in Thread, _split_node(t)
  PROVE  MemInv'
  <1> USE DEF HeapInv, MemInv
  <1> DEFINE b == node[t]
             k == level[t] - 1
             r == b + Bytes[k]
  <1>1. b \in Leaf /\ size[b] = level[t] /\ status[b] = 0 /\ level[t] \in Nat /\ level[t] <= Top
    BY DEF _split_node, Holds, Hands, TypeOK
  <1>2. index(t) \in Nat /\ level[t] > index(t) BY LogNat DEF TypeOK, index, _split_node
  <1>3. level[t] \in 1..Top /\ k \in 0..Top
    <2>1. Top \in Nat BY HeapAssumption
    <2> HIDE DEF HeapInv, MemInv
    <2> QED BY <2>1, <1>1, <1>2
  <1>4. Bytes[k] \in Nat /\ Bytes[k] > 0 /\ Bytes[level[t]] = 2 * Bytes[k]
    BY <1>3, Double
  <1>5. b \in Nat /\ b \in Addr /\ b + Bytes[level[t]] <= Bytes[Top]
    BY <1>1, ZeroAddr DEF Apart, Leaf
  <1>6. r \in Addr /\ r > b /\ r + Bytes[k] = b + Bytes[level[t]] /\ r \in Nat
    BY <1>4, <1>5, ZeroAddr
  <1>7. r \notin Leaf
    <2>1. SUFFICES ASSUME r \in Leaf PROVE FALSE OBVIOUS
    <2>2. b + Bytes[level[t]] <= r BY <2>1, <1>1, <1>6 DEF Apart
    <2> QED BY <2>2, <1>4, <1>5, <1>6
  <1>d. /\ size' = [size EXCEPT ![b] = k, ![r] = k]
        /\ level' = [level EXCEPT ![t] = k] /\ pc[t] = "split"
        /\ UNCHANGED <<pc, asked, live, mapped>>
    BY DEF _split_node
  <1>e. r = b + Bytes[k] OBVIOUS
  <1> HIDE DEF b, k, r
  <1>8. /\ size'[b] = k /\ size'[r] = k
        /\ \A c \in Addr \ {b, r} : size'[c] = size[c]
    BY <1>d, <1>5, <1>6 DEF TypeOK
  <1>9. Exact' BY <1>d DEF Exact, index, TypeOK
  <1>10. Multiples'
    <2>1. PICK q \in Nat : b = q * Bytes[level[t]]
      BY <1>1 DEF Multiples, Mult
    <2>2. b = (2 * q) * Bytes[k] /\ 2 * q \in Nat BY <2>1, <1>4
    <2>3. r = (2 * q + 1) * Bytes[k] /\ 2 * q + 1 \in Nat BY <2>2, <1>4, <1>e
    <2>4. Mult(b, Bytes[k]) /\ Mult(r, Bytes[k]) BY <2>2, <2>3 DEF Mult
    <2> QED BY <2>4, <1>8 DEF Multiples, Leaf
  <1>11. LiveMapped'
    <2>1. \A c \in live : c \in Addr /\ c # b /\ c # r
      BY <1>1, <1>7 DEF FreeAccepts, _get_by_addr, Leaf, TypeOK
    <2>2. \A c \in live : size'[c] = size[c] BY <2>1, <1>8
    <2>3. ASSUME NEW c \in live PROVE Pages(c, Bytes[size'[c]]) \subseteq mapped
      <3>1. Pages(c, Bytes[size[c]]) \subseteq mapped BY DEF LiveMapped
      <3> QED BY <3>1, <2>2
    <2> QED BY <2>3, <1>d, Zenon DEF LiveMapped
  <1> QED BY <1>9, <1>10, <1>11

(* Mapping the pages of the block found keeps the invariant on mapped      *)
(* pages.                                                                  *)
LEMMA MemMap ==
  ASSUME HeapInv, MemInv, NEW t \in Thread, malloc_map(t)
  PROVE  MemInv'
  <1> USE DEF HeapInv, MemInv
  <1>1. Multiples' BY DEF malloc_map, Multiples, Leaf
  <1>2. Exact' BY DEF malloc_map, malloc_return, Exact, index, TypeOK
  <1>3. size[node[t]] = index(t)
    BY DEF malloc_map, Exact, Hands, Holds
  <1>4. LiveMapped' BY <1>3 DEF LiveMapped, malloc_map
  <1> QED BY <1>1, <1>2, <1>4

(* What free unmaps belongs to no other block.                             *)
LEMMA MemFree ==
  ASSUME HeapInv, MemInv, NEW t \in Thread, NEW b \in Addr, free(t, b)
  PROVE  MemInv'
  <1> USE DEF HeapInv, MemInv
  <1>1. /\ size' = size /\ live' = live \ {b} /\ b \in Leaf
        /\ UNCHANGED <<pc, asked, level>>
    BY DEF free, _get_by_addr, Leaf
  <1>2. Multiples' BY <1>1 DEF Multiples, Leaf
  <1>3. Exact' BY <1>1 DEF Exact, index
  <1>4. CASE mapped' = mapped
    BY <1>1, <1>2, <1>3, <1>4 DEF LiveMapped
  <1>5. CASE size[b] >= PageLog /\ mapped' = mapped \ Pages(b, Bytes[size[b]])
    <2>1. SUFFICES ASSUME NEW c \in live, c # b,
                          NEW p \in Pages(c, Bytes[size[c]]), p \in Pages(b, Bytes[size[b]])
                   PROVE  FALSE
      BY <1>1, <1>2, <1>3, <1>5 DEF LiveMapped
    <2>2. c \in Leaf BY DEF FreeAccepts, _get_by_addr, Leaf, TypeOK
    <2>3. /\ size[b] \in 0..Top /\ size[c] \in 0..Top /\ b \in Addr /\ c \in Addr
          /\ PageLog \in 0..Top
      BY <1>1, <2>2, HeapAssumption DEF Leaf, TypeOK
    <2>4. /\ b \in Nat /\ c \in Nat /\ p \in Nat
          /\ Bytes[size[b]] \in Nat /\ Bytes[size[c]] \in Nat /\ Bytes[PageLog] \in Nat
      BY <2>3, Double, ZeroAddr DEF Pages
    <2>5. size[b] \in PageLog..Top BY <2>3, <1>5
    <2>6. Mult(b, Bytes[size[b]]) BY <1>1 DEF Multiples
    <2>7. b <= p /\ p + Bytes[PageLog] <= b + Bytes[size[b]]
      BY <2>1, <2>3, <2>5, <2>6, PagesInside
    <2>8. p < c + Bytes[size[c]] /\ c < p + Bytes[PageLog] BY DEF Pages
    <2>9. b < c => b + Bytes[size[b]] <= c BY <1>1, <2>2 DEF Apart
    <2>10. c < b => c + Bytes[size[c]] <= b BY <1>1, <2>2 DEF Apart
    <2> HIDE DEF HeapInv, MemInv
    <2> QED BY <2>1, <2>4, <2>7, <2>8, <2>9, <2>10
  <1> QED BY <1>4, <1>5 DEF free

(* The invariant on mapped pages holds in every reachable state.           *)
LEMMA MemInvariant == Spec => []MemInv
  <1>1. HeapInv /\ MemInv /\ [Next]_vars => MemInv'
    <2> SUFFICES ASSUME HeapInv, MemInv, [Next]_vars PROVE MemInv' OBVIOUS
    <2>1. CASE UNCHANGED vars
      BY <2>1, ZenonT(20) DEF vars, MemInv, Multiples, Exact, LiveMapped, Leaf, index
    <2>2. CASE Next
      <3>1. PICK t \in Thread : \/ \E n \in Request : malloc(t, n)
                                \/ \E n, align \in Request : aalloc(t, n, align)
                                \/ Locked(t)
                                \/ malloc_map(t)
                                \/ \E b \in Addr : free(t, b)
        BY <2>2 DEF Next
      <3>2. ASSUME NEW n \in Request, NEW align \in Request, aalloc(t, n, align)
            PROVE  \E m \in Request : malloc(t, m)
        BY <3>2 DEF aalloc
      <3> QED BY <3>1, <3>2, MemMalloc, MemFind, MemSplit, MemMap, MemFree DEF Locked
    <2> QED BY <2>1, <2>2
  <1> QED BY <1>1, MemInit, HeapInvariant, PTL DEF Spec

(* The memory of a block is mapped from malloc to free, although blocks    *)
(* smaller than a page share theirs and malloc maps outside the lock: free *)
(* unmaps only pages that lie inside its block.                            *)
THEOREM LiveBlocksMapped == Spec => []LiveMapped
  BY MemInvariant, PTL DEF MemInv

(* Every block begins at a multiple of its size, which is what aalloc      *)
(* relies on for the alignment it promises.                                *)
THEOREM BlocksAligned == Spec => []Aligned
  <1>1. HeapInv /\ MemInv => Aligned
    <2> SUFFICES ASSUME HeapInv, MemInv, NEW b \in Leaf PROVE b % Bytes[size[b]] = 0
      BY DEF Aligned
    <2>1. b \in Nat /\ Bytes[size[b]] \in Nat \ {0}
      BY ZeroAddr, Double DEF Leaf, HeapInv, TypeOK
    <2>2. Mult(b, Bytes[size[b]]) BY DEF MemInv, Multiples
    <2> QED BY <2>1, <2>2, MultMod
  <1> QED BY <1>1, HeapInvariant, MemInvariant, PTL

-----------------------------------------------------------------------------
(* The logarithm of ilog2 and the sizes of blocks.                         *)

(* The powers of two of a word, as "1 << r" gives them.                    *)
LEMMA Powers ==
  /\ shl(0) = 1
  /\ shl(1) = 2
  /\ shl(2) = 4
  /\ shl(3) = 8
  /\ shl(4) = 16
  /\ shl(5) = 32
  /\ shl(6) = 64
  /\ shl(7) = 128
  /\ shl(8) = 256
  /\ shl(9) = 512
  /\ shl(10) = 1024
  /\ shl(11) = 2048
  /\ shl(12) = 4096
  /\ shl(13) = 8192
  /\ shl(14) = 16384
  /\ shl(15) = 32768
  /\ shl(16) = 65536
  /\ shl(17) = 131072
  /\ shl(18) = 262144
  /\ shl(19) = 524288
  /\ shl(20) = 1048576
  /\ shl(21) = 2097152
  /\ shl(22) = 4194304
  /\ shl(23) = 8388608
  /\ shl(24) = 16777216
  /\ shl(25) = 33554432
  /\ shl(26) = 67108864
  /\ shl(27) = 134217728
  /\ shl(28) = 268435456
  /\ shl(29) = 536870912
  /\ shl(30) = 1073741824
  /\ shl(31) = 2 * 1073741824
<1>1. /\ shl(0) = 1 /\ shl(1) = 2 /\ shl(2) = 4 /\ shl(3) = 8
      /\ shl(4) = 16 /\ shl(5) = 32 /\ shl(6) = 64 /\ shl(7) = 128
  BY DEF shl, factor
<1>2. /\ shl(8) = 256 /\ shl(9) = 512 /\ shl(10) = 1024 /\ shl(11) = 2048
      /\ shl(12) = 4096 /\ shl(13) = 8192 /\ shl(14) = 16384 /\ shl(15) = 32768
  BY DEF shl, factor
<1>3. /\ shl(16) = 65536 /\ shl(17) = 131072 /\ shl(18) = 262144 /\ shl(19) = 524288
      /\ shl(20) = 1048576 /\ shl(21) = 2097152 /\ shl(22) = 4194304 /\ shl(23) = 8388608
  BY DEF shl, factor
<1>4. /\ shl(24) = 16777216 /\ shl(25) = 33554432 /\ shl(26) = 67108864 /\ shl(27) = 134217728
      /\ shl(28) = 268435456 /\ shl(29) = 536870912 /\ shl(30) = 1073741824 /\ shl(31) = 2 * 1073741824
  BY DEF shl, factor
<1> QED
  BY <1>1, <1>2, <1>3, <1>4

(* A factor on both sides of an inequality.                                *)
LEMMA Scaled ==
  ASSUME NEW a \in Nat, NEW b \in Nat, NEW p \in Nat, a <= b
  PROVE  a * p <= b * p
<1>1. PICK d \in Nat : b = a + d
  <2>1. b - a \in Nat /\ b = a + (b - a)
    OBVIOUS
  <2> QED
    BY <2>1
<1>2. (a + d) * p = a * p + d * p /\ a * p \in Nat /\ d * p \in Nat
  OBVIOUS
<1> QED
  BY <1>1, <1>2

(* n without its lower bits, of which there are as many as p has.          *)
Within(n, m, p) == m * p <= n /\ n < (m + 1) * p

(* Shifting n further keeps it between what is left and the next (one test *)
(* of ilog2).                                                              *)
LEMMA Shifted ==
  ASSUME NEW n \in Nat, NEW m \in Nat, NEW p \in Nat, NEW s \in Nat \ {0}, Within(n, m, p)
  PROVE  m \div s \in Nat /\ Within(n, m \div s, s * p)
<1> DEFINE q == m \div s
<1>1. q \in Nat /\ q * s <= m /\ m + 1 <= (q + 1) * s
  OBVIOUS
<1> HIDE DEF q
<1>2. q * s \in Nat /\ (q + 1) * s \in Nat /\ m + 1 \in Nat
  BY <1>1
<1>3. (q * s) * p <= m * p /\ (m + 1) * p <= ((q + 1) * s) * p
  BY <1>1, <1>2, Scaled
<1>4. (q * s) * p = q * (s * p) /\ ((q + 1) * s) * p = (q + 1) * (s * p)
  BY <1>1
<1>5. q * (s * p) <= n /\ n < (q + 1) * (s * p)
  <2>1. m * p \in Nat /\ (m + 1) * p \in Nat /\ q * (s * p) \in Nat /\ (q + 1) * (s * p) \in Nat
    BY <1>1
  <2>2. m * p <= n /\ n < (m + 1) * p
    BY DEF Within
  <2> QED
    BY <1>3, <1>4, <2>1, <2>2
<1> QED
  BY <1>1, <1>5 DEF q, Within

(* After some of the tests of ilog2: r has found its bits in R, and the    *)
(* rest of n is below top.                                                 *)
Found(n, nr, R, top) ==
  nr[1] \in Nat /\ 0 < nr[1] /\ nr[1] < top /\ nr[2] \in R /\ Within(n, nr[1], shl(nr[2]))

Doubles(R, s, p) == \A r \in R : shl(r) \in Nat /\ shl(r + s) = p * shl(r)
With(R, s) == R \cup {r + s : r \in R}

(* One test: the bit s of the result.                                      *)
LEMMA Tested ==
  ASSUME NEW n \in Nat, NEW nr, NEW R \in SUBSET Nat, NEW s \in Nat, NEW p \in Nat \ {0},
         Found(n, nr, R, p * p),
         Doubles(R, s, p)
  PROVE  Found(n, shift(nr, s, p), With(R, s), p)
<1> DEFINE m == nr[1]  r == nr[2]
<1>1. m \in Nat /\ 0 < m /\ m < p * p /\ r \in R /\ r \in Nat /\ Within(n, m, shl(r)) /\ shl(r) \in Nat
         /\ shl(r + s) = p * shl(r)
  BY ZenonT(20) DEF Found, Doubles
<1>2. CASE m >= p
  <2>1. shift(nr, s, p) = <<m \div p, r + s>>
    BY <1>2 DEF shift
  <2>2. m \div p \in Nat /\ Within(n, m \div p, p * shl(r))
    BY <1>1, Shifted
  <2>3. 0 < m \div p /\ m \div p < p
    <3>1. m \div p >= 1
      BY <1>1, <1>2
    <3>2. m \div p < p
      BY <1>1
    <3> QED
      BY <3>1, <3>2, <2>2
  <2> QED
    BY <1>1, <2>1, <2>2, <2>3 DEF Found, With
<1>3. CASE ~(m >= p)
  BY <1>1, <1>3 DEF shift, Found, With
<1> QED
  BY <1>2, <1>3

(* The position of the highest bit, for every word but zero.               *)
LEMMA Highest ==
  ASSUME NEW n \in Word, n # 0
  PROVE  highest(n) \in 0..31 /\ shl(highest(n)) <= n /\ n < 2 * shl(highest(n))
<1> DEFINE a == shift(<<n, 0>>, 16, 256 * 256)
           b == shift(a, 8, 256)
           c == shift(b, 4, 16)
           d == shift(c, 2, 4)
           e == shift(d, 1, 2)
<1>1. n \in Nat /\ 0 < n /\ n < (256 * 256) * (256 * 256)
  BY DEF Word
<1>2. Found(n, <<n, 0>>, {0}, (256 * 256) * (256 * 256))
  BY <1>1, Powers DEF Found, Within
<1>3. Found(n, a, With({0}, 16), 256 * 256)
  <2>1. Doubles({0}, 16, (256 * 256)) /\ 16 \in Nat /\ 256 * 256 \in Nat \ {0}
    BY Powers DEF Doubles
  <2> QED
    BY <1>1, <1>2, <2>1, Tested
<1> DEFINE Two == {0, 16}
<1>4. Found(n, a, Two, 256 * 256)
  BY <1>3 DEF With
<1> HIDE DEF a
<1>5. Found(n, b, With(Two, 8), 256)
  <2>1. Doubles(Two, 8, 256) /\ 8 \in Nat /\ 256 \in Nat \ {0}
    BY Powers DEF Doubles
  <2>2. Two \in SUBSET Nat /\ n \in Nat
    BY <1>1
  <2> HIDE DEF Two
  <2> QED
    BY <1>4, <2>1, <2>2, Tested, SMT
<1>6. Found(n, b, {0, 8, 16, 24}, 16 * 16)
  BY <1>5 DEF Found, With
<1> HIDE DEF b
<1>7. Found(n, c, With({0, 8, 16, 24}, 4), 16)
  <2>1. Doubles({0, 8, 16, 24}, 4, 16) /\ 4 \in Nat /\ 16 \in Nat \ {0}
    BY Powers DEF Doubles
  <2>2. {0, 8, 16, 24} \in SUBSET Nat
    OBVIOUS
  <2> QED
    BY <1>1, <1>6, <2>1, <2>2, Tested, Zenon
<1>8. Found(n, c, {0, 4, 8, 12, 16, 20, 24, 28}, 4 * 4)
  BY <1>7 DEF Found, With
<1> HIDE DEF c
<1>9. Found(n, d, With({0, 4, 8, 12, 16, 20, 24, 28}, 2), 4)
  <2>1. Doubles({0, 4, 8, 12, 16, 20, 24, 28}, 2, 4) /\ 2 \in Nat /\ 4 \in Nat \ {0}
    BY Powers DEF Doubles
  <2>2. {0, 4, 8, 12, 16, 20, 24, 28} \in SUBSET Nat
    OBVIOUS
  <2> QED
    BY <1>1, <1>8, <2>1, <2>2, Tested, Zenon
<1> DEFINE Even == {0, 2, 4, 6, 8, 10, 12, 14, 16, 18, 20, 22, 24, 26, 28, 30}
<1>10. Found(n, d, Even, 2 * 2)
  BY <1>9 DEF Found, With
<1> HIDE DEF d
<1>11. Found(n, e, With(Even, 1), 2)
  <2>1. Doubles(Even, 1, 2) /\ 1 \in Nat /\ 2 \in Nat \ {0}
    BY Powers DEF Doubles
  <2>2. Even \in SUBSET Nat
    OBVIOUS
  <2> HIDE DEF Even
  <2> QED
    BY <1>1, <1>10, <2>1, <2>2, Tested, Zenon
<1>12. e[2] \in 0..31
  BY <1>11 DEF Found, With
<1>13. e[1] = 1 /\ Within(n, 1, shl(e[2]))
  BY <1>11 DEF Found
<1>14. shl(e[2]) \in Nat
  BY <1>12, Powers
<1>15. highest(n) = e[2]
  BY DEF highest, a, b, c, d
<1> HIDE DEF e
<1> QED
  BY <1>12, <1>13, <1>14, <1>15 DEF Within

(* Each power of two of the word is twice the one before.                  *)
LEMMA Doubled == \A k \in 0..30 : shl(k) \in Nat /\ shl(k + 1) \in Nat /\ shl(k + 1) = 2 * shl(k)
  BY Powers

(* The powers of two grow.                                                 *)
LEMMA Grows == ASSUME NEW i \in 0..31, NEW j \in 0..31, i <= j PROVE shl(i) <= shl(j)
<1> DEFINE Bad == {k \in 0..31 : i <= k /\ ~(shl(i) <= shl(k))}
<1> SUFFICES ASSUME Bad # {} PROVE FALSE
  OBVIOUS
<1>1. Bad \in SUBSET Nat
  OBVIOUS
<1>2. PICK k \in Bad : \A l \in Bad : k <= l
  BY <1>1, LeastNat, Zenon
<1>3. shl(i) \in Nat /\ shl(k) \in Nat
  BY Powers
<1>4. k # i /\ k - 1 \in 0..30 /\ i <= k - 1
  BY <1>3
<1>5. shl(i) <= shl(k - 1)
  BY <1>2, <1>4
<1> QED
  BY <1>3, <1>4, <1>5, Doubled

(* The logarithm is the ceiling, for every word but zero.                  *)
LEMMA Ceiling ==
  ASSUME NEW n \in Word, n # 0
  PROVE  ilog2(n) \in 0..32 /\ (ilog2(n) <= 31 => n <= shl(ilog2(n)) /\ shl(ilog2(n)) < 2 * n)
<1>1. n \in Nat /\ highest(n) \in 0..31 /\ shl(highest(n)) <= n /\ n < 2 * shl(highest(n))
  BY Highest DEF Word
<1>2. shl(highest(n)) \in Nat
  BY <1>1, Powers
<1>3. CASE shl(highest(n)) = n
  BY <1>1, <1>2, <1>3 DEF ilog2
<1>4. CASE shl(highest(n)) # n
  <2>1. ilog2(n) = highest(n) + 1
    BY <1>4 DEF ilog2
  <2>2. highest(n) \in 0..30 => shl(highest(n) + 1) = 2 * shl(highest(n))
    BY Doubled
  <2> QED
    BY <1>1, <1>2, <1>4, <2>1, <2>2
<1> QED
  BY <1>3, <1>4

(* There is one ceiling.                                                   *)
LEMMA CeilingIs ==
  ASSUME NEW n \in Word, n # 0, NEW k \in 1..31, shl(k - 1) < n, n <= shl(k)
  PROVE  ilog2(n) = k
<1>1. n \in Nat /\ highest(n) \in 0..31 /\ shl(highest(n)) <= n /\ n < 2 * shl(highest(n))
  BY Highest DEF Word
<1> DEFINE h == highest(n)
<1>2. shl(h) \in Nat /\ shl(k) \in Nat /\ shl(k - 1) \in Nat /\ k - 1 \in 0..30 /\ shl(k) = 2 * shl(k - 1)
  <2>1. k - 1 \in 0..30 /\ (k - 1) + 1 = k
    OBVIOUS
  <2>2. shl(h) \in Nat
    BY <1>1, Powers
  <2>3. shl(k - 1) \in Nat /\ shl((k - 1) + 1) \in Nat /\ shl((k - 1) + 1) = 2 * shl(k - 1)
    BY <2>1, Doubled
  <2> QED
    BY <2>1, <2>2, <2>3
<1>3. h <= k
  <2> SUFFICES ASSUME k + 1 <= h PROVE FALSE
    BY <1>1
  <2>1. k \in 0..30 /\ k + 1 \in 0..31 /\ shl(k + 1) = 2 * shl(k)
    BY <1>1, Doubled
  <2>2. shl(k + 1) <= shl(h)
    BY <1>1, <2>1, Grows
  <2> QED
    BY <1>1, <1>2, <2>1, <2>2
<1>4. k - 1 <= h
  <2> SUFFICES ASSUME h + 1 <= k - 1 PROVE FALSE
    BY <1>1
  <2>1. h \in 0..30 /\ h + 1 \in 0..31 /\ shl(h + 1) = 2 * shl(h)
    BY <1>1, Doubled
  <2>2. shl(h + 1) <= shl(k - 1)
    BY <1>2, <2>1, Grows
  <2> QED
    BY <1>1, <1>2, <2>1, <2>2
<1>5. CASE h = k
  BY <1>1, <1>2, <1>5 DEF ilog2
<1>6. CASE h = k - 1
  BY <1>1, <1>2, <1>6 DEF ilog2
<1> QED
  BY <1>1, <1>3, <1>4, <1>5, <1>6

(* On both sides of a power of two.                                        *)
LEMMA AtPowers ==
  \A k \in 2..29 : ilog2(shl(k) - 1) = k /\ ilog2(shl(k)) = k /\ ilog2(shl(k) + 1) = k + 1
<1> SUFFICES ASSUME NEW k \in 2..29
             PROVE  ilog2(shl(k) - 1) = k /\ ilog2(shl(k)) = k /\ ilog2(shl(k) + 1) = k + 1
  OBVIOUS
<1>1. k \in 1..31 /\ k + 1 \in 1..31 /\ (k + 1) - 1 = k
  OBVIOUS
<1>2. /\ shl(k) \in Nat /\ shl(k - 1) \in Nat /\ shl(k + 1) \in Nat
      /\ 2 <= shl(k - 1) /\ shl(k) = 2 * shl(k - 1) /\ shl(k + 1) = 2 * shl(k)
  <2>1. k - 1 \in 1..30 /\ (k - 1) + 1 = k /\ k \in 0..30
    OBVIOUS
  <2>2. shl(1) <= shl(k - 1)
    BY <2>1, Grows
  <2> QED
    BY <2>1, <2>2, Doubled, Powers
<1>3. shl(k) <= shl(29)
  BY Grows
<1>4. shl(k) - 1 \in Word /\ shl(k) \in Word /\ shl(k) + 1 \in Word
  BY <1>2, <1>3, Powers DEF Word
<1> QED
  BY <1>1, <1>2, <1>4, CeilingIs

(* A block of size k has 2^k bytes.                                        *)
LEMMA BytesAre == \A k \in 0..Top : k \in 0..31 /\ Bytes[k] = shl(k)
<1>1. Top \in 0..31 /\ Bytes[0] = 1
  <2>1. Top \in Nat /\ Lists \in 0..32 /\ Lists > Top /\ Bytes[0] = 1
    BY HeapAssumption
  <2> QED
    BY <2>1
<1> DEFINE Bad == {k \in 0..Top : Bytes[k] # shl(k)}
<1> SUFFICES ASSUME Bad # {} PROVE FALSE
  BY <1>1
<1>2. Bad \in SUBSET Nat
  BY <1>1
<1>3. PICK k \in Bad : \A l \in Bad : k <= l
  BY <1>2, LeastNat, Zenon
<1>4. k # 0
  BY <1>1, <1>3, Powers
<1>5. k - 1 \in 0..Top /\ k - 1 \in 0..Top - 1 /\ k - 1 \in 0..30 /\ (k - 1) + 1 = k
  BY <1>1, <1>4
<1>6. Bytes[k - 1] = shl(k - 1)
  BY <1>3, <1>5
<1>7. Bytes[k] = 2 * Bytes[k - 1]
  BY <1>5, HeapAssumption
<1> QED
  BY <1>3, <1>5, <1>6, <1>7, Doubled

(* What is asked for is a number of 32 bits.                               *)
Words == asked \in [Thread -> Word]

(* The sizes asked for stay machine words in every reachable state.        *)
LEMMA WordsInvariant == Spec => []Words
<1>0. 0 \in Word
  BY DEF Word
<1>1. Init => Words
  BY <1>0 DEF Init, Words
<1>2. Words /\ [Next]_vars => Words'
  <2> SUFFICES ASSUME Words, [Next]_vars PROVE asked' \in [Thread -> Word]
    BY DEF Words
  <2>1. CASE UNCHANGED vars
    BY <2>1 DEF vars, Words
  <2>2. ASSUME NEW t \in Thread, NEW n \in Request, malloc(t, n) PROVE asked' \in [Thread -> Word]
    BY <2>2, HeapAssumption DEF malloc, Words
  <2>3. ASSUME NEW t \in Thread, malloc_return(t) PROVE asked' \in [Thread -> Word]
    BY <2>3, <1>0 DEF malloc_return, Words
  <2>4. ASSUME NEW t \in Thread, Locked(t) \/ malloc_map(t) \/ (\E b \in Addr : free(t, b))
        PROVE  asked' \in [Thread -> Word]
    <3>1. asked' = asked \/ malloc_return(t)
      BY <2>4 DEF Locked, malloc_null, _find_node, _split_node, malloc_unlock, malloc_map, free
    <3> QED
      BY <2>3, <3>1 DEF Words
  <2>5. ASSUME NEW t \in Thread, NEW n \in Request, NEW align \in Request, aalloc(t, n, align)
        PROVE  asked' \in [Thread -> Word]
    BY <2>2, <2>5 DEF aalloc
  <2> QED
    BY <2>1, <2>2, <2>4, <2>5 DEF Next
<1> QED
  BY <1>1, <1>2, PTL DEF Spec

(* A block that malloc hands out is as large as was asked for and less     *)
(* than twice as large: the tests of ilog2 find the ceiling of the         *)
(* logarithm for every number of 32 bits (malloc.c:179).                   *)
THEOREM BlocksFit == Spec => []BlockFits
<1>1. HeapInv /\ MemInv /\ Words => BlockFits
  <2> SUFFICES ASSUME HeapInv, MemInv, Words, NEW t \in Thread, pc[t] = "map"
               PROVE  /\ Bytes[size[node[t]]] >= asked[t]
                      /\ asked[t] > 0 => Bytes[size[node[t]]] < 2 * asked[t]
    BY AtPowers, ZenonT(20) DEF BlockFits
  <2>1. size[node[t]] = ilog2(asked[t]) /\ size[node[t]] \in Nat /\ size[node[t]] <= Top
    BY LogNat DEF HeapInv, Hands, Holds, MemInv, Exact, index, TypeOK
  <2>2. size[node[t]] \in 0..Top /\ asked[t] \in Word /\ asked[t] \in Nat
    <3>0. Top \in Nat
      BY HeapAssumption, ZenonT(20), SMTT(20)
    <3>1. size[node[t]] \in 0..Top
      <4>1. \A k, m \in Nat : k <= m => k \in 0..m
        OBVIOUS
      <4> QED
        BY <2>1, <3>0, <4>1, ZenonT(20), SMTT(20)
    <3>2. asked[t] \in Word
      BY ZenonT(20), SMTT(20) DEF Words
    <3>3. \A n \in Word : n \in Nat
      BY SMTT(20) DEF Word
    <3> QED
      BY <3>1, <3>2, <3>3, ZenonT(20), SMTT(20)
  <2>3. Bytes[size[node[t]]] = shl(ilog2(asked[t])) /\ ilog2(asked[t]) <= 31
    BY <2>1, <2>2, BytesAre
  <2>4. CASE asked[t] = 0
    <3>1. Bytes[size[node[t]]] \in Nat
      BY <2>2, HeapAssumption
    <3> QED
      BY <2>4, <3>1
  <2>5. CASE asked[t] # 0
    <3>1. asked[t] <= shl(ilog2(asked[t])) /\ shl(ilog2(asked[t])) < 2 * asked[t]
      BY <2>2, <2>3, <2>5, Ceiling
    <3>2. shl(ilog2(asked[t])) \in Nat
      BY <2>1, <2>2, <2>3, Powers
    <3> QED
      BY <2>2, <2>3, <3>1, <3>2
  <2> QED
    BY <2>4, <2>5, ZenonT(20)
<1> QED
  BY <1>1, HeapInvariant, MemInvariant, WordsInvariant, PTL

=============================================================================
