---------------------------- MODULE FramesLemmas ----------------------------
(***************************************************************************)
(* What the operations on frames and page tables do to the references that *)
(* are counted, one step and one loop at a time.                           *)
(*                                                                         *)
(* The loops of a call need an invariant for the states between their      *)
(* steps: Books(s, x) says that the allocator of s counts the pages of s   *)
(* and, for each frame f, x[f] references from elsewhere.  LoopReaches is  *)
(* the induction, with a set of states for each number of steps in place   *)
(* of a predicate.                                                         *)
(***************************************************************************)
EXTENDS Frames, TLAPS, FiniteSetTheorems

(* The time, in seconds, that each prover has for a leaf.                  *)
USE ZenonT(4), SMTT(20), ZenonT(30)

(* A nonempty set of naturals has a least member: the form in which the    *)
(* proofs use induction.                                                   *)
LEMMA LeastNat ==
  ASSUME NEW S \in SUBSET Nat, S # {}
  PROVE  \E m \in S : \A k \in S : m <= k
<1> DEFINE Less == OpToRel(<, Nat)
<1>1. \E x \in S : \A y \in S : <<y, x>> \notin Less
  BY NatLessThanWellFounded, WFMin, Zenon
<1>2. \A x, y \in Nat : <<y, x>> \in Less <=> y < x
  BY DEF OpToRel
<1> HIDE DEF Less
<1>3. PICK x \in S : \A y \in S : <<y, x>> \notin Less
  BY <1>1, Zenon
<1>4. x \in Nat /\ \A y \in S : y \in Nat
  OBVIOUS
<1>5. \A y \in S : ~(y < x)
  BY <1>2, <1>3, <1>4, Zenon
<1>6. \A y \in S : x <= y
  BY <1>4, <1>5
<1> QED
  BY <1>6

-----------------------------------------------------------------------------
(* Loops.                                                                  *)

(* A loop has a state after each of its steps.                             *)
LEMMA LoopIs ==
  ASSUME NEW s, NEW work, Len(work) \in Nat
  PROVE  \E after :
           /\ after = [i \in 0..Len(work) |-> IF i = 0 THEN s ELSE Do(after[i - 1], work[i])]
           /\ Loop(s, work) = after[Len(work)]
<1> DEFINE Is(g, n) == g = [i \in 0..n |-> IF i = 0 THEN s ELSE Do(g[i - 1], work[i])]
           Bad == {n \in Nat : ~ \E g : Is(g, n)}
<1>1. Is([i \in 0..0 |-> s], 0)
  OBVIOUS
<1>2. ASSUME NEW n \in Nat, NEW g, Is(g, n)
      PROVE  \E h : Is(h, n + 1)
  <2> DEFINE h == [i \in 0..n + 1 |-> IF i = n + 1 THEN Do(g[n], work[n + 1]) ELSE g[i]]
  <2>1. \A i \in 0..n : g[i] = IF i = 0 THEN s ELSE Do(g[i - 1], work[i])
    BY <1>2
  <2>2. h[n + 1] = Do(g[n], work[n + 1]) /\ \A i \in 0..n : h[i] = g[i]
    OBVIOUS
  <2>3. h = [i \in 0..n + 1 |-> h[i]]
    OBVIOUS
  <2> HIDE DEF h
  <2>4. \A i \in 1..n : h[i] = Do(h[i - 1], work[i])
    BY <2>1, <2>2
  <2>5. h[0] = s
    BY <2>1, <2>2
  <2>6. \A i \in 0..n + 1 : i = 0 \/ i \in 1..n \/ i = n + 1
    OBVIOUS
  <2>7. h[n + 1] = Do(h[(n + 1) - 1], work[n + 1])
    BY <2>2
  <2>8. \A i \in 0..n + 1 : h[i] = IF i = 0 THEN s ELSE Do(h[i - 1], work[i])
    BY <2>4, <2>5, <2>6, <2>7
  <2>9. Is(h, n + 1)
    BY <2>3, <2>8, Zenon
  <2> QED
    BY <2>9
<1>3. Bad = {}
  <2> SUFFICES ASSUME Bad # {} PROVE FALSE
    OBVIOUS
  <2>1. PICK m \in Bad : \A k \in Bad : m <= k
    BY LeastNat, Zenon
  <2>2. m # 0
    BY <1>1, Zenon
  <2>3. m - 1 \in Nat /\ m - 1 \notin Bad /\ (m - 1) + 1 = m
    BY <2>1, <2>2, SMTT(30)
  <2>4. PICK g : Is(g, m - 1)
    BY <2>3
  <2> HIDE DEF Is
  <2>5. \E h : Is(h, (m - 1) + 1)
    BY <1>2, <2>3, <2>4
  <2> QED
    BY <2>1, <2>3, <2>5
<1>4. PICK g : Is(g, Len(work))
  BY <1>3
<1> DEFINE After == CHOOSE f : f = [i \in 0..Len(work) |-> IF i = 0 THEN s ELSE Do(f[i - 1], work[i])]
<1>5. After = [i \in 0..Len(work) |-> IF i = 0 THEN s ELSE Do(After[i - 1], work[i])]
  BY <1>4
<1>6. Loop(s, work) = After[Len(work)]
  BY DEF Loop
<1> QED
  BY <1>5, <1>6, Zenon

(* Induction over the steps of a loop: a state in G[0] ends up in the last *)
(* of the sets if every step leads from one to the next.                   *)
Carries(work, G) == \A i \in 1..Len(work) : \A x \in G[i - 1] : Do(x, work[i]) \in G[i]

(* A loop over pages reaches what its iterations carry from each to the    *)
(* next.                                                                   *)
LEMMA LoopReaches ==
  ASSUME NEW s, NEW work, Len(work) \in Nat, NEW G, s \in G[0], Carries(work, G)
  PROVE  Loop(s, work) \in G[Len(work)]
<1>1. PICK after :
        /\ after = [i \in 0..Len(work) |-> IF i = 0 THEN s ELSE Do(after[i - 1], work[i])]
        /\ Loop(s, work) = after[Len(work)]
  BY LoopIs, Zenon
<1>2. \A i \in 0..Len(work) : after[i] = IF i = 0 THEN s ELSE Do(after[i - 1], work[i])
  BY <1>1
<1> DEFINE Bad == {i \in 0..Len(work) : after[i] \notin G[i]}
<1>3. Bad = {}
  <2> SUFFICES ASSUME Bad # {} PROVE FALSE
    OBVIOUS
  <2>0. Bad \in SUBSET Nat
    OBVIOUS
  <2>1. PICK m \in Bad : \A k \in Bad : m <= k
    BY <2>0, LeastNat, Zenon
  <2>2. m # 0 /\ m \in 1..Len(work)
    BY <1>2, <2>1
  <2>3. m - 1 \in 0..Len(work) /\ m - 1 \notin Bad
    BY <2>1, <2>2
  <2> QED
    BY <1>2, <2>1, <2>2, <2>3 DEF Carries
<1>4. Len(work) \in 0..Len(work)
  OBVIOUS
<1> QED
  BY <1>1, <1>3, <1>4, Zenon

-----------------------------------------------------------------------------
(* The allocator.                                                          *)

Unused(m) == {f \in Frame : m.refc[f] = 0}

(* The list holds the frames without a reference, each once.               *)
Sound(m) == m \in Memory /\ Each(m.list, Unused(m))

(* How often a is f.                                                       *)
Same(a, f) == IF a = f THEN 1 ELSE 0

(* A frame that is not on the free stack is pushed: it is on it once, like *)
(* the others (frame_free).                                                *)
LEMMA EachPushed ==
  ASSUME NEW S \in SUBSET Frame, NEW l \in Seq(Frame), Each(l, S), NEW f \in Frame, f \notin S
  PROVE  <<f>> \o l \in Seq(Frame) /\ Each(<<f>> \o l, S \cup {f})
<1> DEFINE k == <<f>> \o l
<1>1. k \in Seq(Frame) /\ Len(k) = Len(l) + 1 /\ DOMAIN k = 1..Len(l) + 1 /\ DOMAIN l = 1..Len(l)
  OBVIOUS
<1>2. k[1] = f /\ \A i \in 1..Len(l) : k[i + 1] = l[i]
  OBVIOUS
<1>3. \A i \in 2..Len(l) + 1 : k[i] = l[i - 1] /\ i - 1 \in 1..Len(l)
  OBVIOUS
<1> HIDE DEF k
<1>4. Each(k, S \cup {f})
  <2>1. \A g \in S \cup {f} : \E i \in DOMAIN k : k[i] = g
    <3> SUFFICES ASSUME NEW g \in S \cup {f} PROVE \E i \in DOMAIN k : k[i] = g
      OBVIOUS
    <3>1. CASE g = f
      BY <1>1, <1>2, <3>1
    <3>2. CASE g \in S
      <4>1. PICK i \in 1..Len(l) : l[i] = g
        BY <1>1, <3>2 DEF Each
      <4> QED
        BY <1>1, <1>2, <4>1
    <3> QED
      BY <3>1, <3>2
  <2>2. \A i \in DOMAIN k : k[i] \in S \cup {f}
    BY <1>1, <1>2, <1>3 DEF Each
  <2>3. \A i, j \in DOMAIN k : k[i] = k[j] => i = j
    <3>1. \A i \in 2..Len(l) + 1 : k[i] # f
      BY <1>1, <1>3 DEF Each
    <3>2. \A i, j \in 2..Len(l) + 1 : k[i] = k[j] => i - 1 = j - 1
      <4>1. \A i, j \in 1..Len(l) : l[i] = l[j] => i = j
        BY <1>1 DEF Each
      <4> QED
        BY <1>3, <4>1
    <3>3. \A i \in DOMAIN k : i = 1 \/ i \in 2..Len(l) + 1
      BY <1>1
    <3>4. \A i, j \in 2..Len(l) + 1 : i - 1 = j - 1 => i = j
      OBVIOUS
    <3> QED
      BY <1>2, <3>1, <3>2, <3>3, <3>4
  <2> QED
    BY <2>1, <2>2, <2>3 DEF Each
<1> QED
  BY <1>1, <1>4 DEF k

(* Popping the free stack takes one frame away from it (frame_new).        *)
LEMMA EachPopped ==
  ASSUME NEW S \in SUBSET Frame, NEW l \in Seq(Frame), Each(l, S), l # <<>>
  PROVE  /\ Head(l) \in S /\ Tail(l) \in Seq(Frame)
         /\ Each(Tail(l), S \ {Head(l)})
<1> DEFINE k == Tail(l)
<1>1. k \in Seq(Frame) /\ Len(k) = Len(l) - 1 /\ DOMAIN k = 1..Len(l) - 1 /\ DOMAIN l = 1..Len(l)
      /\ Len(l) \in Nat /\ Len(l) >= 1
  OBVIOUS
<1>2. Head(l) = l[1] /\ \A i \in 1..Len(l) - 1 : k[i] = l[i + 1] /\ i + 1 \in 1..Len(l)
  OBVIOUS
<1> HIDE DEF k
<1>3. \A f \in S \ {Head(l)} : \E i \in DOMAIN k : k[i] = f
  <2> SUFFICES ASSUME NEW f \in S, f # Head(l) PROVE \E i \in DOMAIN k : k[i] = f
    OBVIOUS
  <2>1. PICK i \in 1..Len(l) : l[i] = f
    BY <1>1 DEF Each
  <2>2. i # 1 /\ i - 1 \in 1..Len(l) - 1 /\ (i - 1) + 1 = i
    BY <1>1, <1>2, <2>1
  <2> QED
    BY <1>1, <1>2, <2>1, <2>2, Zenon
<1>4. \A i \in DOMAIN k : k[i] \in S \ {Head(l)}
  <2> SUFFICES ASSUME NEW i \in 1..Len(l) - 1 PROVE k[i] \in S \ {Head(l)}
    BY <1>1
  <2>1. 1 \in DOMAIN l /\ i + 1 \in DOMAIN l /\ i + 1 # 1
    BY <1>1
  <2> QED
    BY <1>2, <2>1 DEF Each
<1>5. \A i, j \in DOMAIN k : k[i] = k[j] => i = j
  <2>1. \A i, j \in 1..Len(l) - 1 : k[i] = k[j] => i + 1 = j + 1
    <3>1. \A i, j \in 1..Len(l) : l[i] = l[j] => i = j
      BY <1>1 DEF Each
    <3> QED
      BY <1>2, <3>1
  <2>2. \A i, j \in 1..Len(l) - 1 : i + 1 = j + 1 => i = j
    OBVIOUS
  <2> QED
    BY <1>1, <2>1, <2>2
<1>6. Head(l) \in S
  BY <1>1, <1>2 DEF Each
<1> QED
  BY <1>1, <1>3, <1>4, <1>5, <1>6 DEF Each, k

(* The fields of an allocator.                                             *)
LEMMA Fields ==
  ASSUME NEW m \in Memory
  PROVE  /\ m = [list |-> m.list, refc |-> m.refc, oom |-> m.oom, pool |-> m.pool]
         /\ m.list \in Seq(Frame) /\ m.refc \in [Frame -> Nat]
         /\ m.oom \in BOOLEAN /\ m.pool \in 0..PoolMax
  BY DEF Memory

(* frame_free, frame_ref and frame_new keep the list exact and change the  *)
(* count of one frame by one.                                              *)
Freed(m, f, r) ==
  /\ Sound(r) /\ r.pool = m.pool
  /\ \A g \in Frame : r.refc[g] = IF g = f /\ m.refc[g] > 0 THEN m.refc[g] - 1 ELSE m.refc[g]

(* frame_free drops one reference and puts the frame on the free stack     *)
(* with the last.                                                          *)
LEMMA FrameFree ==
  ASSUME NEW m, Sound(m), NEW f
  PROVE  Freed(m, f, frame_free(m, f))
<1> DEFINE r == frame_free(m, f)
<1>1. m \in Memory /\ Each(m.list, Unused(m))
  BY DEF Sound
<1>2. CASE ~Counted(m, f)
  BY <1>1, <1>2 DEF frame_free, Counted, Freed, Sound, Memory
<1>3. CASE Counted(m, f) /\ m.refc[f] = 1
  <2>1. f \in Frame /\ f \notin Unused(m) /\ Unused(m) \in SUBSET Frame /\ m.list \in Seq(Frame)
    BY <1>1, <1>3 DEF Counted, Unused, Memory
  <2>2. r = [m EXCEPT !.refc[f] = 0, !.list = <<f>> \o @, !.oom = FALSE]
    BY <1>3 DEF frame_free
  <2>3. <<f>> \o m.list \in Seq(Frame) /\ Each(<<f>> \o m.list, Unused(m) \cup {f})
    BY <1>1, <2>1, EachPushed
  <2>4. r \in Memory /\ r.list = <<f>> \o m.list /\ r.pool = m.pool
        /\ r.refc = [m.refc EXCEPT ![f] = 0]
    <3>1. r = [list |-> <<f>> \o m.list, refc |-> [m.refc EXCEPT ![f] = 0],
               oom |-> FALSE, pool |-> m.pool]
      <4> DEFINE r1 == [m EXCEPT !.refc[f] = 0]
                 r2 == [r1 EXCEPT !.list = <<f>> \o @]
      <4>0. r1 = [m EXCEPT !.refc[f] = 0] /\ r2 = [r1 EXCEPT !.list = <<f>> \o @]
        OBVIOUS
      <4>3. r = [r2 EXCEPT !.oom = FALSE]
        BY <2>2
      <4> HIDE DEF r1, r2
      <4>1. r1 = [list |-> m.list, refc |-> [m.refc EXCEPT ![f] = 0], oom |-> m.oom, pool |-> m.pool]
        BY <1>1, <4>0, Zenon DEF Memory
      <4>2. r2 = [list |-> <<f>> \o m.list, refc |-> [m.refc EXCEPT ![f] = 0],
                  oom |-> m.oom, pool |-> m.pool]
        BY <4>0, <4>1, Zenon
      <4> QED
        BY <4>2, <4>3, Zenon
    <3>2. [m.refc EXCEPT ![f] = 0] \in [Frame -> Nat]
      BY <1>1, Fields, Zenon
    <3> QED
      BY <1>1, <2>3, <3>1, <3>2, Fields DEF Memory
  <2>5. Unused(r) = Unused(m) \cup {f}
    BY <1>1, <2>1, <2>4 DEF Unused, Memory
  <2>6. \A g \in Frame : r.refc[g] = IF g = f /\ m.refc[g] > 0 THEN m.refc[g] - 1 ELSE m.refc[g]
    BY <1>1, <1>3, <2>1, <2>4 DEF Memory
  <2> QED
    BY <2>3, <2>4, <2>5, <2>6 DEF Freed, Sound
<1>4. CASE Counted(m, f) /\ m.refc[f] # 1
  <2>1. f \in Frame /\ m.refc[f] \in Nat /\ m.refc[f] > 1
    BY <1>1, <1>4 DEF Counted, Memory
  <2>2. r = [m EXCEPT !.refc[f] = @ - 1]
    BY <1>4 DEF frame_free
  <2>3. r \in Memory /\ r.list = m.list /\ r.pool = m.pool
        /\ r.refc = [m.refc EXCEPT ![f] = @ - 1]
    <3>1. r = [list |-> m.list, refc |-> [m.refc EXCEPT ![f] = @ - 1],
               oom |-> m.oom, pool |-> m.pool]
      BY <1>1, <2>2, Fields, Zenon
    <3>2. [m.refc EXCEPT ![f] = @ - 1] \in [Frame -> Nat]
      BY <1>1, <2>1, Fields
    <3> QED
      BY <1>1, <3>1, <3>2, Fields DEF Memory
  <2>4. Unused(r) = Unused(m)
    BY <1>1, <2>1, <2>3 DEF Unused, Memory
  <2>5. \A g \in Frame : r.refc[g] = IF g = f /\ m.refc[g] > 0 THEN m.refc[g] - 1 ELSE m.refc[g]
    BY <1>1, <2>1, <2>3 DEF Memory
  <2> QED
    BY <1>1, <2>3, <2>4, <2>5 DEF Freed, Sound
<1> QED
  BY <1>2, <1>3, <1>4

Counts(m, f, r) ==
  /\ Sound(r) /\ r.pool = m.pool
  /\ \A g \in Frame : r.refc[g] = IF g = f /\ m.refc[g] > 0 THEN m.refc[g] + 1 ELSE m.refc[g]

(* frame_ref adds one reference to the frame and changes nothing else.     *)
LEMMA FrameRef ==
  ASSUME NEW m, Sound(m), NEW f
  PROVE  Counts(m, f, frame_ref(m, f))
<1> DEFINE r == frame_ref(m, f)
<1>1. m \in Memory /\ Each(m.list, Unused(m))
  BY DEF Sound
<1>2. CASE ~Counted(m, f)
  BY <1>1, <1>2 DEF frame_ref, Counted, Counts, Sound, Memory
<1>3. CASE Counted(m, f)
  <2>1. f \in Frame /\ m.refc[f] \in Nat /\ m.refc[f] > 0
    BY <1>1, <1>3 DEF Counted, Memory
  <2>2. r = [m EXCEPT !.refc[f] = @ + 1]
    BY <1>3 DEF frame_ref
  <2>3. r \in Memory /\ r.list = m.list /\ r.pool = m.pool
        /\ r.refc = [m.refc EXCEPT ![f] = @ + 1]
    <3>1. r = [list |-> m.list, refc |-> [m.refc EXCEPT ![f] = @ + 1],
               oom |-> m.oom, pool |-> m.pool]
      BY <1>1, <2>2, Fields, Zenon
    <3>2. [m.refc EXCEPT ![f] = @ + 1] \in [Frame -> Nat]
      BY <1>1, <2>1, Fields
    <3> QED
      BY <1>1, <3>1, <3>2, Fields DEF Memory
  <2>4. Unused(r) = Unused(m)
    BY <1>1, <2>1, <2>3 DEF Unused, Memory
  <2>5. \A g \in Frame : r.refc[g] = IF g = f /\ m.refc[g] > 0 THEN m.refc[g] + 1 ELSE m.refc[g]
    BY <1>1, <2>1, <2>3 DEF Memory
  <2> QED
    BY <1>1, <2>3, <2>4, <2>5 DEF Counts, Sound
<1> QED
  BY <1>2, <1>3

Taken(m, f, r) ==
  /\ Sound(r) /\ f \in AnyFrame /\ (f \in Frame => m.refc[f] = 0)
  /\ Unused(r) \subseteq Unused(m)
  /\ \A g \in Frame : r.refc[g] = m.refc[g] + Same(f, g)

(* frame_new takes an unused frame, which then has one reference.          *)
LEMMA FrameNew ==
  ASSUME NEW m, Sound(m)
  PROVE  Taken(m, fresh(m), frame_new(m))
<1> DEFINE r == frame_new(m)
           f == fresh(m)
<1>1. m \in Memory /\ Each(m.list, Unused(m))
  BY DEF Sound
<1>2. CASE m.oom \/ m.list = <<>>
  <2>1. f = Uncounted /\ r = [m EXCEPT !.oom = TRUE, !.pool = IF @ = 0 THEN 0 ELSE @ - 1]
    BY <1>2 DEF fresh, frame_new
  <2>2. r \in Memory /\ r.list = m.list /\ r.refc = m.refc
    <3> DEFINE left == IF m.pool = 0 THEN 0 ELSE m.pool - 1
    <3>1. r = [list |-> m.list, refc |-> m.refc, oom |-> TRUE, pool |-> left]
      BY <1>1, <2>1, Fields, Zenon
    <3>2. left \in 0..PoolMax
      BY <1>1, Fields, FramesAssumption
    <3> HIDE DEF left
    <3> QED
      BY <1>1, <3>1, <3>2, Fields DEF Memory
  <2>3. Unused(r) = Unused(m)
    BY <2>2 DEF Unused
  <2>4. \A g \in Frame : r.refc[g] = m.refc[g] + Same(f, g)
    BY <1>1, <2>1, <2>2, FramesAssumption DEF Same, Memory
  <2> QED
    BY <1>1, <2>1, <2>2, <2>3, <2>4, FramesAssumption DEF Taken, Sound, AnyFrame
<1>3. CASE ~(m.oom \/ m.list = <<>>)
  <2>1. m.list # <<>> /\ m.list \in Seq(Frame) /\ Unused(m) \in SUBSET Frame
    BY <1>1, <1>3 DEF Memory, Unused
  <2>2. f = Head(m.list) /\ r = [m EXCEPT !.list = Tail(@), !.refc[f] = 1]
    BY <1>3 DEF fresh, frame_new
  <2>3. f \in Unused(m) /\ Tail(m.list) \in Seq(Frame) /\ Each(Tail(m.list), Unused(m) \ {f})
    BY <1>1, <2>1, <2>2, EachPopped
  <2>4. f \in Frame /\ m.refc[f] = 0
    BY <2>3 DEF Unused
  <2>5. r \in Memory /\ r.list = Tail(m.list) /\ r.refc = [m.refc EXCEPT ![f] = 1]
    <3>1. r = [list |-> Tail(m.list), refc |-> [m.refc EXCEPT ![f] = 1],
               oom |-> m.oom, pool |-> m.pool]
      <4> DEFINE r1 == [m EXCEPT !.list = Tail(@)]
      <4>0. r1 = [m EXCEPT !.list = Tail(@)]
        OBVIOUS
      <4>2. r = [r1 EXCEPT !.refc[f] = 1]
        BY <2>2
      <4> HIDE DEF f, r1
      <4>1. r1 = [list |-> Tail(m.list), refc |-> m.refc, oom |-> m.oom, pool |-> m.pool]
        BY <1>1, <4>0, Zenon DEF Memory
      <4> QED
        BY <4>1, <4>2, Zenon
    <3>2. [m.refc EXCEPT ![f] = 1] \in [Frame -> Nat]
      BY <1>1, Fields, Zenon
    <3> QED
      BY <1>1, <2>3, <3>1, <3>2, Fields DEF Memory
  <2>6. Unused(r) = Unused(m) \ {f}
    BY <1>1, <2>4, <2>5 DEF Unused, Memory
  <2>7. \A g \in Frame : r.refc[g] = m.refc[g] + Same(f, g)
    BY <1>1, <2>4, <2>5 DEF Same, Memory
  <2> QED
    BY <2>3, <2>4, <2>5, <2>6, <2>7 DEF Taken, Sound, AnyFrame
<1> QED
  BY <1>2, <1>3

-----------------------------------------------------------------------------
(* A process between two steps of a loop.                                  *)

(* Without linked pages.                                                   *)
OwnEntry == [frame : AnyFrame, perm : SUBSET {"rw", "lock"}]
Table == [Page -> OwnEntry \cup {Empty}]
State == [m : Memory, t : Table]

Uses(t, f) == {v \in Page : t[v].frame = f}

(* The counts are those of the pages of s and of x elsewhere.              *)
Books(s, x) ==
  /\ s \in State /\ x \in [Frame -> Nat]
  /\ Sound(s.m)
  /\ \A f \in Frame : s.m.refc[f] = Cardinality(Uses(s.t, f)) + x[f]

(* The pages of a table that map a frame are a finite set, which is not    *)
(* empty when some page maps it.                                           *)
LEMMA UsesIs ==
  ASSUME NEW t, NEW f
  PROVE  /\ IsFiniteSet(Uses(t, f)) /\ Cardinality(Uses(t, f)) \in Nat
         /\ (\E v \in Page : t[v].frame = f) => Cardinality(Uses(t, f)) > 0
<1>1. IsFiniteSet(0..Pages - 1)
  BY FramesAssumption, FS_Interval
<1>2. IsFiniteSet(Uses(t, f))
  BY <1>1, FS_Subset, Zenon DEF Uses, Page
<1>3. Cardinality(Uses(t, f)) \in Nat
  BY <1>2, FS_CardinalityType
<1>4. ASSUME NEW v \in Page, t[v].frame = f
      PROVE  Cardinality(Uses(t, f)) > 0
  <2>1. Uses(t, f) # {}
    BY <1>4 DEF Uses
  <2>2. Cardinality(Uses(t, f)) # 0
    BY <1>2, <2>1, FS_EmptySet
  <2> QED
    BY <1>3, <2>2
<1> QED
  BY <1>2, <1>3, <1>4

(* Writing one entry of a table changes the number of its uses of a frame  *)
(* by what was there and what is there now.                                *)
LEMMA UsesSet ==
  ASSUME NEW t \in Table, NEW v \in Page, NEW e \in OwnEntry \cup {Empty}, NEW f
  PROVE  Cardinality(Uses([t EXCEPT ![v] = e], f))
           = Cardinality(Uses(t, f)) - Same(t[v].frame, f) + Same(e.frame, f)
<1> DEFINE W == Uses(t, f) \ {v}
           u == [t EXCEPT ![v] = e]
<1>1. IsFiniteSet(W) /\ Cardinality(W) \in Nat /\ v \notin W
  BY UsesIs, FS_Subset, FS_CardinalityType
<1>2. Cardinality(W \cup {v}) = Cardinality(W) + 1
  BY <1>1, FS_AddElement, SMTT(30)
<1>3. /\ t[v].frame = f => Uses(t, f) = W \cup {v}
      /\ t[v].frame # f => Uses(t, f) = W
  BY DEF Uses
<1>4. u[v] = e /\ \A w \in Page : w # v => u[w] = t[w]
  BY DEF Table
<1>5. /\ e.frame = f => Uses(u, f) = W \cup {v}
      /\ e.frame # f => Uses(u, f) = W
  BY <1>4 DEF Uses
<1> HIDE DEF W, u
<1>6. Cardinality(Uses(u, f)) = Cardinality(W) + Same(e.frame, f)
  BY <1>1, <1>2, <1>5 DEF Same
<1>7. Cardinality(Uses(t, f)) = Cardinality(W) + Same(t[v].frame, f)
  <2>1. CASE t[v].frame = f
    <3>1. Same(t[v].frame, f) = 1 /\ Uses(t, f) = W \cup {v}
      BY <1>3, <2>1 DEF Same
    <3> QED
      BY <1>2, <3>1
  <2>2. CASE t[v].frame # f
    <3>1. Same(t[v].frame, f) = 0 /\ Uses(t, f) = W
      BY <1>3, <2>2 DEF Same
    <3> QED
      BY <1>1, <3>1
  <2> QED
    BY <2>1, <2>2
<1>8. Same(e.frame, f) \in Nat /\ Same(t[v].frame, f) \in Nat
  BY DEF Same
<1>9. Cardinality(Uses(u, f)) = Cardinality(Uses(t, f)) - Same(t[v].frame, f) + Same(e.frame, f)
  BY <1>1, <1>6, <1>7, <1>8
<1> QED
  BY <1>9 DEF u

(* The books balance after an entry is written, if the counts changed by   *)
(* the old and the new entry.                                              *)
LEMMA Balance ==
  ASSUME NEW s, NEW y, Books(s, y), NEW x \in [Frame -> Nat],
         NEW v \in Page, NEW e \in OwnEntry \cup {Empty}, NEW m, Sound(m),
         \A f \in Frame : m.refc[f] = s.m.refc[f] - Same(s.t[v].frame, f) + Same(e.frame, f) + x[f] - y[f]
  PROVE  Books([m |-> m, t |-> [s.t EXCEPT ![v] = e]], x)
<1> DEFINE r == [m |-> m, t |-> [s.t EXCEPT ![v] = e]]
<1>1. s.t \in Table /\ s.m \in Memory /\ y \in [Frame -> Nat] /\ m \in Memory
  BY DEF Books, State, Sound
<1>2. [s.t EXCEPT ![v] = e] \in Table
  BY <1>1 DEF Table
<1>3. r \in State
  BY <1>1, <1>2 DEF State
<1>4. ASSUME NEW f \in Frame
      PROVE  m.refc[f] = Cardinality(Uses([s.t EXCEPT ![v] = e], f)) + x[f]
  <2> DEFINE c == Cardinality(Uses(s.t, f))
             d == Cardinality(Uses([s.t EXCEPT ![v] = e], f))
             a == Same(s.t[v].frame, f)
             b == Same(e.frame, f)
  <2>1. d = c - a + b
    BY <1>1, UsesSet
  <2>2. c \in Nat /\ a \in Nat /\ b \in Nat /\ x[f] \in Nat /\ y[f] \in Nat
    BY <1>1, UsesIs DEF Same
  <2>3. s.m.refc[f] = c + y[f]
    BY DEF Books
  <2>4. m.refc[f] = s.m.refc[f] - a + b + x[f] - y[f]
    OBVIOUS
  <2> HIDE DEF a, b, c, d
  <2>5. m.refc[f] = d + x[f]
    BY <2>1, <2>2, <2>3, <2>4
  <2> QED
    BY <2>5 DEF d
<1> QED
  BY <1>3, <1>4 DEF Books

-----------------------------------------------------------------------------
(* The steps of a loop.  Has(t) are the frames that a page table reaches.  *)

Has(t) == {t[v].frame : v \in Page} \cap Frame

(* Writing an entry adds at most its own frame to those of the table.      *)
LEMMA HasSet ==
  ASSUME NEW t \in Table, NEW v \in Page, NEW e
  PROVE  Has([t EXCEPT ![v] = e]) \subseteq Has(t) \cup ({e.frame} \cap Frame)
  BY DEF Has, Table

(* page_set writes one entry of the table and leaves the frames alone.     *)
LEMMA SetPage ==
  ASSUME NEW s \in State, NEW v, NEW f, NEW perm
  PROVE  page_set(s, v, f, perm) = [m |-> s.m, t |-> [s.t EXCEPT ![v] = [frame |-> f, perm |-> perm]]]
  BY DEF page_set, State

(* An entry has a frame if and only if the page is present.                *)
LEMMA Entries ==
  ASSUME NEW s \in State, NEW v \in Page
  PROVE  /\ s.t[v] \in OwnEntry \cup {Empty} /\ s.t \in Table /\ s.m \in Memory
         /\ Present(s, v) => s.t[v] \in OwnEntry /\ s.t[v].frame \in AnyFrame
         /\ ~Present(s, v) => s.t[v] = Empty /\ s.t[v].frame = None
         /\ \A f \in Frame : Same(None, f) = 0 /\ Same(Uncounted, f) = 0
<1>1. s.t \in Table /\ s.m \in Memory
  BY DEF State
<1>2. s.t[v] \in OwnEntry \cup {Empty}
  BY <1>1 DEF Table
<1>3. \A e \in OwnEntry : e.frame \in AnyFrame
  BY DEF OwnEntry
<1>4. Empty.frame = None
  BY DEF Empty
<1>5. \A f \in Frame : Same(None, f) = 0 /\ Same(Uncounted, f) = 0
  BY FramesAssumption DEF Same
<1> QED
  BY <1>1, <1>2, <1>3, <1>4, <1>5, Zenon DEF Present

(* mem_free keeps the books and empties the page.                          *)
LEMMA FreeStep ==
  ASSUME NEW s, NEW x, Books(s, x), NEW v \in Page
  PROVE  /\ Books(mem_free(s, v), x)
         /\ mem_free(s, v).t = [s.t EXCEPT ![v] = Empty]
<1>1. s \in State /\ Sound(s.m) /\ x \in [Frame -> Nat]
  BY DEF Books
<1>2. CASE ~Present(s, v)
  <2>1. mem_free(s, v) = s
    BY <1>2 DEF mem_free
  <2>2. s.t = [s.t EXCEPT ![v] = Empty]
    BY <1>1, <1>2, Entries DEF Table
  <2> QED
    BY <2>1, <2>2
<1>3. CASE Present(s, v)
  <2> DEFINE m == frame_free(s.m, s.t[v].frame)
  <2>1. mem_free(s, v) = [m |-> m, t |-> [s.t EXCEPT ![v] = Empty]]
    BY <1>3 DEF mem_free
  <2>2. Freed(s.m, s.t[v].frame, m)
    BY <1>1, FrameFree
  <2>3. Empty \in OwnEntry \cup {Empty} /\ Empty.frame = None
    BY DEF Empty
  <2>4. ASSUME NEW f \in Frame
        PROVE  m.refc[f] = s.m.refc[f] - Same(s.t[v].frame, f) + Same(Empty.frame, f) + x[f] - x[f]
    <3>1. s.m.refc[f] = Cardinality(Uses(s.t, f)) + x[f] /\ x[f] \in Nat
      BY <1>1 DEF Books
    <3>2. Cardinality(Uses(s.t, f)) \in Nat /\ (s.t[v].frame = f => Cardinality(Uses(s.t, f)) > 0)
      BY UsesIs
    <3>3. s.m.refc[f] \in Nat /\ (s.t[v].frame = f => s.m.refc[f] > 0)
      BY <3>1, <3>2
    <3>4. m.refc[f] = IF f = s.t[v].frame /\ s.m.refc[f] > 0 THEN s.m.refc[f] - 1 ELSE s.m.refc[f]
      BY <2>2 DEF Freed
    <3>5. Same(Empty.frame, f) = 0
      BY <1>1, <2>3, Entries
    <3>6. m.refc[f] = s.m.refc[f] - Same(s.t[v].frame, f)
      <4> HIDE DEF m
      <4>1. CASE f = s.t[v].frame
        BY <3>3, <3>4, <4>1 DEF Same
      <4>2. CASE f # s.t[v].frame
        <5>1. Same(s.t[v].frame, f) = 0 /\ m.refc[f] = s.m.refc[f]
          BY <3>4, <4>2 DEF Same
        <5> QED
          BY <3>3, <5>1
      <4> QED
        BY <4>1, <4>2
    <3>7. Same(s.t[v].frame, f) \in Nat
      BY DEF Same
    <3> HIDE DEF m
    <3> QED
      BY <3>1, <3>3, <3>5, <3>6, <3>7
  <2>5. Sound(m)
    BY <2>2 DEF Freed
  <2> HIDE DEF m
  <2>6. Books([m |-> m, t |-> [s.t EXCEPT ![v] = Empty]], x)
    BY <1>1, <2>3, <2>4, <2>5, Balance
  <2> QED
    BY <2>1, <2>6
<1> QED
  BY <1>2, <1>3

(* One more reference elsewhere, to f.                                     *)
OneMore(x, f, y) == \A g \in Frame : y[g] = x[g] + Same(f, g)

(* A page is set when its entry is empty: the frame was counted elsewhere. *)
LEMMA SetStep ==
  ASSUME NEW s, NEW y, Books(s, y), NEW x \in [Frame -> Nat], NEW v \in Page, s.t[v] = Empty,
         NEW f \in AnyFrame, NEW perm \in SUBSET {"rw", "lock"},
         OneMore(x, f, y)
  PROVE  /\ Books(page_set(s, v, f, perm), x)
         /\ Has(page_set(s, v, f, perm).t) \subseteq Has(s.t) \cup ({f} \cap Frame)
         /\ page_set(s, v, f, perm).m = s.m
<1> DEFINE e == [frame |-> f, perm |-> perm]
<1>1. s \in State /\ Sound(s.m) /\ y \in [Frame -> Nat]
  BY DEF Books
<1>2. e \in OwnEntry \cup {Empty} /\ e.frame = f
  BY DEF OwnEntry
<1>3. page_set(s, v, f, perm) = [m |-> s.m, t |-> [s.t EXCEPT ![v] = e]]
  BY <1>1, SetPage
<1> HIDE DEF e
<1>4. ASSUME NEW g \in Frame
      PROVE  s.m.refc[g] = s.m.refc[g] - Same(s.t[v].frame, g) + Same(e.frame, g) + x[g] - y[g]
  <2>1. Same(s.t[v].frame, g) = 0
    BY <1>1, Entries DEF Empty
  <2>2. s.m.refc[g] \in Nat /\ x[g] \in Nat /\ y[g] \in Nat /\ Same(f, g) \in Nat
    BY <1>1 DEF State, Memory, Same
  <2> QED
    BY <1>2, <2>1, <2>2 DEF OneMore
<1>5. Books([m |-> s.m, t |-> [s.t EXCEPT ![v] = e]], x)
  BY <1>1, <1>2, <1>4, Balance
<1>6. Has([s.t EXCEPT ![v] = e]) \subseteq Has(s.t) \cup ({f} \cap Frame)
  BY <1>1, <1>2, HasSet DEF State
<1> QED
  BY <1>3, <1>5, <1>6

(* Mapping a frame of a packet pays one of the references the packet owed. *)
LEMMA PutStep ==
  ASSUME NEW s, NEW y, Books(s, y), NEW x \in [Frame -> Nat], NEW v \in Page,
         NEW f \in AnyFrame, NEW perm \in SUBSET {"rw", "lock"},
         OneMore(x, f, y)
  PROVE  /\ Books(put_one(s, v, f, perm), x)
         /\ Has(put_one(s, v, f, perm).t) \subseteq Has(s.t) \cup ({f} \cap Frame)
<1> DEFINE r == mem_free(s, v)
<1>1. Books(r, y) /\ r.t = [s.t EXCEPT ![v] = Empty]
  BY FreeStep
<1>2. s \in State /\ s.t \in Table
  BY DEF Books, State
<1>3. r.t[v] = Empty
  BY <1>1, <1>2 DEF Table
<1>4. Has(r.t) \subseteq Has(s.t)
  <2>1. Has(r.t) \subseteq Has(s.t) \cup ({Empty.frame} \cap Frame)
    BY <1>1, <1>2, HasSet
  <2>2. Empty.frame \notin Frame
    BY FramesAssumption DEF Empty
  <2> QED
    BY <2>1, <2>2
<1>5. put_one(s, v, f, perm) = page_set(r, v, f, perm)
  BY DEF put_one
<1> HIDE DEF r
<1>6. /\ Books(page_set(r, v, f, perm), x)
      /\ Has(page_set(r, v, f, perm).t) \subseteq Has(r.t) \cup ({f} \cap Frame)
  BY <1>1, <1>3, SetStep, Zenon
<1> QED
  BY <1>4, <1>5, <1>6

(* Freeing a frame of a packet pays one of the references the packet owed. *)
LEMMA DropStep ==
  ASSUME NEW s, NEW y, Books(s, y), NEW x \in [Frame -> Nat], NEW f \in AnyFrame,
         OneMore(x, f, y)
  PROVE  /\ Books([s EXCEPT !.m = frame_free(@, f)], x)
         /\ [s EXCEPT !.m = frame_free(@, f)].t = s.t
<1> DEFINE m == frame_free(s.m, f)
<1>1. s \in State /\ Sound(s.m) /\ y \in [Frame -> Nat]
  BY DEF Books
<1>2. [s EXCEPT !.m = frame_free(@, f)] = [m |-> m, t |-> s.t]
  BY <1>1 DEF State
<1>3. Freed(s.m, f, m)
  BY <1>1, FrameFree
<1>4. Sound(m) /\ m \in Memory
  BY <1>3 DEF Freed, Sound
<1>5. ASSUME NEW g \in Frame
      PROVE  m.refc[g] = Cardinality(Uses(s.t, g)) + x[g]
  <2>1. s.m.refc[g] = Cardinality(Uses(s.t, g)) + y[g] /\ Cardinality(Uses(s.t, g)) \in Nat
    BY UsesIs DEF Books
  <2>2. y[g] = x[g] + Same(f, g) /\ x[g] \in Nat /\ y[g] \in Nat
    BY <1>1 DEF OneMore
  <2>3. m.refc[g] = IF g = f /\ s.m.refc[g] > 0 THEN s.m.refc[g] - 1 ELSE s.m.refc[g]
    BY <1>3 DEF Freed
  <2> HIDE DEF m
  <2>4. CASE f = g
    BY <2>1, <2>2, <2>3, <2>4 DEF Same
  <2>5. CASE f # g
    <3>1. Same(f, g) = 0 /\ m.refc[g] = s.m.refc[g]
      BY <2>3, <2>5 DEF Same
    <3> QED
      BY <2>1, <2>2, <3>1
  <2> QED
    BY <2>4, <2>5
<1>6. [m |-> m, t |-> s.t] \in State
  BY <1>1, <1>4 DEF State
<1> HIDE DEF m
<1>7. Books([m |-> m, t |-> s.t], x)
  BY <1>4, <1>5, <1>6 DEF Books
<1> QED
  BY <1>2, <1>7

(* Between the freeing of the destination and the counting of the source,  *)
(* the source keeps its frame in use.                                      *)
LEMMA CopyStep ==
  ASSUME NEW s, NEW x, Books(s, x), NEW v \in Page, NEW from \in Page, v # from
  PROVE  /\ Books(self_one(s, v, from), x)
         /\ Has(self_one(s, v, from).t) \subseteq Has(s.t)
<1> DEFINE freed == IF Present(s, v) THEN [s EXCEPT !.m = frame_free(@, s.t[v].frame)] ELSE s
           n == IF Present(s, v) THEN frame_free(s.m, s.t[v].frame) ELSE s.m
           old == s.t[v].frame
           new == s.t[from].frame
           m == frame_ref(n, new)
<1>1. s \in State /\ Sound(s.m) /\ x \in [Frame -> Nat] /\ s.m \in Memory /\ s.t \in Table
  BY DEF Books, State
<1>2. CASE ~Present(s, from)
  <2>1. self_one(s, v, from) = s
    BY <1>2 DEF self_one
  <2> QED
    BY <2>1
<1>3. CASE Present(s, from)
  <2>1. freed.m = n
    BY <1>1 DEF State
  <2>2. self_one(s, v, from) = [m |-> m, t |-> [s.t EXCEPT ![v] = s.t[from]]]
    BY <1>3, <2>1 DEF self_one
  <2>3. s.t[from] \in OwnEntry \cup {Empty} /\ new \in AnyFrame /\ (~Present(s, v) => old = None)
    BY <1>1, <1>3, Entries
  <2>4. Sound(n) /\ \A f \in Frame : n.refc[f] = s.m.refc[f] - Same(old, f)
    <3>1. CASE Present(s, v)
      <4>1. n = frame_free(s.m, old)
        BY <3>1
      <4>2. Freed(s.m, old, n)
        BY <1>1, <4>1, FrameFree
      <4> HIDE DEF n
      <4>3. ASSUME NEW f \in Frame
            PROVE  n.refc[f] = s.m.refc[f] - Same(old, f)
        <5>1. s.m.refc[f] = Cardinality(Uses(s.t, f)) + x[f] /\ x[f] \in Nat
          BY <1>1 DEF Books
        <5>2. Cardinality(Uses(s.t, f)) \in Nat /\ (old = f => Cardinality(Uses(s.t, f)) > 0)
          BY UsesIs
        <5>3. s.m.refc[f] \in Nat /\ (old = f => s.m.refc[f] > 0)
          BY <5>1, <5>2
        <5>4. n.refc[f] = IF f = old /\ s.m.refc[f] > 0 THEN s.m.refc[f] - 1 ELSE s.m.refc[f]
          BY <4>2 DEF Freed
        <5> HIDE DEF old
        <5>5. CASE old = f
          BY <5>3, <5>4, <5>5 DEF Same
        <5>6. CASE old # f
          BY <5>3, <5>4, <5>6 DEF Same
        <5> QED
          BY <5>5, <5>6
      <4> QED
        BY <4>2, <4>3 DEF Freed
    <3>2. CASE ~Present(s, v)
      <4>1. n = s.m /\ old = None
        BY <2>3, <3>2
      <4>2. \A f \in Frame : Same(old, f) = 0 /\ s.m.refc[f] \in Nat
        BY <1>1, <4>1, Entries DEF Memory
      <4> QED
        BY <1>1, <4>1, <4>2
    <3> QED
      BY <3>1, <3>2
  <2>5. \A f \in Frame : new = f => n.refc[f] > 0
    <3> SUFFICES ASSUME NEW f \in Frame, new = f PROVE n.refc[f] > 0
      OBVIOUS
    <3>1. s.m.refc[f] = Cardinality(Uses(s.t, f)) + x[f] /\ x[f] \in Nat
      BY <1>1 DEF Books
    <3>2. Cardinality(Uses(s.t, f)) \in Nat /\ Cardinality(Uses(s.t, f)) > 0
      BY UsesIs
    <3>3. Empty \in OwnEntry \cup {Empty} /\ Empty.frame = None /\ None # f
      BY FramesAssumption DEF Empty
    <3>4. Cardinality(Uses([s.t EXCEPT ![v] = Empty], f))
            = Cardinality(Uses(s.t, f)) - Same(old, f) + Same(Empty.frame, f)
      BY <1>1, <3>3, UsesSet
    <3>5. Cardinality(Uses([s.t EXCEPT ![v] = Empty], f)) \in Nat
          /\ Cardinality(Uses([s.t EXCEPT ![v] = Empty], f)) > 0
      <4>1. [s.t EXCEPT ![v] = Empty][from].frame = f
        BY <1>1 DEF Table
      <4> QED
        BY <4>1, UsesIs, Zenon
    <3>6. Same(Empty.frame, f) = 0 /\ Same(old, f) \in Nat
      BY <3>3 DEF Same
    <3>7. n.refc[f] = s.m.refc[f] - Same(old, f)
      BY <2>4
    <3> HIDE DEF n, old
    <3> QED
      BY <3>1, <3>2, <3>4, <3>5, <3>6, <3>7
  <2>6. Counts(n, new, m)
    BY <2>4, FrameRef
  <2>7. Sound(m)
    BY <2>6 DEF Counts
  <2>8. ASSUME NEW f \in Frame
        PROVE  m.refc[f] = s.m.refc[f] - Same(old, f) + Same(new, f) + x[f] - x[f]
    <3>1. m.refc[f] = IF f = new /\ n.refc[f] > 0 THEN n.refc[f] + 1 ELSE n.refc[f]
      BY <2>6, SMTT(30) DEF Counts
    <3>2. n.refc[f] \in Nat /\ s.m.refc[f] \in Nat /\ x[f] \in Nat /\ Same(old, f) \in Nat
      BY <1>1, <2>4, SMTT(30) DEF Sound, Memory, Same
    <3>3. n.refc[f] = s.m.refc[f] - Same(old, f) /\ (new = f => n.refc[f] > 0)
      BY <2>4, <2>5
    <3> HIDE DEF m, n, old, new
    <3>4. m.refc[f] = n.refc[f] + Same(new, f)
      <4>1. CASE new = f
        BY <3>1, <3>2, <3>3, <4>1 DEF Same
      <4>2. CASE new # f
        BY <3>1, <3>2, <3>3, <4>2 DEF Same
      <4> QED
        BY <4>1, <4>2
    <3>5. Same(new, f) \in Nat
      BY DEF Same
    <3> QED
      BY <3>2, <3>3, <3>4, <3>5, SMTT(30)
  <2> HIDE DEF m, n
  <2>9. Books([m |-> m, t |-> [s.t EXCEPT ![v] = s.t[from]]], x)
    BY <1>1, <2>3, <2>7, <2>8, Balance
  <2>10. Has([s.t EXCEPT ![v] = s.t[from]]) \subseteq Has(s.t)
    <3>1. Has([s.t EXCEPT ![v] = s.t[from]]) \subseteq Has(s.t) \cup ({new} \cap Frame)
      BY <1>1, HasSet
    <3>2. {new} \cap Frame \subseteq Has(s.t)
      BY DEF Has
    <3> QED
      BY <3>1, <3>2
  <2> QED
    BY <2>2, <2>9, <2>10
<1> QED
  BY <1>2, <1>3

(* Changing the permissions of a page keeps the books.                     *)
LEMMA ProtStep ==
  ASSUME NEW s, NEW x, Books(s, x), NEW v \in Page, NEW perm \in SUBSET {"rw", "lock"}
  PROVE  /\ Books(prot_one(s, v, perm), x)
         /\ Has(prot_one(s, v, perm).t) \subseteq Has(s.t)
<1>1. s \in State /\ Sound(s.m) /\ x \in [Frame -> Nat] /\ s.m \in Memory /\ s.t \in Table
  BY DEF Books, State
<1>2. CASE ~(Present(s, v) /\ "lock" \notin s.t[v].perm)
  <2>1. prot_one(s, v, perm) = s
    BY <1>2 DEF prot_one
  <2> QED
    BY <2>1
<1>3. CASE Present(s, v) /\ "lock" \notin s.t[v].perm
  <2> DEFINE f == s.t[v].frame
             e == [frame |-> f, perm |-> perm]
  <2>1. prot_one(s, v, perm) = [m |-> s.m, t |-> [s.t EXCEPT ![v] = e]]
    BY <1>1, <1>3, SetPage DEF prot_one
  <2>2. f \in AnyFrame
    BY <1>1, <1>3, Entries
  <2>3. e \in OwnEntry \cup {Empty} /\ e.frame = f
    BY <2>2 DEF OwnEntry
  <2>4. \A g \in Frame : s.m.refc[g] = s.m.refc[g] - Same(s.t[v].frame, g) + Same(e.frame, g) + x[g] - x[g]
    <3> SUFFICES ASSUME NEW g \in Frame
                 PROVE  s.m.refc[g] = s.m.refc[g] - Same(f, g) + Same(f, g) + x[g] - x[g]
      BY <2>3
    <3>1. s.m.refc[g] \in Nat /\ Same(f, g) \in Nat /\ x[g] \in Nat
      BY <1>1 DEF Memory, Same
    <3> QED
      BY <3>1
  <2> HIDE DEF e
  <2>5. Books([m |-> s.m, t |-> [s.t EXCEPT ![v] = e]], x)
    BY <1>1, <2>3, <2>4, Balance
  <2>6. Has([s.t EXCEPT ![v] = e]) \subseteq Has(s.t) \cup ({f} \cap Frame)
    BY <1>1, <2>3, HasSet
  <2>7. {f} \cap Frame \subseteq Has(s.t)
    BY DEF Has
  <2> QED
    BY <2>1, <2>5, <2>6, <2>7
<1> QED
  BY <1>2, <1>3

(* A new frame is one that nobody used.                                    *)
LEMMA AllocStep ==
  ASSUME NEW s, NEW x, Books(s, x), NEW v \in Page, NEW perm \in SUBSET {"rw", "lock"}
  PROVE  /\ Books(mem_alloc(s, v, perm), x)
         /\ Has(mem_alloc(s, v, perm).t) \subseteq Has(s.t) \cup Unused(s.m)
         /\ Unused(mem_alloc(s, v, perm).m) \subseteq Unused(s.m)
<1>1. s \in State /\ Sound(s.m) /\ x \in [Frame -> Nat] /\ s.m \in Memory /\ s.t \in Table
  BY DEF Books, State
<1>2. CASE Present(s, v)
  <2>1. mem_alloc(s, v, perm) = s
    BY <1>2 DEF mem_alloc
  <2> QED
    BY <2>1
<1>3. CASE ~Present(s, v)
  <2> DEFINE m == frame_new(s.m)
             f == fresh(s.m)
             y == [g \in Frame |-> x[g] + Same(f, g)]
             r == [m |-> m, t |-> s.t]
  <2>1. mem_alloc(s, v, perm) = page_set(r, v, f, perm)
    <3>1. [s EXCEPT !.m = frame_new(@)] = r
      BY <1>1 DEF State
    <3> QED
      BY <1>3, <3>1 DEF mem_alloc
  <2>2. Taken(s.m, f, m)
    BY <1>1, FrameNew
  <2>3. Sound(m) /\ m \in Memory /\ f \in AnyFrame /\ Unused(m) \subseteq Unused(s.m)
    BY <2>2 DEF Taken, Sound
  <2>4. {f} \cap Frame \subseteq Unused(s.m)
    BY <2>2 DEF Taken, Unused
  <2>5. y \in [Frame -> Nat] /\ OneMore(x, f, y)
    BY <1>1 DEF Same, OneMore
  <2>6. r \in State /\ r.m = m /\ r.t = s.t
    BY <1>1, <2>3 DEF State
  <2>7. \A g \in Frame : m.refc[g] = Cardinality(Uses(s.t, g)) + y[g]
    <3> SUFFICES ASSUME NEW g \in Frame PROVE m.refc[g] = Cardinality(Uses(s.t, g)) + y[g]
      OBVIOUS
    <3>1. m.refc[g] = s.m.refc[g] + Same(f, g)
      BY <2>2 DEF Taken
    <3>2. s.m.refc[g] = Cardinality(Uses(s.t, g)) + x[g]
      BY DEF Books
    <3>3. Cardinality(Uses(s.t, g)) \in Nat /\ x[g] \in Nat /\ Same(f, g) \in Nat /\ y[g] = x[g] + Same(f, g)
      BY <1>1, <2>5, UsesIs DEF Same, OneMore
    <3> HIDE DEF m, f, y
    <3> QED
      BY <3>1, <3>2, <3>3
  <2>8. s.t[v] = Empty
    BY <1>1, <1>3, Entries
  <2> HIDE DEF m, f, y, r
  <2>9. Books(r, y) /\ r.t[v] = Empty
    BY <2>3, <2>5, <2>6, <2>7, <2>8 DEF Books
  <2>10. /\ Books(page_set(r, v, f, perm), x)
         /\ Has(page_set(r, v, f, perm).t) \subseteq Has(r.t) \cup ({f} \cap Frame)
         /\ page_set(r, v, f, perm).m = r.m
    BY <1>1, <2>3, <2>5, <2>9, SetStep, SMTT(30)
  <2> QED
    BY <2>1, <2>3, <2>4, <2>6, <2>10
<1> QED
  BY <1>2, <1>3

-----------------------------------------------------------------------------
(* The loops of the system calls.                                          *)

(* What a step of a list may be, other than one that uses up a packet.     *)
Steps(w) ==
  \/ \E v \in Page : w = [do |-> "free", page |-> v]
  \/ \E v \in Page, perm \in SUBSET {"rw", "lock"} :
       w = [do |-> "put", page |-> v, frame |-> Uncounted, perm |-> perm]
  \/ \E v, from \in Page : v # from /\ w = [do |-> "copy", page |-> v, from |-> from]
  \/ \E v \in Page, perm \in SUBSET {"rw", "lock"} : w = [do |-> "prot", page |-> v, perm |-> perm]

(* No such step gives the process a frame it did not have.                 *)
LEMMA PlainStep ==
  ASSUME NEW s, NEW x, Books(s, x), NEW w, Steps(w)
  PROVE  Books(Do(s, w), x) /\ Has(Do(s, w).t) \subseteq Has(s.t)
<1>1. ASSUME NEW v \in Page, w = [do |-> "free", page |-> v]
      PROVE  Books(Do(s, w), x) /\ Has(Do(s, w).t) \subseteq Has(s.t)
  <2>1. Do(s, w) = mem_free(s, v)
    BY <1>1 DEF Do
  <2>2. Books(mem_free(s, v), x) /\ mem_free(s, v).t = [s.t EXCEPT ![v] = Empty]
    BY FreeStep
  <2>3. Has([s.t EXCEPT ![v] = Empty]) \subseteq Has(s.t) \cup ({Empty.frame} \cap Frame)
    BY HasSet DEF Books, State
  <2>4. Empty.frame \notin Frame
    BY FramesAssumption DEF Empty
  <2> QED
    BY <2>1, <2>2, <2>3, <2>4
<1>2. ASSUME NEW v \in Page, NEW perm \in SUBSET {"rw", "lock"},
             w = [do |-> "put", page |-> v, frame |-> Uncounted, perm |-> perm]
      PROVE  Books(Do(s, w), x) /\ Has(Do(s, w).t) \subseteq Has(s.t)
  <2>1. Do(s, w) = put_one(s, v, Uncounted, perm)
    BY <1>2 DEF Do
  <2>2. x \in [Frame -> Nat] /\ Uncounted \in AnyFrame /\ Uncounted \notin Frame
    BY FramesAssumption DEF Books, AnyFrame
  <2>3. OneMore(x, Uncounted, x)
    BY <2>2 DEF Same, OneMore
  <2>4. /\ Books(put_one(s, v, Uncounted, perm), x)
        /\ Has(put_one(s, v, Uncounted, perm).t) \subseteq Has(s.t) \cup ({Uncounted} \cap Frame)
    BY <2>2, <2>3, PutStep, Zenon
  <2> QED
    BY <2>1, <2>2, <2>4
<1>3. ASSUME NEW v \in Page, NEW from \in Page, v # from,
             w = [do |-> "copy", page |-> v, from |-> from]
      PROVE  Books(Do(s, w), x) /\ Has(Do(s, w).t) \subseteq Has(s.t)
  <2>1. Do(s, w) = self_one(s, v, from)
    BY <1>3 DEF Do
  <2> QED
    BY <1>3, <2>1, CopyStep, Zenon
<1>4. ASSUME NEW v \in Page, NEW perm \in SUBSET {"rw", "lock"},
             w = [do |-> "prot", page |-> v, perm |-> perm]
      PROVE  Books(Do(s, w), x) /\ Has(Do(s, w).t) \subseteq Has(s.t)
  <2>1. Do(s, w) = prot_one(s, v, perm)
    BY <1>4 DEF Do
  <2> QED
    BY <2>1, ProtStep
<1> QED
  BY <1>1, <1>2, <1>3, <1>4, Zenon DEF Steps

(* A loop of freeing and protecting steps keeps the books and maps no new  *)
(* frame.                                                                  *)
LEMMA PlainLoop ==
  ASSUME NEW s, NEW x, Books(s, x), NEW work, Len(work) \in Nat,
         \A i \in 1..Len(work) : Steps(work[i])
  PROVE  Books(Loop(s, work), x) /\ Has(Loop(s, work).t) \subseteq Has(s.t)
<1> DEFINE G == [i \in 0..Len(work) |-> {r \in State : Books(r, x) /\ Has(r.t) \subseteq Has(s.t)}]
<1>1. s \in G[0]
  BY DEF Books
<1>2. ASSUME NEW i \in 1..Len(work), NEW r \in G[i - 1]
      PROVE  Do(r, work[i]) \in G[i]
  <2>1. Books(r, x) /\ Has(r.t) \subseteq Has(s.t)
    OBVIOUS
  <2>2. Books(Do(r, work[i]), x) /\ Has(Do(r, work[i]).t) \subseteq Has(r.t)
    BY <2>1, PlainStep, Zenon
  <2>3. Do(r, work[i]) \in State
    BY <2>2 DEF Books
  <2> QED
    BY <2>1, <2>2, <2>3
<1> HIDE DEF G
<1>3. Loop(s, work) \in G[Len(work)]
  <2>1. Carries(work, G)
    BY <1>2 DEF Carries
  <2> QED
    BY <1>1, <2>1, LoopReaches
<1> QED
  BY <1>3 DEF G

(* The references from the rest of a packet, after n of its pages.         *)
Pending(pkt, n, f) == Cardinality({i \in n + 1..Len(pkt) : pkt[i].frame = f})

Owed(x, pkt, n) == [g \in Frame |-> x[g] + Pending(pkt, n, g)]

(* The entries of a packet not yet handled are a finite set for each       *)
(* frame.                                                                  *)
LEMMA PendingIs ==
  ASSUME NEW pkt \in Seq(OwnEntry), NEW n \in Nat, NEW f
  PROVE  /\ IsFiniteSet({i \in n + 1..Len(pkt) : pkt[i].frame = f})
         /\ Pending(pkt, n, f) \in Nat
<1>1. IsFiniteSet(n + 1..Len(pkt))
  BY FS_Interval
<1>2. IsFiniteSet({i \in n + 1..Len(pkt) : pkt[i].frame = f})
  BY <1>1, FS_Subset
<1> QED
  BY <1>2, FS_CardinalityType DEF Pending

(* The references a packet owes: one fewer after each of its entries, none *)
(* at its end.                                                             *)
LEMMA OwedIs ==
  ASSUME NEW pkt \in Seq(OwnEntry), NEW x \in [Frame -> Nat]
  PROVE  /\ \A n \in Nat : Owed(x, pkt, n) \in [Frame -> Nat]
         /\ Owed(x, pkt, Len(pkt)) = x
         /\ \A n \in 1..Len(pkt) : OneMore(Owed(x, pkt, n), pkt[n].frame, Owed(x, pkt, n - 1))
<1>1. \A n \in Nat : Owed(x, pkt, n) \in [Frame -> Nat]
  <2> SUFFICES ASSUME NEW n \in Nat PROVE Owed(x, pkt, n) \in [Frame -> Nat]
    OBVIOUS
  <2>1. \A g \in Frame : Pending(pkt, n, g) \in Nat
    BY PendingIs, Zenon
  <2> QED
    BY <2>1 DEF Owed
<1>2. Owed(x, pkt, Len(pkt)) = x
  <2>1. \A f : {i \in Len(pkt) + 1..Len(pkt) : pkt[i].frame = f} = {}
    OBVIOUS
  <2>2. \A f : Pending(pkt, Len(pkt), f) = 0
    BY <2>1, FS_EmptySet, Zenon DEF Pending
  <2>3. \A g \in Frame : Owed(x, pkt, Len(pkt))[g] = x[g]
    BY <2>2 DEF Owed
  <2> QED
    BY <2>3 DEF Owed
<1>3. ASSUME NEW n \in 1..Len(pkt)
      PROVE  OneMore(Owed(x, pkt, n), pkt[n].frame, Owed(x, pkt, n - 1))
  <2> SUFFICES ASSUME NEW g \in Frame
               PROVE  Owed(x, pkt, n - 1)[g] = Owed(x, pkt, n)[g] + Same(pkt[n].frame, g)
    BY DEF OneMore
  <2> DEFINE R == {i \in n + 1..Len(pkt) : pkt[i].frame = g}
             Q == {i \in (n - 1) + 1..Len(pkt) : pkt[i].frame = g}
  <2>1. IsFiniteSet(R) /\ n \notin R /\ Cardinality(R) = Pending(pkt, n, g) /\ Cardinality(R) \in Nat
    <3>1. n \in Nat /\ n \notin n + 1..Len(pkt)
      OBVIOUS
    <3>2. IsFiniteSet(R) /\ Pending(pkt, n, g) \in Nat
      BY <3>1, PendingIs, Zenon
    <3> QED
      BY <3>1, <3>2 DEF Pending
  <2>2. Cardinality(R \cup {n}) = Cardinality(R) + 1
    BY <2>1, FS_AddElement, Zenon
  <2>3. Cardinality(Q) = Pending(pkt, n - 1, g)
    BY DEF Pending
  <2>4. /\ pkt[n].frame = g => Q = R \cup {n}
        /\ pkt[n].frame # g => Q = R
    OBVIOUS
  <2> HIDE DEF Q, R
  <2>5. Pending(pkt, n - 1, g) = Pending(pkt, n, g) + Same(pkt[n].frame, g)
    <3>1. CASE pkt[n].frame = g
      <4>1. Same(pkt[n].frame, g) = 1 /\ Q = R \cup {n}
        BY <2>4, <3>1 DEF Same
      <4> QED
        BY <2>1, <2>2, <2>3, <4>1
    <3>2. CASE pkt[n].frame # g
      <4>1. Same(pkt[n].frame, g) = 0 /\ Q = R
        BY <2>4, <3>2 DEF Same
      <4> QED
        BY <2>1, <2>3, <4>1
    <3> QED
      BY <3>1, <3>2
  <2>6. x[g] \in Nat /\ Same(pkt[n].frame, g) \in Nat /\ Pending(pkt, n, g) \in Nat
    BY <2>1 DEF Same
  <2> QED
    BY <2>5, <2>6 DEF Owed
<1> QED
  BY <1>1, <1>2, <1>3

(* Freeing the rest of a packet pays all the references it owed.           *)
LEMMA DropLoop ==
  ASSUME NEW s, NEW x \in [Frame -> Nat], NEW pkt \in Seq(OwnEntry), NEW n \in 0..Len(pkt),
         Books(s, Owed(x, pkt, n))
  PROVE  Books(Loop(s, Dropping(pkt, n)), x) /\ Loop(s, Dropping(pkt, n)).t = s.t
<1> DEFINE work == Dropping(pkt, n)
           G == [i \in 0..Len(pkt) - n |-> {r \in State : Books(r, Owed(x, pkt, n + i)) /\ r.t = s.t}]
<1>1. Len(work) = Len(pkt) - n /\ Len(work) \in Nat
      /\ \A i \in 1..Len(work) : work[i] = [do |-> "drop", frame |-> pkt[n + i].frame]
  BY DEF Dropping
<1>2. s \in G[0]
  BY DEF Books
<1>3. ASSUME NEW i \in 1..Len(work), NEW r \in G[i - 1]
      PROVE  Do(r, work[i]) \in G[i]
  <2>1. Books(r, Owed(x, pkt, n + i - 1)) /\ r.t = s.t
    BY <1>1
  <2>2. n + i \in 1..Len(pkt)
    BY <1>1
  <2>3. OneMore(Owed(x, pkt, n + i), pkt[n + i].frame, Owed(x, pkt, n + i - 1))
        /\ Owed(x, pkt, n + i) \in [Frame -> Nat]
    BY <2>2, OwedIs, SMTT(30)
  <2>4. pkt[n + i].frame \in AnyFrame
    <3>1. pkt[n + i] \in OwnEntry
      BY <2>2
    <3> QED
      BY <3>1 DEF OwnEntry
  <2>5. Do(r, work[i]) = [r EXCEPT !.m = frame_free(@, pkt[n + i].frame)]
    <3> HIDE DEF work, G
    <3>1. work[i] = [do |-> "drop", frame |-> pkt[n + i].frame]
      BY <1>1, Zenon
    <3>2. work[i].do = "drop" /\ work[i].frame = pkt[n + i].frame
      BY <3>1
    <3> QED
      BY <3>2 DEF Do
  <2>6. Books(Do(r, work[i]), Owed(x, pkt, n + i)) /\ Do(r, work[i]).t = r.t
    <3> DEFINE f == pkt[n + i].frame
               u == Owed(x, pkt, n + i)
               o == Owed(x, pkt, n + i - 1)
    <3>1. Books(r, o) /\ u \in [Frame -> Nat] /\ f \in AnyFrame /\ OneMore(u, f, o)
      BY <2>1, <2>3, <2>4
    <3> HIDE DEF f, u, o
    <3>2. /\ Books([r EXCEPT !.m = frame_free(@, f)], u)
          /\ [r EXCEPT !.m = frame_free(@, f)].t = r.t
      BY <3>1, DropStep
    <3> QED
      BY <2>5, <3>2 DEF f, u
  <2>7. Do(r, work[i]) \in State
    BY <2>6 DEF Books
  <2> QED
    BY <1>1, <2>1, <2>6, <2>7
<1> HIDE DEF G
<1>4. Loop(s, work) \in G[Len(work)]
  <2> HIDE DEF work
  <2>1. Carries(work, G)
    BY <1>3 DEF Carries
  <2> QED
    BY <1>1, <1>2, <2>1, LoopReaches, ZenonT(30)
<1>5. n + Len(work) = Len(pkt)
  BY <1>1
<1>6. Books(Loop(s, work), Owed(x, pkt, Len(pkt))) /\ Loop(s, work).t = s.t
  BY <1>1, <1>4, <1>5 DEF G
<1> QED
  BY <1>6, OwedIs

(* The pages of a packet, as long as it has them, are mapped from page a   *)
(* on: the references from the packet become ones from the table.          *)
Puts(pkt, a, k) ==
  [i \in 1..k |-> [do |-> "put", page |-> a + i - 1, frame |-> pkt[i].frame, perm |-> Packed(pkt[i])]]

Frames(pkt) == {pkt[i].frame : i \in DOMAIN pkt}

(* Mapping the first k entries of a packet pays k of the references it     *)
(* owed.                                                                   *)
LEMMA PutLoop ==
  ASSUME NEW s, NEW x \in [Frame -> Nat], NEW pkt \in Seq(OwnEntry), Books(s, Owed(x, pkt, 0)),
         NEW k \in 0..Len(pkt), NEW a \in Nat, a + k <= Pages
  PROVE  /\ Books(Loop(s, Puts(pkt, a, k)), Owed(x, pkt, k))
         /\ Has(Loop(s, Puts(pkt, a, k)).t) \subseteq Has(s.t) \cup Frames(pkt)
<1> DEFINE work == Puts(pkt, a, k)
           G == [i \in 0..k |-> {r \in State : /\ Books(r, Owed(x, pkt, i))
                                               /\ Has(r.t) \subseteq Has(s.t) \cup Frames(pkt)}]
<1>1. Len(work) = k
      /\ \A i \in 1..k : work[i] = [do |-> "put", page |-> a + i - 1, frame |-> pkt[i].frame,
                                    perm |-> Packed(pkt[i])]
  BY DEF Puts
<1>2. s \in G[0]
  BY DEF Books
<1>3. ASSUME NEW i \in 1..Len(work), NEW r \in G[i - 1]
      PROVE  Do(r, work[i]) \in G[i]
  <2> DEFINE f == pkt[i].frame
             v == a + i - 1
             perm == Packed(pkt[i])
             u == Owed(x, pkt, i)
             o == Owed(x, pkt, i - 1)
  <2>0. i \in 1..k /\ i \in 1..Len(pkt)
    BY <1>1
  <2>1. Books(r, o) /\ Has(r.t) \subseteq Has(s.t) \cup Frames(pkt)
    BY <2>0
  <2>2. pkt[i] \in OwnEntry
    BY <2>0
  <2>3. OneMore(u, f, o) /\ u \in [Frame -> Nat]
    BY <2>0, OwedIs
  <2>4. f \in AnyFrame /\ perm \in SUBSET {"rw", "lock"}
    BY <2>2 DEF OwnEntry, Packed
  <2>5. v \in Page
    BY <2>0, FramesAssumption DEF Page
  <2>6. Do(r, work[i]) = put_one(r, v, f, perm)
    <3>1. work[i].do = "put" /\ work[i].page = v /\ work[i].frame = f /\ work[i].perm = perm
      BY <1>1, <2>0
    <3> HIDE DEF work, v, f, perm
    <3> QED
      BY <3>1 DEF Do
  <2>7. {f} \cap Frame \subseteq Frames(pkt)
    BY <2>0 DEF Frames
  <2> HIDE DEF f, v, perm, u, o
  <2>8. Books(put_one(r, v, f, perm), u) /\ Has(put_one(r, v, f, perm).t) \subseteq Has(r.t) \cup ({f} \cap Frame)
    BY <2>1, <2>3, <2>4, <2>5, PutStep, SMTT(30)
  <2>9. put_one(r, v, f, perm) \in State
    BY <2>8 DEF Books
  <2>10. Has(put_one(r, v, f, perm).t) \subseteq Has(s.t) \cup Frames(pkt)
    BY <2>1, <2>7, <2>8
  <2> QED
    BY <2>0, <2>6, <2>8, <2>9, <2>10 DEF u
<1> HIDE DEF G
<1>4. Loop(s, work) \in G[Len(work)]
  <2> HIDE DEF work
  <2>1. Carries(work, G)
    BY <1>3 DEF Carries
  <2> QED
    BY <1>1, <1>2, <2>1, LoopReaches
<1> QED
  BY <1>1, <1>4 DEF G

(* Steps that take new frames.                                             *)
Takes(w) ==
  \/ \E v \in Page, perm \in SUBSET {"rw", "lock"} : w = [do |-> "alloc", page |-> v, perm |-> perm]
  \/ \E v \in Page, e \in OwnEntry \cup {Empty} : w = [do |-> "clone", page |-> v, entry |-> e]

(* Mapping a page anew keeps the books and takes its frame from the unused *)
(* ones.                                                                   *)
LEMMA TakeStep ==
  ASSUME NEW s, NEW x, Books(s, x), NEW w, Takes(w)
  PROVE  /\ Books(Do(s, w), x)
         /\ Has(Do(s, w).t) \subseteq Has(s.t) \cup Unused(s.m)
         /\ Unused(Do(s, w).m) \subseteq Unused(s.m)
<1>1. ASSUME NEW v \in Page, NEW perm \in SUBSET {"rw", "lock"},
             w = [do |-> "alloc", page |-> v, perm |-> perm]
      PROVE  Do(s, w) = mem_alloc(s, v, perm)
  BY <1>1 DEF Do
<1>2. ASSUME NEW v \in Page, NEW e \in OwnEntry \cup {Empty},
             w = [do |-> "clone", page |-> v, entry |-> e]
      PROVE  Do(s, w) = s \/ \E perm \in SUBSET {"rw", "lock"} : Do(s, w) = mem_alloc(s, v, perm)
  <2>1. Do(s, w) = segment_clone(s, v, e)
    BY <1>2 DEF Do
  <2>2. e # Empty => e.perm \in SUBSET {"rw", "lock"} /\ "link" \notin e.perm
    BY DEF OwnEntry
  <2> QED
    BY <2>1, <2>2 DEF segment_clone
<1>3. Do(s, w) = s \/ \E v \in Page, perm \in SUBSET {"rw", "lock"} : Do(s, w) = mem_alloc(s, v, perm)
  BY <1>1, <1>2 DEF Takes
<1> QED
  BY <1>3, AllocStep

(* A loop of such steps keeps the books and takes its frames from the      *)
(* unused ones.                                                            *)
LEMMA TakeLoop ==
  ASSUME NEW s, NEW x, Books(s, x), NEW work, Len(work) \in Nat,
         \A i \in 1..Len(work) : Takes(work[i])
  PROVE  Books(Loop(s, work), x) /\ Has(Loop(s, work).t) \subseteq Has(s.t) \cup Unused(s.m)
<1> DEFINE G == [i \in 0..Len(work) |-> {r \in State : /\ Books(r, x)
                                                      /\ Has(r.t) \subseteq Has(s.t) \cup Unused(s.m)
                                                      /\ Unused(r.m) \subseteq Unused(s.m)}]
<1>1. s \in G[0]
  BY DEF Books
<1>2. ASSUME NEW i \in 1..Len(work), NEW r \in G[i - 1]
      PROVE  Do(r, work[i]) \in G[i]
  <2>1. Books(r, x) /\ Has(r.t) \subseteq Has(s.t) \cup Unused(s.m) /\ Unused(r.m) \subseteq Unused(s.m)
    OBVIOUS
  <2>2. /\ Books(Do(r, work[i]), x)
        /\ Has(Do(r, work[i]).t) \subseteq Has(r.t) \cup Unused(r.m)
        /\ Unused(Do(r, work[i]).m) \subseteq Unused(r.m)
    BY <2>1, TakeStep, Zenon
  <2>3. Do(r, work[i]) \in State
    BY <2>2 DEF Books
  <2>4. /\ Has(Do(r, work[i]).t) \subseteq Has(s.t) \cup Unused(s.m)
        /\ Unused(Do(r, work[i]).m) \subseteq Unused(s.m)
    BY <2>1, <2>2
  <2> QED
    BY <2>2, <2>3, <2>4
<1> HIDE DEF G
<1>3. Loop(s, work) \in G[Len(work)]
  <2>1. Carries(work, G)
    BY <1>2 DEF Carries
  <2> QED
    BY <1>1, <2>1, LoopReaches
<1> QED
  BY <1>3 DEF G

NoPages == [v \in Page |-> Empty]

(* Freeing every page leaves none.                                         *)
LEMMA FreeLoop ==
  ASSUME NEW s, NEW x, Books(s, x)
  PROVE  Books(Loop(s, Freeing(0, Pages)), x) /\ Loop(s, Freeing(0, Pages)).t = NoPages
<1> DEFINE work == Freeing(0, Pages)
           G == [i \in 0..Pages |-> {r \in State : Books(r, x) /\ \A v \in 0..i - 1 : r.t[v] = Empty}]
<1>0. Pages \in Nat
  BY FramesAssumption
<1>1. Len(work) = Pages /\ \A i \in 1..Pages : work[i] = [do |-> "free", page |-> i - 1]
  BY <1>0 DEF Freeing
<1>2. s \in G[0]
  BY <1>0 DEF Books
<1>3. ASSUME NEW i \in 1..Len(work), NEW r \in G[i - 1]
      PROVE  Do(r, work[i]) \in G[i]
  <2>0. i \in 1..Pages /\ i - 1 \in Page
    BY <1>0, <1>1 DEF Page
  <2>1. Books(r, x) /\ \A v \in 0..i - 2 : r.t[v] = Empty
    <3>1. i - 1 \in 0..Pages /\ (i - 1) - 1 = i - 2
      BY <1>0, <2>0
    <3>2. Books(r, x) /\ \A v \in 0..(i - 1) - 1 : r.t[v] = Empty
      BY <3>1
    <3> QED
      BY <3>1, <3>2
  <2>2. Do(r, work[i]) = mem_free(r, i - 1)
    <3> HIDE DEF work
    <3>1. work[i].do = "free" /\ work[i].page = i - 1
      BY <1>1, <2>0
    <3> QED
      BY <3>1 DEF Do
  <2> DEFINE q == mem_free(r, i - 1)
  <2>3. Books(q, x) /\ q.t = [r.t EXCEPT ![i - 1] = Empty]
    BY <2>0, <2>1, FreeStep, SMTT(30)
  <2>4. q \in State /\ r.t \in Table
    BY <2>1, <2>3 DEF Books, State
  <2>5. \A v \in 0..i - 1 : q.t[v] = Empty
    <3> HIDE DEF q
    <3> SUFFICES ASSUME NEW v \in 0..i - 1 PROVE q.t[v] = Empty
      OBVIOUS
    <3>1. v \in Page /\ (v = i - 1 \/ v \in 0..i - 2)
      BY <1>0, <2>0 DEF Page
    <3> QED
      BY <2>0, <2>1, <2>3, <2>4, <3>1 DEF Table
  <2> QED
    BY <2>0, <2>2, <2>3, <2>4, <2>5
<1> HIDE DEF G
<1>4. Loop(s, work) \in G[Len(work)]
  <2> HIDE DEF work
  <2>1. Carries(work, G)
    BY <1>3, Zenon DEF Carries
  <2> QED
    BY <1>0, <1>1, <1>2, <2>1, LoopReaches
<1> DEFINE r == Loop(s, work)
<1>5. Books(r, x) /\ \A v \in 0..Pages - 1 : r.t[v] = Empty
  BY <1>0, <1>1, <1>4 DEF G
<1>6. r.t \in Table
  BY <1>5 DEF Books, State
<1> HIDE DEF r, work
<1>7. r.t = NoPages
  BY <1>5, <1>6, Zenon DEF Table, NoPages, Page
<1> QED
  BY <1>5, <1>7 DEF r, work

-----------------------------------------------------------------------------
(* Counting the references of all processes.                               *)

(* g pairs the members of S and T.                                         *)
Pairs(g, S, T) ==
  /\ g \in [S -> T]
  /\ \A a, b \in S : g[a] = g[b] => a = b
  /\ \A t \in T : \E a \in S : g[a] = t

(* Two finite sets matched one to one have the same size.                  *)
LEMMA SameSize ==
  ASSUME NEW S, NEW T, IsFiniteSet(S), NEW g, Pairs(g, S, T)
  PROVE  IsFiniteSet(T) /\ Cardinality(T) = Cardinality(S)
<1>1. g \in Bijection(S, T)
  BY DEF Pairs, Bijection, Injection, Surjection, IsInjective
<1>2. ExistsBijection(S, T)
  BY <1>1 DEF ExistsBijection
<1> QED
  BY <1>2, FS_Bijection

(* The size of the union of two disjoint finite sets.                      *)
LEMMA Disjoint ==
  ASSUME NEW A, NEW B, IsFiniteSet(A), IsFiniteSet(B), A \cap B = {}
  PROVE  IsFiniteSet(A \cup B) /\ Cardinality(A \cup B) = Cardinality(A) + Cardinality(B)
<1>1. Cardinality(A \cap B) = 0
  BY FS_EmptySet
<1>2. Cardinality(A) \in Nat /\ Cardinality(B) \in Nat
  BY FS_CardinalityType
<1>3. IsFiniteSet(A \cup B) /\ Cardinality(A \cup B) = Cardinality(A) + Cardinality(B) - Cardinality(A \cap B)
  BY FS_Union
<1> QED
  BY <1>1, <1>2, <1>3

(* Of a set of places, those of one process and those of the others.       *)
Of(Y, p) == {y \in Y : y[1] = p}
NotOf(Y, p) == {y \in Y : y[1] # p}

(* A set of pairs is counted as the column of one process and the rest.    *)
LEMMA Column ==
  ASSUME NEW p \in Proc, NEW V, IsFiniteSet(V), NEW Y \in SUBSET (Proc \X V), NEW U,
         U = {v \in V : <<p, v>> \in Y}
  PROVE  /\ IsFiniteSet(Y) /\ IsFiniteSet(U)
         /\ Cardinality(Y) \in Nat /\ Cardinality(U) \in Nat /\ Cardinality(NotOf(Y, p)) \in Nat
         /\ Cardinality(Y) = Cardinality(U) + Cardinality(NotOf(Y, p))
<1>1. IsFiniteSet(Proc \X V)
  BY FS_Product, FramesAssumption
<1>2. IsFiniteSet(Y)
  BY <1>1, FS_Subset
<1>3. IsFiniteSet(Of(Y, p)) /\ IsFiniteSet(NotOf(Y, p)) /\ IsFiniteSet(U)
  BY <1>2, FS_Subset, Zenon DEF Of, NotOf
<1>4. Cardinality(Of(Y, p)) = Cardinality(U)
  <2> DEFINE g == [v \in U |-> <<p, v>>]
  <2>1. g \in [U -> Of(Y, p)]
    BY DEF Of
  <2>2. \A a, b \in U : g[a] = g[b] => a = b
    OBVIOUS
  <2>3. \A y \in Of(Y, p) : \E v \in U : g[v] = y
    <3> SUFFICES ASSUME NEW y \in Of(Y, p) PROVE \E v \in U : g[v] = y
      OBVIOUS
    <3>1. y \in Proc \X V /\ y[1] = p /\ y \in Y
      BY DEF Of
    <3>2. y = <<p, y[2]>> /\ y[2] \in V
      BY <3>1
    <3>3. y[2] \in U
      BY <3>1, <3>2
    <3> QED
      BY <3>2, <3>3
  <2> HIDE DEF g
  <2>4. Pairs(g, U, Of(Y, p))
    BY <2>1, <2>2, <2>3 DEF Pairs
  <2> QED
    BY <1>3, <2>4, SameSize
<1>5. Y = Of(Y, p) \cup NotOf(Y, p) /\ Of(Y, p) \cap NotOf(Y, p) = {}
  BY DEF Of, NotOf
<1>6. Cardinality(Y) = Cardinality(Of(Y, p)) + Cardinality(NotOf(Y, p))
  BY <1>3, <1>5, Disjoint
<1> QED
  BY <1>2, <1>3, <1>4, <1>6, FS_CardinalityType

InTables(T, f) == {x \in Proc \X Page : T[x[1]][x[2]].frame = f}
InSpaces(S, f) == {p \in Proc : S[p] = f}
InPackets(M, f) ==
  {x \in Proc \X (1..Pages) : x[2] <= Len(M[x[1]]) /\ M[x[1]][x[2]].frame = f}

Refs(T, S, M, f) ==
  Cardinality(InTables(T, f)) + Cardinality(InSpaces(S, f)) + Cardinality(InPackets(M, f))

(* The references from everywhere but process p.                           *)
Rest(p, T, S, M, f) ==
  Cardinality(NotOf(InTables(T, f), p)) + Cardinality(InSpaces(S, f) \ {p})
    + Cardinality(NotOf(InPackets(M, f), p))

Packets == {q \in Seq(OwnEntry) : Len(q) <= Pages}

(* The uses of a frame in the tables: those of one process and those of    *)
(* the others.                                                             *)
LEMMA SplitTables ==
  ASSUME NEW T, NEW p \in Proc, NEW f
  PROVE  /\ Cardinality(InTables(T, f)) = Cardinality(Uses(T[p], f)) + Cardinality(NotOf(InTables(T, f), p))
         /\ Cardinality(NotOf(InTables(T, f), p)) \in Nat
<1>1. IsFiniteSet(Page)
  <2>1. 0 \in Int /\ Pages - 1 \in Int
    BY FramesAssumption
  <2> QED
    BY <2>1, FS_Interval DEF Page
<1>2. Uses(T[p], f) = {v \in Page : <<p, v>> \in InTables(T, f)}
  BY DEF Uses, InTables
<1>3. InTables(T, f) \in SUBSET (Proc \X Page)
  BY DEF InTables
<1> QED
  BY <1>1, <1>2, <1>3, Column, SMTT(30)

(* The uses of a frame in the packets: those of one process and those of   *)
(* the others.                                                             *)
LEMMA SplitPackets ==
  ASSUME NEW M \in [Proc -> Packets], NEW p \in Proc, NEW f
  PROVE  /\ Cardinality(InPackets(M, f)) = Pending(M[p], 0, f) + Cardinality(NotOf(InPackets(M, f), p))
         /\ Cardinality(NotOf(InPackets(M, f), p)) \in Nat
<1> DEFINE U == {i \in 0 + 1..Len(M[p]) : M[p][i].frame = f}
<1>1. IsFiniteSet(1..Pages)
  BY FramesAssumption, FS_Interval
<1>2. M[p] \in Seq(OwnEntry) /\ Len(M[p]) \in Nat /\ Len(M[p]) <= Pages /\ Pages \in Nat
  BY FramesAssumption DEF Packets
<1>3. U = {v \in 1..Pages : <<p, v>> \in InPackets(M, f)}
  BY <1>2 DEF InPackets
<1>4. InPackets(M, f) \in SUBSET (Proc \X (1..Pages))
  BY DEF InPackets
<1>5. Pending(M[p], 0, f) = Cardinality(U)
  BY DEF Pending
<1> HIDE DEF U
<1> DEFINE V == 1..Pages
           Y == InPackets(M, f)
<1>6. IsFiniteSet(V) /\ U = {v \in V : <<p, v>> \in Y} /\ Y \in SUBSET (Proc \X V)
  BY <1>1, <1>3, <1>4
<1> HIDE DEF V, Y
<1>7. Cardinality(Y) = Cardinality(U) + Cardinality(NotOf(Y, p)) /\ Cardinality(NotOf(Y, p)) \in Nat
  BY <1>6, Column, SMTT(30)
<1> QED
  BY <1>5, <1>7 DEF Y

(* The references to a frame are those of one process and the rest.        *)
LEMMA Split ==
  ASSUME NEW T, NEW S, NEW M \in [Proc -> Packets], NEW p \in Proc, NEW f
  PROVE  /\ Rest(p, T, S, M, f) \in Nat /\ Same(S[p], f) \in Nat
         /\ Pending(M[p], 0, f) \in Nat /\ Cardinality(Uses(T[p], f)) \in Nat
         /\ Refs(T, S, M, f) =
              Cardinality(Uses(T[p], f)) + Same(S[p], f) + Pending(M[p], 0, f) + Rest(p, T, S, M, f)
<1>1. /\ Cardinality(InTables(T, f)) = Cardinality(Uses(T[p], f)) + Cardinality(NotOf(InTables(T, f), p))
      /\ Cardinality(NotOf(InTables(T, f), p)) \in Nat
  BY SplitTables, Zenon
<1>2. /\ Cardinality(InPackets(M, f)) = Pending(M[p], 0, f) + Cardinality(NotOf(InPackets(M, f), p))
      /\ Cardinality(NotOf(InPackets(M, f), p)) \in Nat
  BY SplitPackets
<1>3. /\ Cardinality(InSpaces(S, f)) = Same(S[p], f) + Cardinality(InSpaces(S, f) \ {p})
      /\ Cardinality(InSpaces(S, f) \ {p}) \in Nat
  <2> DEFINE W == InSpaces(S, f) \ {p}
  <2>1. IsFiniteSet(W) /\ Cardinality(W) \in Nat /\ p \notin W
    BY FS_Subset, FS_CardinalityType, FramesAssumption DEF InSpaces
  <2>2. Cardinality(W \cup {p}) = Cardinality(W) + 1
    BY <2>1, FS_AddElement
  <2>3. /\ S[p] = f => InSpaces(S, f) = W \cup {p}
        /\ S[p] # f => InSpaces(S, f) = W
    BY DEF InSpaces
  <2> HIDE DEF W
  <2>4. CASE S[p] = f
    <3>1. Same(S[p], f) = 1 /\ InSpaces(S, f) = W \cup {p}
      BY <2>3, <2>4 DEF Same
    <3> QED
      BY <2>1, <2>2, <3>1 DEF W
  <2>5. CASE S[p] # f
    <3>1. Same(S[p], f) = 0 /\ InSpaces(S, f) = W
      BY <2>3, <2>5 DEF Same
    <3> QED
      BY <2>1, <3>1 DEF W
  <2> QED
    BY <2>4, <2>5
<1>4. Same(S[p], f) \in Nat
  BY DEF Same
<1>5. Pending(M[p], 0, f) \in Nat
  BY PendingIs, Zenon DEF Packets
<1>6. Cardinality(Uses(T[p], f)) \in Nat
  BY UsesIs
<1> DEFINE a == Cardinality(InTables(T, f))  u == Cardinality(Uses(T[p], f))
           b == Cardinality(InSpaces(S, f))  v == Same(S[p], f)
           c == Cardinality(InPackets(M, f))  w == Pending(M[p], 0, f)
           x == Cardinality(NotOf(InTables(T, f), p))
           y == Cardinality(InSpaces(S, f) \ {p})
           z == Cardinality(NotOf(InPackets(M, f), p))
<1>7. Refs(T, S, M, f) = a + b + c /\ Rest(p, T, S, M, f) = x + y + z
  BY Zenon DEF Refs, Rest
<1>8. /\ a = u + x /\ x \in Nat /\ c = w + z /\ z \in Nat /\ b = v + y /\ y \in Nat
      /\ u \in Nat /\ v \in Nat /\ w \in Nat
  BY <1>1, <1>2, <1>3, <1>4, <1>5, <1>6, Zenon
<1> HIDE DEF a, b, c, x, y, z, u, v, w
<1>9. x + y + z \in Nat /\ a + b + c = u + v + w + (x + y + z)
  BY <1>8
<1> QED
  BY <1>7, <1>8, <1>9, Zenon DEF u, v, w

(* What a process does to itself leaves the rest alone.                    *)
Agree(p, T, S, M, T2, S2, M2) ==
  \A q \in Proc \ {p} : T2[q] = T[q] /\ S2[q] = S[q] /\ M2[q] = M[q]

(* A step of one process does not change the rest of a frame's references. *)
LEMMA RestSame ==
  ASSUME NEW p \in Proc, NEW T, NEW S, NEW M, NEW T2, NEW S2, NEW M2, NEW f,
         Agree(p, T, S, M, T2, S2, M2)
  PROVE  Rest(p, T2, S2, M2, f) = Rest(p, T, S, M, f)
<1>1. NotOf(InTables(T2, f), p) = NotOf(InTables(T, f), p)
  BY DEF NotOf, InTables, Agree
<1>2. InSpaces(S2, f) \ {p} = InSpaces(S, f) \ {p}
  BY DEF InSpaces, Agree
<1>3. NotOf(InPackets(M2, f), p) = NotOf(InPackets(M, f), p)
  BY DEF NotOf, InPackets, Agree
<1> QED
  BY <1>1, <1>2, <1>3 DEF Rest

=============================================================================
