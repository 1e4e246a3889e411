--------------------------- MODULE MessagesProofs ---------------------------
(***************************************************************************)
(* Proofs about the messages of a process: the doubly linked queues of     *)
(* mqueue.c hold what they should and implement the mailbox, and a thread  *)
(* that shares no resource gets the replies to its own requests.           *)
(***************************************************************************)
EXTENDS Messages, TLAPS, FiniteSetTheorems

(* The time, in seconds, that each prover has for a leaf.                  *)
USE ZenonT(4), SMTT(20), ZenonT(30)

(* A nonempty set of naturals has a least member: the form in which the    *)
(* proofs use induction.                                                   *)
LEMMA LeastNat ==
  ASSUME NEW S \in SUBSET Nat, S # {}
  PROVE  \E m \in S : \A k \in S : m <= k
<1> DEFINE Less == OpToRel(<, Nat)
<1>1. \E x \in S : \A y \in S : <<y, x>> \notin Less
  BY NatLessThanWellFounded, WFMin, Zenon
<1>2. \A x, y \in Nat : <<y, x>> \in Less <=> y < x
  BY DEF OpToRel
<1> HIDE DEF Less
<1>3. PICK x \in S : \A y \in S : <<y, x>> \notin Less
  BY <1>1, Zenon
<1>4. x \in Nat /\ \A y \in S : y \in Nat
  OBVIOUS
<1>5. \A y \in S : ~(y < x)
  BY <1>2, <1>3, <1>4, Zenon
<1>6. \A y \in S : x <= y
  BY <1>4, <1>5
<1> QED
  BY <1>6

(* The members of a concatenation.                                         *)
LEMMA Joined ==
  ASSUME NEW S, NEW a \in Seq(S), NEW b \in Seq(S)
  PROVE  /\ a \o b \in Seq(S) /\ Len(a \o b) = Len(a) + Len(b)
         /\ \A j \in 1..Len(a) + Len(b) : (a \o b)[j] = IF j <= Len(a) THEN a[j] ELSE b[j - Len(a)]
  OBVIOUS

Link == Msg \cup {None}
Nodes == [Msg -> [next : Link, prev : Link]]
Ends == [front : Link, back : Link, mutex : Link]

-----------------------------------------------------------------------------
(* The queue as a sequence.                                                *)

(* Pointers spell at most one sequence of a given length.                  *)
LEMMA SpellsUnique ==
  ASSUME NEW q \in Ends, NEW n \in Nodes,
         NEW w \in Seq(Msg), Spells(q, n, w),
         NEW r \in Seq(Msg), Spells(q, n, r), Len(w) = Len(r)
  PROVE  w = r
<1>1. Len(w) \in Nat /\ Len(r) \in Nat
  OBVIOUS
<1> DEFINE Bad == {j \in 1..Len(w) : w[j] # r[j]}
<1>2. ASSUME Bad # {} PROVE FALSE
  <2>0. Bad \in SUBSET Nat
    BY <1>1
  <2>1. PICK m \in Bad : \A k \in Bad : m <= k
    BY <1>2, <2>0, LeastNat, Zenon
  <2>2. m \in 1..Len(w) /\ m \in 1..Len(r) /\ w[m] # r[m]
    OBVIOUS
  <2>3. w # <<>> /\ r # <<>>
    BY <2>2
  <2>4. m # 1
    BY <2>2, <2>3 DEF Spells
  <2>5. m - 1 \in 1..Len(w) /\ m - 1 # Len(w) /\ (m - 1) + 1 = m
    BY <2>2, <2>4, <1>1
  <2>6. w[m - 1] = r[m - 1]
    BY <2>1, <2>5
  <2>7. n[w[m - 1]].next = w[m] /\ n[r[m - 1]].next = r[m]
    BY <2>5, SMTT(30) DEF Spells
  <2> QED
    BY <2>2, <2>6, <2>7
<1> QED
  BY <1>2

(* Append, member by member.                                               *)
LEMMA Appended ==
  ASSUME NEW w \in Seq(Msg), NEW m \in Msg
  PROVE  /\ Append(w, m) \in Seq(Msg) /\ Append(w, m) # <<>>
         /\ Len(Append(w, m)) = Len(w) + 1
         /\ \A i \in 1..Len(w) : Append(w, m)[i] = w[i]
         /\ Append(w, m)[Len(w) + 1] = m
         /\ Elements(Append(w, m)) = Elements(w) \cup {m}
<1> DEFINE u == Append(w, m)
<1>1. /\ u \in Seq(Msg) /\ u # <<>> /\ Len(u) = Len(w) + 1 /\ Len(w) \in Nat
      /\ \A i \in 1..Len(w) : u[i] = w[i]
      /\ u[Len(w) + 1] = m
  OBVIOUS
<1> HIDE DEF u
<1>2. Elements(u) = Elements(w) \cup {m}
  <2>1. ASSUME NEW i \in 1..Len(u) PROVE u[i] \in Elements(w) \cup {m}
    <3>1. i \in 1..Len(w) \/ i = Len(w) + 1
      BY <1>1
    <3> QED
      BY <3>1, <1>1 DEF Elements
  <2>2. ASSUME NEW i \in 1..Len(w) PROVE w[i] \in Elements(u)
    <3>1. i \in 1..Len(u)
      BY <1>1
    <3> QED
      BY <3>1, <1>1 DEF Elements
  <2>3. m \in Elements(u)
    <3>1. Len(w) + 1 \in 1..Len(u)
      BY <1>1
    <3> QED
      BY <3>1, <1>1 DEF Elements
  <2> QED
    BY <2>1, <2>2, <2>3 DEF Elements
<1> QED
  BY <1>1, <1>2 DEF u

(* mqueue_push: the list is longer by m at its end.                        *)
LEMMA PushSpells ==
  ASSUME NEW q \in Ends, NEW n \in Nodes,
         NEW w \in Seq(Msg), Spells(q, n, w), NEW m \in Msg, m \notin Elements(w)
  PROVE  LET r == Linked(q, n, m) IN
         /\ r.q \in Ends /\ r.n \in Nodes
         /\ Spells(r.q, r.n, Append(w, m))
<1> DEFINE r == Linked(q, n, m)
           u == Append(w, m)
<1>1. /\ r.q = [front |-> IF q.front = None THEN m ELSE q.front, back |-> m, mutex |-> None]
      /\ r.n = [k \in Msg |-> IF k = m THEN [next |-> None, prev |-> q.back]
                              ELSE IF k = q.back THEN [n[k] EXCEPT !.next = m] ELSE n[k]]
  BY DEF Linked
<1>2. r.q \in Ends /\ r.q.back = m /\ r.q.front = IF q.front = None THEN m ELSE q.front
  BY <1>1 DEF Ends, Link
<1>3. /\ r.n \in Nodes
      /\ r.n[m].next = None /\ r.n[m].prev = q.back
      /\ \A k \in Msg \ {m} : /\ r.n[k].prev = n[k].prev
                              /\ r.n[k].next = IF k = q.back THEN m ELSE n[k].next
  BY <1>1 DEF Nodes, Link, Ends
<1> HIDE DEF r
<1>4. /\ u \in Seq(Msg) /\ u # <<>> /\ Len(u) = Len(w) + 1 /\ Len(w) \in Nat
      /\ \A i \in 1..Len(w) : u[i] = w[i] /\ w[i] \in Msg /\ w[i] # m
      /\ u[Len(w) + 1] = m
  BY Appended DEF Elements
<1> HIDE DEF u
<1>5. r.q.front = u[1] /\ r.q.back = u[Len(u)]
  <2>1. CASE w = <<>>
    BY <2>1, <1>2, <1>4 DEF Spells
  <2>2. CASE w # <<>>
    <3>1. 1 \in 1..Len(w)
      BY <2>2, <1>4
    <3> QED
      BY <2>2, <3>1, <1>2, <1>4, MessagesAssumption DEF Spells
  <2> QED
    BY <2>1, <2>2
<1>6. ASSUME NEW i \in 1..Len(u)
      PROVE  /\ r.n[u[i]].next = IF i = Len(u) THEN None ELSE u[i + 1]
             /\ r.n[u[i]].prev = IF i = 1 THEN None ELSE u[i - 1]
  <2>1. CASE i = Len(u)
    <3>1. u[i] = m /\ i = Len(w) + 1
      BY <2>1, <1>4
    <3>2. CASE w = <<>>
      BY <3>1, <3>2, <2>1, <1>3, <1>4 DEF Spells
    <3>3. CASE w # <<>>
      <4>1. i # 1 /\ i - 1 = Len(w) /\ Len(w) \in 1..Len(w)
        BY <3>1, <3>3, <1>4
      <4>2. q.back = w[Len(w)] /\ u[i - 1] = w[Len(w)]
        BY <3>3, <4>1, <1>4 DEF Spells
      <4> QED
        BY <3>1, <4>1, <4>2, <2>1, <1>3
    <3> QED
      BY <3>2, <3>3
  <2>2. CASE i # Len(u)
    <3>1. i \in 1..Len(w) /\ w # <<>> /\ Len(w) \in 1..Len(w)
      BY <2>2, <1>4
    <3>2. u[i] = w[i] /\ w[i] \in Msg \ {m} /\ q.back = w[Len(w)]
      BY <3>1, <1>4 DEF Spells
    <3>3. w[i] = q.back <=> i = Len(w)
      BY <3>1, <3>2 DEF Spells
    <3>4. r.n[u[i]].next = u[i + 1]
      <4>1. CASE i = Len(w)
        BY <4>1, <3>2, <3>3, <1>3, <1>4
      <4>2. CASE i # Len(w)
        <5>1. i + 1 \in 1..Len(w) /\ n[w[i]].next = w[i + 1]
          BY <4>2, <3>1, <1>4 DEF Spells
        <5> QED
          BY <5>1, <4>2, <3>2, <3>3, <1>3, <1>4
      <4> QED
        BY <4>1, <4>2
    <3>5. r.n[u[i]].prev = IF i = 1 THEN None ELSE u[i - 1]
      <4>1. i # 1 => i - 1 \in 1..Len(w)
        BY <3>1
      <4> QED
        BY <3>1, <3>2, <4>1, <1>3, <1>4 DEF Spells
    <3> QED
      BY <2>2, <3>4, <3>5
  <2> QED
    BY <2>1, <2>2
<1>7. ASSUME NEW i \in 1..Len(u), NEW j \in 1..Len(u), u[i] = u[j] PROVE i = j
  <2>1. (i \in 1..Len(w) \/ i = Len(w) + 1) /\ (j \in 1..Len(w) \/ j = Len(w) + 1)
    BY <1>4
  <2> QED
    BY <2>1, <1>4, <1>7 DEF Spells
<1>8. Spells(r.q, r.n, u)
  BY <1>4, <1>5, <1>6, <1>7 DEF Spells
<1> QED
  BY <1>2, <1>3, <1>8 DEF r, u

(* Nodes that agree on the members of a list spell it alike.               *)
LEMMA SpellsSame ==
  ASSUME NEW q, NEW n, NEW k, NEW w, Spells(q, n, w),
         \A i \in 1..Len(w) : k[w[i]] = n[w[i]]
  PROVE  Spells(q, k, w)
  BY Zenon DEF Spells

(* It does not touch the list of another port.                             *)
LEMMA PushOther ==
  ASSUME NEW q \in Ends, NEW n \in Nodes,
         NEW w \in Seq(Msg), Spells(q, n, w), NEW m \in Msg,
         NEW p, NEW x \in Seq(Msg), Spells(p, n, x),
         Elements(x) \cap (Elements(w) \cup {m}) = {}
  PROVE  Spells(p, Linked(q, n, m).n, x)
<1> DEFINE r == Linked(q, n, m)
<1>1. r.n = [k \in Msg |-> IF k = m THEN [next |-> None, prev |-> q.back]
                           ELSE IF k = q.back THEN [n[k] EXCEPT !.next = m] ELSE n[k]]
  BY DEF Linked
<1>2. ASSUME NEW i \in 1..Len(x) PROVE r.n[x[i]] = n[x[i]]
  <2>1. x[i] \in Msg /\ x[i] # m /\ x[i] \notin Elements(w)
    BY DEF Elements
  <2>2. x[i] # q.back
    <3>1. CASE w = <<>>
      BY <3>1, <2>1, MessagesAssumption DEF Spells
    <3>2. CASE w # <<>>
      <4>1. Len(w) \in 1..Len(w)
        BY <3>2
      <4> QED
        BY <3>2, <4>1, <2>1 DEF Spells, Elements
    <3> QED
      BY <3>1, <3>2
  <2> QED
    BY <1>1, <2>1, <2>2
<1> HIDE DEF r
<1>3. Spells(p, r.n, x)
  BY <1>2, SpellsSame
<1> QED
  BY <1>3 DEF r

(* The sequence w without its i-th member.                                 *)
Cut(w, i) == [j \in 1..Len(w) - 1 |-> IF j < i THEN w[j] ELSE w[j + 1]]

(* Taking entry i out of a list without repetitions leaves the others in   *)
(* their order (the unlinking in mqueue_pull).                             *)
LEMMA CutShape ==
  ASSUME NEW w \in Seq(Msg), NEW i \in 1..Len(w),
         \A j, k \in 1..Len(w) : w[j] = w[k] => j = k
  PROVE  /\ Cut(w, i) \in Seq(Msg) /\ Len(Cut(w, i)) = Len(w) - 1
         /\ \A j \in 1..Len(w) - 1 : Cut(w, i)[j] = IF j < i THEN w[j] ELSE w[j + 1]
         /\ \A j, k \in 1..Len(Cut(w, i)) : Cut(w, i)[j] = Cut(w, i)[k] => j = k
         /\ Elements(Cut(w, i)) = Elements(w) \ {w[i]}
<1> DEFINE u == Cut(w, i)
<1>1. Len(w) \in Nat /\ Len(w) - 1 \in Nat
  OBVIOUS
<1>2. \A j \in 1..Len(w) - 1 : j \in 1..Len(w) /\ j + 1 \in 1..Len(w)
  BY <1>1
<1>3. u \in [1..Len(w) - 1 -> Msg]
  BY <1>2 DEF Cut
<1>4. u \in Seq(Msg) /\ Len(u) = Len(w) - 1
  BY <1>1, <1>3
<1>5. \A j \in 1..Len(w) - 1 : u[j] = IF j < i THEN w[j] ELSE w[j + 1]
  BY DEF Cut
<1> HIDE DEF u
<1>6. ASSUME NEW j \in 1..Len(u), NEW k \in 1..Len(u), u[j] = u[k] PROVE j = k
  <2>1. j \in 1..Len(w) - 1 /\ k \in 1..Len(w) - 1
    BY <1>4
  <2>2. CASE j < i /\ k < i
    BY <2>1, <2>2, <1>2, <1>5, <1>6
  <2>3. CASE j < i /\ ~(k < i)
    <3>1. w[j] = w[k + 1]
      BY <2>1, <2>3, <1>5, <1>6
    <3>2. j = k + 1
      BY <3>1, <2>1, <1>2
    <3> QED
      BY <3>2, <2>1, <2>3
  <2>4. CASE ~(j < i) /\ k < i
    <3>1. w[j + 1] = w[k]
      BY <2>1, <2>4, <1>5, <1>6
    <3>2. j + 1 = k
      BY <3>1, <2>1, <1>2
    <3> QED
      BY <3>2, <2>1, <2>4
  <2>5. CASE ~(j < i) /\ ~(k < i)
    <3>1. w[j + 1] = w[k + 1]
      BY <2>1, <2>5, <1>5, <1>6
    <3>2. j + 1 = k + 1
      BY <3>1, <2>1, <1>2
    <3> QED
      BY <3>2, <2>1
  <2> QED
    BY <2>2, <2>3, <2>4, <2>5
<1>7. Elements(u) = Elements(w) \ {w[i]}
  <2>1. ASSUME NEW j \in 1..Len(u) PROVE u[j] \in Elements(w) \ {w[i]}
    <3>1. j \in 1..Len(w) - 1 /\ j \in 1..Len(w) /\ j + 1 \in 1..Len(w)
      BY <1>2, <1>4
    <3>2. CASE j < i
      BY <3>1, <3>2, <1>5 DEF Elements
    <3>3. CASE ~(j < i)
      <4>1. j + 1 # i /\ u[j] = w[j + 1]
        BY <3>1, <3>3, <1>5
      <4> QED
        BY <3>1, <4>1 DEF Elements
    <3> QED
      BY <3>2, <3>3
  <2>2. ASSUME NEW j \in 1..Len(w), w[j] # w[i] PROVE w[j] \in Elements(u)
    <3>1. CASE j < i
      <4>1. j \in 1..Len(u) /\ j \in 1..Len(w) - 1
        BY <3>1, <1>1, <1>4
      <4> QED
        BY <3>1, <4>1, <1>5 DEF Elements
    <3>2. CASE i < j
      <4>1. j - 1 \in 1..Len(u) /\ j - 1 \in 1..Len(w) - 1 /\ ~(j - 1 < i) /\ (j - 1) + 1 = j
        BY <3>2, <1>1, <1>4
      <4>2. u[j - 1] = w[j]
        BY <4>1, <1>5
      <4> QED
        BY <4>1, <4>2 DEF Elements
    <3> QED
      BY <3>1, <3>2, <2>2
  <2>3. Elements(u) \subseteq Elements(w) \ {w[i]}
    BY <2>1 DEF Elements
  <2>4. Elements(w) \ {w[i]} \subseteq Elements(u)
    BY <2>2 DEF Elements
  <2> QED
    BY <2>3, <2>4
<1> QED
  BY <1>4, <1>5, <1>6, <1>7 DEF u

(* mqueue_pull: the list is shorter by its i-th member, wherever that is.  *)
LEMMA PullSpells ==
  ASSUME NEW q \in Ends, NEW n \in Nodes,
         NEW w \in Seq(Msg), Spells(q, n, w), NEW i \in 1..Len(w)
  PROVE  LET r == Unlinked(q, n, w[i]) IN
         /\ r.q \in Ends /\ r.n \in Nodes
         /\ Spells(r.q, r.n, Cut(w, i))
<1> DEFINE m == w[i]
           r == Unlinked(q, n, m)
           u == Cut(w, i)
           L == Len(w)
<1>1. L \in Nat /\ m \in Msg /\ i \in 1..L
  OBVIOUS
<1>2. /\ r.q = [front |-> IF n[m].prev = None THEN n[m].next ELSE q.front,
                back  |-> IF n[m].next = None THEN n[m].prev ELSE q.back,
                mutex |-> q.mutex]
      /\ r.n = [k \in Msg |-> CASE k = m         -> Alone
                                [] k = n[m].prev -> [n[k] EXCEPT !.next = n[m].next]
                                [] k = n[m].next -> [n[k] EXCEPT !.prev = n[m].prev]
                                [] OTHER         -> n[k]]
  BY DEF Unlinked
<1>3. /\ n[m].prev = IF i = 1 THEN None ELSE w[i - 1]
      /\ n[m].next = IF i = L THEN None ELSE w[i + 1]
      /\ n[m].prev \in Link /\ n[m].next \in Link
  BY <1>1 DEF Spells, Nodes
<1>4. /\ i # 1 => i - 1 \in 1..L /\ w[i - 1] \in Msg
      /\ i # L => i + 1 \in 1..L /\ w[i + 1] \in Msg
  BY <1>1
<1>5. n[m].prev = n[m].next => n[m].prev = None
  <2>1. CASE i = 1 \/ i = L
    BY <2>1, <1>3, <1>4, MessagesAssumption
  <2>2. CASE i # 1 /\ i # L
    <3>1. w[i - 1] # w[i + 1]
      BY <2>2, <1>4 DEF Spells
    <3> QED
      BY <2>2, <3>1, <1>3
  <2> QED
    BY <2>1, <2>2
<1>6. r.q \in Ends
  BY <1>2, <1>3 DEF Ends
<1>7. /\ r.n \in Nodes
      /\ \A k \in Msg \ {m} :
           /\ r.n[k].next = IF k = n[m].prev THEN n[m].next ELSE n[k].next
           /\ r.n[k].prev = IF k = n[m].next THEN n[m].prev ELSE n[k].prev
  <2>1. ASSUME NEW k \in Msg
        PROVE  /\ r.n[k] \in [next : Link, prev : Link]
               /\ k # m => /\ r.n[k].next = IF k = n[m].prev THEN n[m].next ELSE n[k].next
                           /\ r.n[k].prev = IF k = n[m].next THEN n[m].prev ELSE n[k].prev
    <3>0. n[k] \in [next : Link, prev : Link]
      BY DEF Nodes
    <3>1. CASE k = m
      <4>1. m # n[m].prev /\ m # n[m].next
        BY <1>1, <1>3, <1>4, MessagesAssumption DEF Spells
      <4>2. r.n[k] = Alone
        BY <3>1, <4>1, <1>2
      <4> QED
        BY <3>1, <4>2 DEF Alone, Link
    <3>2. CASE k # m /\ k = n[m].prev
      <4>2. k # n[m].next
        BY <3>2, <1>5, MessagesAssumption
      <4>1. r.n[k] = [n[k] EXCEPT !.next = n[m].next]
        BY <3>2, <4>2, <1>2
      <4> QED
        BY <3>0, <3>2, <4>1, <4>2, <1>3
    <3>3. CASE k # m /\ k # n[m].prev /\ k = n[m].next
      <4>1. r.n[k] = [n[k] EXCEPT !.prev = n[m].prev]
        BY <3>3, <1>2
      <4> QED
        BY <3>0, <3>3, <4>1, <1>3
    <3>4. CASE k # m /\ k # n[m].prev /\ k # n[m].next
      <4>1. r.n[k] = n[k]
        BY <3>4, <1>2
      <4> QED
        BY <3>0, <3>4, <4>1
    <3> QED
      BY <3>1, <3>2, <3>3, <3>4
  <2>2. r.n = [k \in Msg |-> r.n[k]]
    BY <1>2
  <2> QED
    BY <2>1, <2>2, SMTT(30) DEF Nodes
<1> HIDE DEF r
<1>8. /\ u \in Seq(Msg) /\ Len(u) = L - 1
      /\ \A j \in 1..L - 1 : u[j] = IF j < i THEN w[j] ELSE w[j + 1]
      /\ \A j, k \in 1..Len(u) : u[j] = u[k] => j = k
  BY CutShape DEF Spells
<1> HIDE DEF u
<1>9. ASSUME NEW j \in 1..L, j # i
      PROVE  /\ r.n[w[j]].next = IF j = i - 1 THEN n[m].next
                                 ELSE IF j = L THEN None ELSE w[j + 1]
             /\ r.n[w[j]].prev = IF j = i + 1 THEN n[m].prev
                                 ELSE IF j = 1 THEN None ELSE w[j - 1]
  <2>1. w[j] \in Msg \ {m}
    BY <1>9 DEF Spells
  <2>2. w[j] = n[m].prev <=> j = i - 1
    <3>1. CASE i = 1
      BY <3>1, <2>1, <1>3, MessagesAssumption
    <3>2. CASE i # 1
      BY <3>2, <1>3, <1>4 DEF Spells
    <3> QED
      BY <3>1, <3>2
  <2>3. w[j] = n[m].next <=> j = i + 1
    <3>1. CASE i = L
      BY <3>1, <2>1, <1>3, MessagesAssumption
    <3>2. CASE i # L
      BY <3>2, <1>3, <1>4 DEF Spells
    <3> QED
      BY <3>1, <3>2
  <2>4. /\ n[w[j]].next = IF j = L THEN None ELSE w[j + 1]
        /\ n[w[j]].prev = IF j = 1 THEN None ELSE w[j - 1]
    BY DEF Spells
  <2> QED
    BY <2>1, <2>2, <2>3, <2>4, <1>7
<1>10. ASSUME NEW j \in 1..L - 1
       PROVE  /\ r.n[u[j]].next = IF j = Len(u) THEN None ELSE u[j + 1]
              /\ r.n[u[j]].prev = IF j = 1 THEN None ELSE u[j - 1]
  <2>1. /\ j \in 1..L /\ j + 1 \in 1..L
        /\ j # L - 1 => j + 1 \in 1..L - 1 /\ (j + 1) + 1 = j + 2
        /\ j # 1 => j - 1 \in 1..L - 1 /\ (j - 1) + 1 = j
    BY <1>1
  <2>2. CASE j < i
    <3>1. u[j] = w[j] /\ j # i /\ j # L /\ j # i + 1
      BY <2>1, <2>2, <1>1, <1>8
    <3>2. j # 1 => u[j - 1] = w[j - 1]
      BY <2>1, <2>2, <1>8, SMTT(30)
    <3>3. j # L - 1 => u[j + 1] = IF j = i - 1 THEN w[i + 1] ELSE w[j + 1]
      BY <2>1, <2>2, <1>8
    <3>4. j = i - 1 => (i = L <=> j = L - 1)
      BY <1>1
    <3>5. j # i - 1 => j # L - 1
      BY <2>2, <1>1
    <3> QED
      BY <3>1, <3>2, <3>3, <3>4, <3>5, <2>1, <1>3, <1>8, <1>9, ZenonT(30)
  <2>3. CASE ~(j < i)
    <3>1. /\ u[j] = w[j + 1] /\ j + 1 # i /\ j + 1 # i - 1 /\ j + 1 # 1
          /\ (j + 1) - 1 = j /\ (j + 1 = i + 1 <=> j = i) /\ (j + 1 = L <=> j = L - 1)
      BY <2>1, <2>3, <1>1, <1>8
    <3>2. j # 1 => u[j - 1] = IF j = i THEN w[i - 1] ELSE w[j]
      BY <2>1, <2>3, <1>8
    <3>3. j # L - 1 => u[j + 1] = w[j + 2]
      BY <2>1, <2>3, <1>8
    <3>4. /\ r.n[w[j + 1]].next = IF j = L - 1 THEN None ELSE w[j + 2]
          /\ r.n[w[j + 1]].prev = IF j = i THEN n[m].prev ELSE w[j]
      BY <3>1, <2>1, <1>9
    <3>5. r.n[u[j]].next = IF j = Len(u) THEN None ELSE u[j + 1]
      BY <3>1, <3>3, <3>4, <1>8
    <3>6. r.n[u[j]].prev = IF j = 1 THEN None ELSE u[j - 1]
      <4>1. CASE j = i
        BY <4>1, <3>1, <3>2, <3>4, <1>3
      <4>2. CASE j # i
        BY <4>2, <3>1, <3>2, <3>4, <2>3, <1>1
      <4> QED
        BY <4>1, <4>2
    <3> QED
      BY <3>5, <3>6
  <2> QED
    BY <2>2, <2>3
<1>11. /\ r.q.front = IF u = <<>> THEN None ELSE u[1]
       /\ r.q.back = IF u = <<>> THEN None ELSE u[Len(u)]
  <2>1. w # <<>> /\ q.front = w[1] /\ q.back = w[L]
    BY <1>1 DEF Spells
  <2>2. CASE L = 1
    <3>1. i = 1 /\ u = <<>>
      BY <2>2, <1>1, <1>8
    <3> QED
      BY <3>1, <2>2, <1>2, <1>3
  <2>3. CASE L # 1
    <3>1. 1 \in 1..L - 1 /\ L - 1 \in 1..L - 1 /\ Len(u) = L - 1 /\ u # <<>> /\ (L - 1) + 1 = L
      BY <2>3, <1>1, <1>8
    <3>2. u[1] = (IF i = 1 THEN w[2] ELSE w[1]) /\ u[L - 1] = IF i = L THEN w[L - 1] ELSE w[L]
      BY <3>1, <1>1, <1>8
    <3>3. r.q.front = IF i = 1 THEN w[2] ELSE w[1]
      <4>1. CASE i = 1
        BY <4>1, <2>3, <1>2, <1>3
      <4>2. CASE i # 1
        <5>1. n[m].prev # None
          BY <4>2, <1>3, <1>4, MessagesAssumption
        <5> QED
          BY <4>2, <5>1, <2>1, <1>2
      <4> QED
        BY <4>1, <4>2
    <3>4. r.q.back = IF i = L THEN w[L - 1] ELSE w[L]
      <4>1. CASE i = L
        BY <4>1, <2>3, <1>2, <1>3
      <4>2. CASE i # L
        <5>1. n[m].next # None
          BY <4>2, <1>3, <1>4, MessagesAssumption
        <5> QED
          BY <4>2, <5>1, <2>1, <1>2
      <4> QED
        BY <4>1, <4>2
    <3> QED
      BY <3>1, <3>2, <3>3, <3>4
  <2> QED
    BY <2>2, <2>3
<1>12. Spells(r.q, r.n, u)
  BY <1>8, <1>10, <1>11 DEF Spells
<1> QED
  BY <1>6, <1>7, <1>12 DEF r, u

(* It does not touch the list of another port.                             *)
LEMMA PullOther ==
  ASSUME NEW q \in Ends, NEW n \in Nodes,
         NEW w \in Seq(Msg), Spells(q, n, w), NEW i \in 1..Len(w),
         NEW p, NEW x \in Seq(Msg), Spells(p, n, x),
         Elements(x) \cap Elements(w) = {}
  PROVE  Spells(p, Unlinked(q, n, w[i]).n, x)
<1> DEFINE m == w[i]
           r == Unlinked(q, n, m)
<1>1. r.n = [k \in Msg |-> CASE k = m         -> Alone
                             [] k = n[m].prev -> [n[k] EXCEPT !.next = n[m].next]
                             [] k = n[m].next -> [n[k] EXCEPT !.prev = n[m].prev]
                             [] OTHER         -> n[k]]
  BY DEF Unlinked
<1>2. {m, n[m].prev, n[m].next} \subseteq Elements(w) \cup {None}
  <2>1. /\ n[m].prev = IF i = 1 THEN None ELSE w[i - 1]
        /\ n[m].next = IF i = Len(w) THEN None ELSE w[i + 1]
    BY DEF Spells
  <2>2. /\ i # 1 => i - 1 \in 1..Len(w)
        /\ i # Len(w) => i + 1 \in 1..Len(w)
    OBVIOUS
  <2> QED
    BY <2>1, <2>2 DEF Elements
<1>3. ASSUME NEW j \in 1..Len(x) PROVE r.n[x[j]] = n[x[j]]
  <2>1. x[j] \in Msg /\ x[j] \notin Elements(w) /\ x[j] # None
    BY MessagesAssumption DEF Elements
  <2>2. x[j] # m /\ x[j] # n[m].prev /\ x[j] # n[m].next
    BY <1>2, <2>1
  <2> QED
    BY <1>1, <2>1, <2>2
<1> HIDE DEF r
<1>4. Spells(p, r.n, x)
  BY <1>3, SpellsSame
<1> QED
  BY <1>4 DEF r

(* The search of mqueue_pull finds the first message of the source.        *)
LEMMA FoundIs ==
  ASSUME NEW p \in Port, NEW src,
         NEW w \in Seq(Msg), Spells(queue[p], node, w),
         NEW m \in Found(p, src)
  PROVE  \E i \in 1..Len(w) : /\ m = w[i] /\ Hit(w[i], src)
                              /\ \A j \in 1..i - 1 : ~Hit(w[j], src)
<1> DEFINE Before == {j \in 1..Len(w) : \A k \in 1..j - 1 : ~Hit(w[k], src)}
           S == {w[j] : j \in Before}
<1>0. Len(w) \in Nat
  OBVIOUS
<1>1. S \in SUBSET Msg
  OBVIOUS
<1>2. queue[p].front \in S \cup {None}
  <2>1. CASE w = <<>>
    BY <2>1 DEF Spells
  <2>2. CASE w # <<>>
    <3>1. 1 \in Before
      BY <2>2, <1>0
    <3> QED
      BY <2>2, <3>1 DEF Spells
  <2> QED
    BY <2>1, <2>2
<1>3. ASSUME NEW k \in S, ~Hit(k, src) PROVE node[k].next \in S \cup {None}
  <2>1. PICK j \in Before : k = w[j]
    OBVIOUS
  <2>2. j \in 1..Len(w) /\ \A l \in 1..j - 1 : ~Hit(w[l], src)
    OBVIOUS
  <2>3. CASE j = Len(w)
    BY <2>1, <2>2, <2>3 DEF Spells
  <2>4. CASE j # Len(w)
    <3>1. node[k].next = w[j + 1]
      BY <2>1, <2>2, <2>4 DEF Spells
    <3>2. \A l \in 1..(j + 1) - 1 : l \in 1..j - 1 \/ l = j
      BY <2>2
    <3>3. j + 1 \in Before
      BY <3>2, <2>1, <2>2, <2>4, <1>0, <1>3
    <3> QED
      BY <3>1, <3>3
  <2> QED
    BY <2>3, <2>4
<1>4. m \in S
  <2>0. m \in Looked(p, src)
    BY DEF Found
  <2> HIDE DEF S
  <2> QED
    BY <2>0, <1>1, <1>2, <1>3 DEF Looked
<1>5. Hit(m, src)
  BY DEF Found
<1> QED
  BY <1>4, <1>5

(* A sequence that spells the messages of a port has their number as its   *)
(* length.                                                                 *)
LEMMA LinesHave ==
  ASSUME NEW p \in Port, NEW w \in Seq(Msg),
         \A i, j \in 1..Len(w) : w[i] = w[j] => i = j,
         Elements(w) = InPort(p)
  PROVE  w \in Lines(p) /\ Cardinality(InPort(p)) = Len(w)
<1>1. Len(w) \in Nat /\ w \in [1..Len(w) -> InPort(p)]
  BY DEF Elements
<1>2. w \in Bijection(1..Len(w), InPort(p))
  BY <1>1 DEF Bijection, Injection, Surjection, IsInjective, Elements
<1>3. ExistsBijection(1..Len(w), InPort(p))
  BY <1>2 DEF ExistsBijection
<1>4. Cardinality(InPort(p)) = Len(w)
  BY <1>1, <1>3, FS_CountingElements
<1> QED
  BY <1>1, <1>4 DEF Lines

(* A line of a port's queue is as long as the messages waiting there are   *)
(* many, and holds only those.                                             *)
LEMMA LinesAre ==
  ASSUME NEW p \in Port, NEW w \in Lines(p)
  PROVE  w \in Seq(Msg) /\ Len(w) = Cardinality(InPort(p)) /\ Elements(w) \subseteq InPort(p)
<1>1. IsFiniteSet(InPort(p)) /\ InPort(p) \subseteq Msg
  BY FS_Subset, MessagesAssumption DEF InPort
<1>2. Cardinality(InPort(p)) \in Nat
  BY <1>1, FS_CardinalityType
<1>3. w \in [1..Cardinality(InPort(p)) -> InPort(p)]
  BY DEF Lines
<1>4. w \in Seq(InPort(p)) /\ Len(w) = Cardinality(InPort(p))
  BY <1>2, <1>3
<1> QED
  BY <1>1, <1>4 DEF Elements

(* The sequence that Walk chooses is the one that the pointers spell.      *)
LEMMA WalkIs ==
  ASSUME NEW p \in Port, queue[p] \in Ends, node \in Nodes,
         NEW w \in Seq(Msg), Spells(queue[p], node, w), Elements(w) = InPort(p)
  PROVE  Walk(p) = w
<1>1. w \in Lines(p) /\ Len(w) = Cardinality(InPort(p))
  BY LinesHave DEF Spells
<1>2. Walk(p) \in Lines(p) /\ Spells(queue[p], node, Walk(p))
  BY <1>1 DEF Walk
<1>3. Walk(p) \in Seq(Msg) /\ Len(Walk(p)) = Len(w)
  BY <1>1, <1>2, LinesAre
<1> QED
  BY <1>2, <1>3, SpellsUnique

-----------------------------------------------------------------------------
(* The inductive invariant.                                                *)

Places == {"unused", "request", "handled", "arrived", "held", "locked", "queued", "lost"}
Source == RP \cup Child

TypeInv ==
  /\ msg \in [Msg -> [at : Places, port : Port, src : Source \cup {None}, by : Thread \cup {None}]]
  /\ node \in Nodes
  /\ queue \in [Port -> Ends]
  /\ wait \in [Thread -> [port : Port \cup {"none"}, src : Source \cup {Every, None}, mine : BOOLEAN]]

(* A reply carries the caller it is for and a resource that the caller     *)
(* uses; a message at the other port is of a child.                        *)
Sent ==
  \A m \in Msg : msg[m].at # "unused" =>
    IF msg[m].port = "reply" THEN msg[m].by \in Thread /\ msg[m].src \in Uses[msg[m].by]
                             ELSE msg[m].src \in Child

(* A thread waits for a resource that it uses, or for a child.             *)
Asked ==
  \A t \in Thread : /\ wait[t].port = "reply" => wait[t].src \in Uses[t]
                    /\ wait[t].port = "child" => wait[t].src \in Child \cup {Every}

(* The list of port p is w, and it holds the messages of the port.         *)
IsList(p, w) == w \in Seq(Msg) /\ Spells(queue[p], node, w) /\ Elements(w) = InPort(p)

Listed == \A p \in Port : \E w \in Seq(Msg) : IsList(p, w)

Inv == TypeInv /\ Sent /\ Asked /\ Listed /\ OwnReply

(* When the links of every port form a list, walking them from front to    *)
(* back meets exactly the messages in the port.                            *)
LEMMA ListedIsExact == TypeInv /\ Listed => ListExact
<1> SUFFICES ASSUME TypeInv, Listed, NEW p \in Port
             PROVE  \E w \in Lines(p) : Spells(queue[p], node, w) /\ Elements(w) = InPort(p)
  BY DEF ListExact
<1>1. PICK w \in Seq(Msg) : IsList(p, w)
  BY DEF Listed
<1>2. w \in Lines(p)
  BY <1>1, LinesHave DEF IsList, Spells
<1> QED
  BY <1>1, <1>2 DEF IsList

(* What Walk chooses is the list.                                          *)
Walked == \A p \in Port, w \in Seq(Msg) : IsList(p, w) => Walk(p) = w

(* A port's links form at most one list, the one that Walk chooses.        *)
LEMMA WalkedIs == TypeInv => Walked
<1> SUFFICES ASSUME TypeInv, NEW p \in Port, NEW w \in Seq(Msg), IsList(p, w)
             PROVE  Walk(p) = w
  BY DEF Walked
<1>1. queue[p] \in Ends /\ node \in Nodes
  BY DEF TypeInv
<1> QED
  BY <1>1, WalkIs DEF IsList

(* The empty mailboxes of the start satisfy the inductive invariant.       *)
LEMMA InitInv == Init => Inv
<1> SUFFICES ASSUME Init PROVE Inv
  OBVIOUS
<1> USE DEF Init
<1>1. TypeInv
  BY DEF TypeInv, Unused, Alone, Idle, Places, Port, Nodes, Ends, Link
<1>2. Sent /\ Asked /\ OwnReply
  BY DEF Sent, Asked, OwnReply, Unused, Idle
<1>3. ASSUME NEW p \in Port PROVE IsList(p, <<>>)
  <2>1. InPort(p) = {}
    BY DEF InPort, Unused
  <2>2. Spells(queue[p], node, <<>>)
    BY DEF Spells
  <2> QED
    BY <2>1, <2>2 DEF IsList, Elements
<1>4. Listed
  <2>1. <<>> \in Seq(Msg)
    OBVIOUS
  <2> QED
    BY <1>3, <2>1, Zenon DEF Listed
<1> QED
  BY <1>1, <1>2, <1>4 DEF Inv

(* A step that touches neither the lists nor what is in them.              *)
Quiet ==
  /\ node' = node /\ queue' \in [Port -> Ends]
  /\ \A p \in Port : queue'[p].front = queue[p].front /\ queue'[p].back = queue[p].back
  /\ \A m \in Msg : /\ msg'[m].at = "queued" <=> msg[m].at = "queued"
                    /\ msg[m].at = "queued" => msg'[m] = msg[m]

(* A step that touches neither the links nor the queued messages leaves    *)
(* every list as it is.                                                    *)
LEMMA QuietKeeps ==
  ASSUME Quiet, NEW p \in Port, NEW w, IsList(p, w)
  PROVE  IsList(p, w)'
<1>1. InPort(p)' = InPort(p)
  BY DEF Quiet, InPort
<1>2. Spells(queue[p], node, w)'
  BY DEF Quiet, IsList, Spells
<1> QED
  BY <1>1, <1>2 DEF IsList

(* The successful branch of mqueue_push.                                   *)
Pushes(m) == mqueue_push(m) /\ msg'[m].at = "queued"

(* mqueue_push appends the message to the list of its port and leaves the  *)
(* other ports' lists alone.                                               *)
LEMMA PushLists ==
  ASSUME TypeInv, NEW m \in Msg, Pushes(m),
         NEW o \in Port, o = msg[m].port, NEW w, IsList(o, w),
         NEW p \in Port, p # o, NEW x, IsList(p, x)
  PROVE  /\ IsList(o, Append(w, m))' /\ IsList(p, x)'
         /\ queue' \in [Port -> Ends] /\ node' \in Nodes
         /\ m \notin Elements(w) /\ m \notin Elements(x)
<1> DEFINE r == Linked(queue[o], node, m)
<1>1. /\ queue' = [queue EXCEPT ![o] = r.q] /\ node' = r.n
      /\ msg' = [msg EXCEPT ![m].at = "queued"] /\ msg[m].at = "locked"
  <2>1. msg[m].at = "locked" /\ "lost" # "queued"
    BY DEF Pushes, mqueue_push
  <2>2. msg' = [msg EXCEPT ![m].at = "lost"] => msg'[m].at = "lost"
    BY DEF TypeInv
  <2> QED
    BY <2>1, <2>2 DEF Pushes, mqueue_push
<1>2. /\ o \in Port /\ queue[o] \in Ends /\ queue[p] \in Ends /\ node \in Nodes
      /\ w \in Seq(Msg) /\ x \in Seq(Msg)
  BY DEF TypeInv, IsList
<1>3. m \notin InPort(o) /\ m \notin InPort(p) /\ InPort(p) \cap InPort(o) = {}
  BY <1>1 DEF InPort
<1>4. Elements(w) = InPort(o) /\ Elements(x) = InPort(p)
  BY DEF IsList
<1>5. r.q \in Ends /\ r.n \in Nodes /\ Spells(r.q, r.n, Append(w, m))
  BY <1>2, <1>3, <1>4, PushSpells DEF IsList
<1>6. Spells(queue[p], r.n, x)
  BY <1>2, <1>3, <1>4, PushOther DEF IsList
<1> HIDE DEF r
<1>7. queue' \in [Port -> Ends] /\ node' \in Nodes /\ queue'[o] = r.q /\ queue'[p] = queue[p]
  BY <1>1, <1>2, <1>5 DEF TypeInv
<1>8. InPort(o)' = InPort(o) \cup {m} /\ InPort(p)' = InPort(p)
  <2>1. \A k \in Msg : /\ msg'[k].port = msg[k].port
                       /\ msg'[k].at = IF k = m THEN "queued" ELSE msg[k].at
    BY <1>1 DEF TypeInv
  <2> QED
    BY <2>1 DEF InPort
<1>9. /\ Append(w, m) \in Seq(Msg) /\ Elements(Append(w, m)) = Elements(w) \cup {m}
  BY <1>2, Appended
<1>10. IsList(o, Append(w, m))'
  BY <1>1, <1>4, <1>5, <1>7, <1>8, <1>9 DEF IsList
<1>11. IsList(p, x)'
  BY <1>1, <1>2, <1>4, <1>6, <1>7, <1>8 DEF IsList
<1> QED
  BY <1>3, <1>4, <1>7, <1>10, <1>11

(* Thread t takes the i-th message of the list w of port o; the list x of  *)
(* port p stays.                                                           *)
TakesAt(t, o, w, i, p, x) ==
  /\ Hit(w[i], wait[t].src) /\ \A j \in 1..i - 1 : ~Hit(w[j], wait[t].src)
  /\ IsList(o, Cut(w, i))' /\ IsList(p, x)'
  /\ queue' \in [Port -> Ends] /\ node' \in Nodes
  /\ w[i] \in Msg /\ msg[w[i]].at = "queued" /\ msg[w[i]].port = o
  /\ msg' = [msg EXCEPT ![w[i]] = Unused]
  /\ wait' = [wait EXCEPT ![t] = Idle(o = "reply" => msg[w[i]].by = t)]

(* mqueue_pull takes one entry out of the list of its port and leaves the  *)
(* other ports' lists alone.                                               *)
LEMMA PullLists ==
  ASSUME TypeInv, NEW t \in Thread, mqueue_pull(t),
         NEW o \in Port, o = wait[t].port, NEW w, IsList(o, w),
         NEW p \in Port, p # o, NEW x, IsList(p, x)
  PROVE  \E i \in 1..Len(w) : TakesAt(t, o, w, i, p, x)
<1>1. PICK m \in Found(o, wait[t].src) :
        /\ queue' = [queue EXCEPT ![o] = Unlinked(queue[o], node, m).q]
        /\ node' = Unlinked(queue[o], node, m).n
        /\ msg' = [msg EXCEPT ![m] = Unused]
        /\ wait' = [wait EXCEPT ![t] = Idle(o = "reply" => msg[m].by = t)]
  <2>1. \E m \in Found(wait[t].port, wait[t].src) :
          /\ queue' = [queue EXCEPT ![wait[t].port] = Unlinked(queue[wait[t].port], node, m).q]
          /\ node' = Unlinked(queue[wait[t].port], node, m).n
          /\ msg' = [msg EXCEPT ![m] = Unused]
          /\ wait' = [wait EXCEPT ![t] = Idle(wait[t].port = "reply" => msg[m].by = t)]
    BY Zenon DEF mqueue_pull
  <2> QED
    BY <2>1, Zenon
<1>2. /\ queue[o] \in Ends /\ queue[p] \in Ends /\ node \in Nodes
      /\ w \in Seq(Msg) /\ x \in Seq(Msg)
  BY DEF TypeInv, IsList
<1>3. Spells(queue[o], node, w) /\ Spells(queue[p], node, x)
  BY DEF IsList
<1>4. PICK i \in 1..Len(w) : /\ m = w[i] /\ Hit(w[i], wait[t].src)
                            /\ \A j \in 1..i - 1 : ~Hit(w[j], wait[t].src)
  BY <1>2, <1>3, FoundIs
<1> DEFINE r == Unlinked(queue[o], node, w[i])
<1>5. Elements(w) = InPort(o) /\ Elements(x) = InPort(p) /\ InPort(p) \cap InPort(o) = {}
  BY DEF IsList, InPort
<1>6. r.q \in Ends /\ r.n \in Nodes /\ Spells(r.q, r.n, Cut(w, i))
  BY <1>2, <1>3, PullSpells
<1>7. Spells(queue[p], r.n, x)
  BY <1>2, <1>3, <1>5, PullOther
<1>8. queue' = [queue EXCEPT ![o] = r.q] /\ node' = r.n
  BY <1>1, <1>4
<1> HIDE DEF r
<1>9. queue' \in [Port -> Ends] /\ node' \in Nodes /\ queue'[o] = r.q /\ queue'[p] = queue[p]
  BY <1>6, <1>8 DEF TypeInv
<1>10. w[i] \in Msg /\ msg[w[i]].at = "queued" /\ msg[w[i]].port = o
  BY <1>2, <1>5 DEF Elements, InPort
<1>11. InPort(o)' = InPort(o) \ {w[i]} /\ InPort(p)' = InPort(p)
  <2>1. \A k \in Msg : IF k = w[i] THEN msg'[k].at = "unused" ELSE msg'[k] = msg[k]
    BY <1>1, <1>4 DEF TypeInv, Unused
  <2> QED
    BY <2>1, <1>10 DEF InPort
<1>12. Cut(w, i) \in Seq(Msg) /\ Elements(Cut(w, i)) = Elements(w) \ {w[i]}
  BY <1>2, <1>3, CutShape DEF Spells
<1>13. IsList(o, Cut(w, i))'
  BY <1>5, <1>6, <1>8, <1>9, <1>11, <1>12, SMTT(30) DEF IsList
<1>14. IsList(p, x)'
  BY <1>2, <1>5, <1>7, <1>8, <1>9, <1>11 DEF IsList
<1>15. wait' = [wait EXCEPT ![t] = Idle(o = "reply" => msg[w[i]].by = t)]
  BY <1>1, <1>4, Zenon
<1>16. msg' = [msg EXCEPT ![w[i]] = Unused]
  BY <1>1, <1>4
<1> QED
  BY <1>4, <1>9, <1>10, <1>13, <1>14, <1>15, <1>16, Zenon DEF TakesAt

(* Every step leaves the lists alone, appends to one, or takes from one.   *)
Ending == Next \/ server_ends

(* Every step leaves the queues alone, pushes one message or pulls one.    *)
LEMMA QuietOrNot ==
  ASSUME TypeInv, [Ending]_vars
  PROVE  \/ Quiet
         \/ \E m \in Msg : Pushes(m)
         \/ \E t \in Thread : mqueue_pull(t)
<1> USE DEF TypeInv
<1>0. Room => Fresh \in Msg /\ msg[Fresh].at = "unused"
  BY DEF Room, Fresh
<1>1. ASSUME NEW t \in Thread, NEW rp, rcall(t, rp) PROVE Quiet
  BY <1>0, <1>1 DEF rcall, Quiet
<1>2. ASSUME NEW t \in Thread, NEW src, mwait_child(t, src) PROVE Quiet
  BY <1>2 DEF mwait_child, Quiet
<1>3. ASSUME NEW c, child_sends(c) PROVE Quiet
  BY <1>0, <1>3 DEF child_sends, Quiet
<1>4. ASSUME NEW m \in Msg, __rcall_handler(m) \/ on_event(m) PROVE Quiet
  BY <1>4 DEF __rcall_handler, on_event, Quiet
<1>5. ASSUME NEW m \in Msg, mqueue_lock(m) PROVE Quiet
  <2>1. PICK p \in Port : p = msg[m].port
    OBVIOUS
  <2>2. /\ queue' = [queue EXCEPT ![p].mutex = m] /\ node' = node
        /\ msg' = [msg EXCEPT ![m].at = "locked"] /\ msg[m].at = "held"
    BY <1>5, <2>1 DEF mqueue_lock
  <2>3. queue' \in [Port -> Ends]
    <3>1. ASSUME NEW o \in Port PROVE queue'[o] \in Ends
      <4>1. queue[o] \in Ends /\ m \in Link
        BY DEF Link
      <4>2. queue'[o] = IF o = p THEN [queue[o] EXCEPT !.mutex = m] ELSE queue[o]
        BY <2>2, SMTT(30)
      <4> QED
        BY <4>1, <4>2 DEF Ends
    <3> QED
      BY <2>2, <3>1, Zenon
  <2>4. \A o \in Port : queue'[o].front = queue[o].front /\ queue'[o].back = queue[o].back
    BY <2>2 DEF Ends
  <2> QED
    BY <2>2, <2>3, <2>4 DEF Quiet
<1>6. ASSUME NEW m \in Msg, mqueue_push(m) PROVE Quiet \/ Pushes(m)
  BY <1>6 DEF mqueue_push, Quiet, Pushes
<1>7. ASSUME server_ends PROVE Quiet
  BY <1>7 DEF server_ends, Quiet
<1>8. ASSUME UNCHANGED vars PROVE Quiet
  BY <1>8 DEF vars, Quiet
<1> QED
  BY <1>1, <1>2, <1>3, <1>4, <1>5, <1>6, <1>7, <1>8 DEF Ending, Next, EventStep

(* Every step keeps the links of every port a list.                        *)
LEMMA StepLists ==
  ASSUME TypeInv, Listed, [Ending]_vars
  PROVE  Listed' /\ node' \in Nodes /\ queue' \in [Port -> Ends]
<1>1. CASE Quiet
  <2>1. ASSUME NEW p \in Port PROVE \E w \in Seq(Msg) : IsList(p, w)'
    BY <1>1, QuietKeeps DEF Listed
  <2> QED
    BY <2>1, <1>1 DEF Listed, Quiet, TypeInv
<1>2. ASSUME NEW m \in Msg, Pushes(m) PROVE Listed' /\ node' \in Nodes /\ queue' \in [Port -> Ends]
  <2>1. PICK o \in Port : o = msg[m].port
    BY DEF TypeInv
  <2>2. PICK p \in Port : p # o /\ Port = {o, p}
    BY DEF Port
  <2>3. PICK w \in Seq(Msg) : IsList(o, w)
    BY DEF Listed
  <2>4. PICK x \in Seq(Msg) : IsList(p, x)
    BY DEF Listed
  <2>5. /\ IsList(o, Append(w, m))' /\ IsList(p, x)'
        /\ queue' \in [Port -> Ends] /\ node' \in Nodes
    BY <1>2, <2>1, <2>2, <2>3, <2>4, PushLists, Zenon
  <2>6. Append(w, m) \in Seq(Msg)
    OBVIOUS
  <2> QED
    BY <2>2, <2>4, <2>5, <2>6, Zenon DEF Listed
<1>3. ASSUME NEW t \in Thread, mqueue_pull(t)
      PROVE  Listed' /\ node' \in Nodes /\ queue' \in [Port -> Ends]
  <2>1. PICK o \in Port : o = wait[t].port
    BY <1>3 DEF TypeInv, mqueue_pull
  <2>2. PICK p \in Port : p # o /\ Port = {o, p}
    BY DEF Port
  <2>3. PICK w \in Seq(Msg) : IsList(o, w)
    BY DEF Listed
  <2>4. PICK x \in Seq(Msg) : IsList(p, x)
    BY DEF Listed
  <2>5. PICK i \in 1..Len(w) : TakesAt(t, o, w, i, p, x)
    BY <1>3, <2>1, <2>2, <2>3, <2>4, PullLists, Zenon
  <2>6. /\ IsList(o, Cut(w, i))' /\ IsList(p, x)'
        /\ queue' \in [Port -> Ends] /\ node' \in Nodes
    BY <2>5, Zenon DEF TakesAt
  <2>7. Cut(w, i) \in Seq(Msg)
    BY <2>6 DEF IsList
  <2> QED
    BY <2>2, <2>6, <2>7 DEF Listed
<1> QED
  BY <1>1, <1>2, <1>3, QuietOrNot

(* What mqueue_pull does to the messages and to the waiting thread.        *)
LEMMA PullTakes ==
  ASSUME Inv, NEW t \in Thread, mqueue_pull(t)
  PROVE  \E m \in Msg, b \in BOOLEAN :
           /\ msg' = [msg EXCEPT ![m] = Unused]
           /\ wait' = [wait EXCEPT ![t] = Idle(b)]
           /\ Apart(t) => b
<1>0. TypeInv /\ Listed /\ Sent /\ Asked
  BY DEF Inv
<1>1. PICK o \in Port : o = wait[t].port
  BY <1>0 DEF TypeInv, mqueue_pull
<1>2. PICK p \in Port : p # o /\ Port = {o, p}
  BY DEF Port
<1>3. PICK w \in Seq(Msg) : IsList(o, w)
  BY <1>0 DEF Listed
<1>4. PICK x \in Seq(Msg) : IsList(p, x)
  BY <1>0 DEF Listed
<1>5. PICK i \in 1..Len(w) : TakesAt(t, o, w, i, p, x)
  BY <1>0, <1>1, <1>2, <1>3, <1>4, PullLists, Zenon
<1> DEFINE m == w[i]
           b == o = "reply" => msg[m].by = t
<1>6. Apart(t) => b
  <2> SUFFICES ASSUME Apart(t), o = "reply" PROVE msg[m].by = t
    BY Zenon
  <2>0. Hit(m, wait[t].src) /\ m \in Msg /\ msg[m].at = "queued" /\ msg[m].port = "reply"
    BY <1>5, Zenon DEF TakesAt
  <2>1. wait[t].src \in Uses[t]
    BY <1>0, <1>1, SMTT(30) DEF Asked
  <2>2. msg[m].src \in Uses[t]
    BY <2>1, <2>0, MessagesAssumption DEF Hit
  <2>3. msg[m].by \in Thread /\ msg[m].src \in Uses[msg[m].by]
    BY <1>0, <2>0 DEF Sent
  <2> QED
    BY <2>2, <2>3 DEF Apart
<1>7. b \in BOOLEAN
  BY Zenon
<1> QED
  BY <1>5, <1>6, <1>7, Zenon DEF TakesAt

(* Every step keeps the inductive invariant.                               *)
LEMMA StepInv ==
  ASSUME Inv, [Ending]_vars
  PROVE  Inv'
<1> USE DEF Inv
<1> DEFINE Record == [at : Places, port : Port, src : Source \cup {None}, by : Thread \cup {None}]
           Wait == [port : Port \cup {"none"}, src : Source \cup {Every, None}, mine : BOOLEAN]
           Rest == /\ msg' \in [Msg -> Record] /\ wait' \in [Thread -> Wait]
                   /\ Sent' /\ Asked' /\ OwnReply'
<1>0. msg \in [Msg -> Record] /\ wait \in [Thread -> Wait]
  BY DEF TypeInv
<1>00. Room => Fresh \in Msg /\ msg[Fresh].at = "unused"
  BY DEF Room, Fresh
<1>1. ASSUME NEW t \in Thread, NEW rp \in RP, rcall(t, rp) PROVE Rest
  <2>1. PICK m \in Msg :
          /\ msg' = [msg EXCEPT ![m] = [at |-> "request", port |-> "reply", src |-> rp, by |-> t]]
          /\ wait' = [wait EXCEPT ![t] = [port |-> "reply", src |-> rp, mine |-> TRUE]]
          /\ rp \in Uses[t]
    BY <1>1, <1>00, Zenon DEF rcall
  <2>2. msg' \in [Msg -> Record] /\ wait' \in [Thread -> Wait]
    BY <1>0, <2>1, SMTT(30) DEF Places, Port, Source
  <2>3. Sent'
    BY <1>0, <2>1, SMTT(30) DEF Sent
  <2>4. Asked'
    BY <1>0, <2>1 DEF Asked
  <2>5. OwnReply'
    BY <1>0, <2>1 DEF OwnReply, Apart
  <2> QED
    BY <2>2, <2>3, <2>4, <2>5
<1>2. ASSUME NEW t \in Thread, NEW src \in Child \cup {Every}, mwait_child(t, src) PROVE Rest
  <2>1. /\ msg' = msg
        /\ wait' = [wait EXCEPT ![t] = [port |-> "child", src |-> src, mine |-> TRUE]]
    BY <1>2 DEF mwait_child
  <2>2. msg' \in [Msg -> Record] /\ wait' \in [Thread -> Wait]
    BY <1>0, <2>1 DEF Port, Source
  <2>3. Sent' /\ Asked' /\ OwnReply'
    BY <1>0, <2>1 DEF Sent, Asked, OwnReply, Apart
  <2> QED
    BY <2>2, <2>3
<1>3. ASSUME NEW c \in Child, child_sends(c) PROVE Rest
  <2>1. PICK m \in Msg :
          /\ msg' = [msg EXCEPT ![m] = [at |-> "arrived", port |-> "child", src |-> c, by |-> None]]
          /\ wait' = wait
    BY <1>3, <1>00, Zenon DEF child_sends
  <2>2. msg' \in [Msg -> Record] /\ wait' \in [Thread -> Wait]
    BY <1>0, <2>1, SMTT(30) DEF Places, Port, Source
  <2>3. Sent' /\ Asked' /\ OwnReply'
    BY <1>0, <2>1 DEF Sent, Asked, OwnReply, Apart
  <2> QED
    BY <2>2, <2>3
<1>4. ASSUME NEW t \in Thread, mqueue_pull(t) PROVE Rest
  <2>1. PICK m \in Msg, b \in BOOLEAN :
          /\ msg' = [msg EXCEPT ![m] = Unused]
          /\ wait' = [wait EXCEPT ![t] = Idle(b)]
          /\ Apart(t) => b
    BY <1>4, PullTakes
  <2>2. msg' \in [Msg -> Record] /\ wait' \in [Thread -> Wait]
    BY <1>0, <2>1, SMTT(30) DEF Places, Port, Unused, Idle
  <2>3. Sent' /\ Asked'
    BY <1>0, <2>1, SMTT(30) DEF Sent, Asked, Unused, Idle
  <2>4. OwnReply'
    BY <1>0, <2>1 DEF OwnReply, Apart, Idle
  <2> QED
    BY <2>2, <2>3, <2>4
<1>5. ASSUME NEW m \in Msg, NEW a \in Places \ {"unused"}, msg[m].at # "unused",
             msg' = [msg EXCEPT ![m].at = a], wait' = wait
      PROVE  Rest
  <2>1. msg' \in [Msg -> Record] /\ wait' \in [Thread -> Wait]
    BY <1>0, <1>5
  <2>2. Sent' /\ Asked' /\ OwnReply'
    BY <1>0, <1>5 DEF Sent, Asked, OwnReply, Apart
  <2> QED
    BY <2>1, <2>2
<1>6. ASSUME NEW m \in Msg, __rcall_handler(m) \/ EventStep(m) PROVE Rest
  <2>1. msg[m].at # "unused" /\ wait' = wait
    BY <1>6 DEF __rcall_handler, EventStep, on_event, mqueue_lock, mqueue_push
  <2>2. PICK a \in {"arrived", "held", "lost", "locked", "queued"} : msg' = [msg EXCEPT ![m].at = a]
    BY <1>6 DEF __rcall_handler, EventStep, on_event, mqueue_lock, mqueue_push
  <2>3. a \in Places \ {"unused"}
    BY DEF Places
  <2> HIDE DEF Rest
  <2> QED
    BY <2>1, <2>2, <2>3, <1>5, Zenon
<1>7. ASSUME server_ends PROVE Rest
  <2>1. /\ msg' = [m \in Msg |-> IF msg[m].at = "request" THEN [msg[m] EXCEPT !.at = "lost"]
                                ELSE msg[m]]
        /\ wait' = wait
    BY <1>7 DEF server_ends
  <2>2. msg' \in [Msg -> Record] /\ wait' \in [Thread -> Wait]
    BY <1>0, <2>1 DEF Places
  <2>3. Sent' /\ Asked' /\ OwnReply'
    BY <1>0, <2>1 DEF Sent, Asked, OwnReply, Apart
  <2> QED
    BY <2>2, <2>3
<1>8. ASSUME UNCHANGED vars PROVE Rest
  BY <1>0, <1>8 DEF vars, Sent, Asked, OwnReply, Apart
<1>9. Rest
  BY <1>1, <1>2, <1>3, <1>4, <1>6, <1>7, <1>8 DEF Ending, Next
<1>10. Listed' /\ node' \in Nodes /\ queue' \in [Port -> Ends]
  BY StepLists
<1> QED
  BY <1>9, <1>10 DEF TypeInv

-----------------------------------------------------------------------------
(* The theorems.  They hold whether or not memory runs out (Beyond) and    *)
(* whether or not the server may exit.                                     *)

(* The inductive invariant holds in every reachable state.                 *)
LEMMA InvAlways == Init /\ [][Ending]_vars => []Inv
<1>1. Init => Inv
  BY InitInv
<1>2. Inv /\ [Ending]_vars => Inv'
  BY StepInv
<1> QED
  BY <1>1, <1>2, PTL

(* The specification's behaviours take only the steps the induction        *)
(* covers.                                                                 *)
LEMMA SpecEnding == Spec => Init /\ [][Ending]_vars
<1>1. [Next]_vars => [Ending]_vars
  BY DEF Ending
<1> QED
  BY <1>1, PTL DEF Spec

(* A thread that shares no resource with another never takes the reply to  *)
(* somebody else's request (mwait in rcall.c matches the source only).     *)
THEOREM RepliesOwn == Spec => []OwnReply
<1>1. Inv => OwnReply
  BY DEF Inv
<1> QED
  BY <1>1, InvAlways, SpecEnding, PTL

(* The same when the server may exit.                                      *)
THEOREM RepliesOwnEnding == EndingSpec => []OwnReply
<1>1. Inv => OwnReply
  BY DEF Inv
<1> QED
  BY <1>1, InvAlways, PTL DEF EndingSpec, Ending

(* The list of a port is properly linked in both directions and holds      *)
(* exactly the messages between their push and their pull.                 *)
THEOREM ListsHold == Spec => []ListExact
<1>1. Inv => ListExact
  BY ListedIsExact DEF Inv
<1> QED
  BY <1>1, InvAlways, SpecEnding, PTL

-----------------------------------------------------------------------------
(* The lists implement the mailbox.                                        *)

(* What removing entry i does to any sequence: the mailbox's view of       *)
(* mqueue_pull.                                                            *)
LEMMA Removed ==
  ASSUME NEW S, NEW s \in Seq(S), NEW i \in 1..Len(s)
  PROVE  /\ M!Without(s, i) \in Seq(S) /\ Len(M!Without(s, i)) = Len(s) - 1
         /\ \A j \in 1..Len(s) - 1 : M!Without(s, i)[j] = IF j < i THEN s[j] ELSE s[j + 1]
<1> DEFINE a == SubSeq(s, 1, i - 1)
           b == SubSeq(s, i + 1, Len(s))
           c == a \o b
<1>1. Len(s) \in Nat /\ i \in Nat /\ 1 <= i /\ i <= Len(s)
  OBVIOUS
<1>2. a \in Seq(S) /\ Len(a) = i - 1 /\ \A j \in 1..i - 1 : a[j] = s[j]
  BY <1>1
<1>3. b \in Seq(S) /\ Len(b) = Len(s) - i /\ \A j \in 1..Len(s) - i : b[j] = s[i + j]
  BY <1>1
<1> HIDE DEF a, b
<1>4. /\ c \in Seq(S) /\ Len(c) = Len(a) + Len(b)
      /\ \A j \in 1..Len(a) + Len(b) : c[j] = IF j <= Len(a) THEN a[j] ELSE b[j - Len(a)]
  BY <1>2, <1>3, Joined, Zenon
<1>5. M!Without(s, i) = c
  BY DEF M!Without, a, b, c
<1> HIDE DEF c
<1>6. ASSUME NEW j \in 1..Len(s) - 1
      PROVE  c[j] = IF j < i THEN s[j] ELSE s[j + 1]
  <2>1. j \in 1..Len(a) + Len(b)
    BY <1>1, <1>2, <1>3
  <2>2. CASE j < i
    <3>1. j <= Len(a) /\ j \in 1..i - 1
      BY <2>2, <1>1, <1>2
    <3> QED
      BY <2>1, <2>2, <3>1, <1>2, <1>4
  <2>3. CASE ~(j < i)
    <3>1. /\ ~(j <= Len(a)) /\ j - Len(a) \in 1..Len(s) - i
          /\ i + (j - Len(a)) = j + 1
      BY <2>3, <1>1, <1>2
    <3>2. c[j] = b[j - Len(a)]
      BY <2>1, <3>1, <1>4
    <3>3. PICK k \in 1..Len(s) - i : k = j - Len(a)
      BY <3>1, Zenon
    <3>4. b[k] = s[i + k]
      BY <1>3
    <3> QED
      BY <2>3, <3>1, <3>2, <3>3, <3>4
  <2> QED
    BY <2>2, <2>3
<1>7. Len(c) = Len(s) - 1
  BY <1>1, <1>2, <1>3, <1>4
<1> QED
  BY <1>4, <1>5, <1>6, <1>7, SMTT(30)

(* The letters of the messages w.                                          *)
Letters(w) == [i \in 1..Len(w) |-> [id |-> w[i], src |-> msg[w[i]].src]]

Boxed ==
  /\ Box = [p \in Port |-> Box[p]]
  /\ \A p \in Port, w \in Seq(Msg) : IsList(p, w) => Box[p] = Letters(w)

(* The mailbox of a port holds the letters of the messages in its list.    *)
LEMMA BoxedIs == TypeInv => Boxed
<1> SUFFICES ASSUME TypeInv PROVE Boxed
  OBVIOUS
<1>1. Box = [p \in Port |-> Letters(Walk(p))]
  BY DEF Box, Letters
<1>2. \A p \in Port, w \in Seq(Msg) : IsList(p, w) => Walk(p) = w
  BY WalkedIs DEF Walked
<1> QED
  BY <1>1, <1>2 DEF Boxed

(* The letters of a list of messages are as many as the messages.          *)
LEMMA LettersAre ==
  ASSUME TypeInv, Sent, NEW p \in Port, NEW w, IsList(p, w)
  PROVE  Letters(w) \in Seq(Letter) /\ Len(Letters(w)) = Len(w)
<1>1. w \in Seq(Msg) /\ Len(w) \in Nat
  BY DEF IsList
<1>2. ASSUME NEW i \in 1..Len(w) PROVE [id |-> w[i], src |-> msg[w[i]].src] \in Letter
  <2>1. w[i] \in Msg /\ msg[w[i]].at = "queued"
    BY <1>1 DEF IsList, Elements, InPort
  <2>2. msg[w[i]].src \in RP \cup Child
    BY <2>1 DEF Sent, RP
  <2> QED
    BY <2>1, <2>2 DEF Letter
<1>3. Letters(w) \in [1..Len(w) -> Letter]
  BY <1>2 DEF Letters
<1> QED
  BY <1>1, <1>3

(* The letters after a push and after a pull.                              *)
LEMMA LettersPushed ==
  ASSUME Inv, NEW m \in Msg, Pushes(m), NEW p \in Port, NEW w, IsList(p, w),
         NEW u \in Seq(Msg), u = Append(w, m)
  PROVE  Letters(u)' = Append(Letters(w), [id |-> m, src |-> msg[m].src])
<1> USE DEF Inv
<1> DEFINE l == [id |-> m, src |-> msg[m].src]
           v == Letters(w)
           c == Append(v, l)
<1>1. w \in Seq(Msg) /\ Len(w) \in Nat
  BY DEF IsList
<1>2. Len(u) = Len(w) + 1 /\ (\A i \in 1..Len(w) : u[i] = w[i]) /\ u[Len(w) + 1] = m
  BY <1>1, Appended
<1>3. \A k \in Msg : msg'[k].src = msg[k].src
  <2>1. \E a \in {"queued", "lost"} : msg' = [msg EXCEPT ![m].at = a]
    BY DEF Pushes, mqueue_push
  <2> QED
    BY <2>1 DEF TypeInv
<1>4. v \in Seq(Letter) /\ Len(v) = Len(w)
  BY LettersAre
<1>5. l \in Letter
  <2>1. msg[m].at = "locked"
    BY DEF Pushes, mqueue_push
  <2> QED
    BY <2>1 DEF Sent, Letter, RP
<1>6. \A i \in 1..Len(w) : v[i] = [id |-> w[i], src |-> msg[w[i]].src]
  BY DEF Letters
<1> HIDE DEF v, l
<1>7. /\ c \in Seq(Letter) /\ Len(c) = Len(w) + 1
      /\ (\A i \in 1..Len(w) : c[i] = v[i]) /\ c[Len(w) + 1] = l
  BY <1>1, <1>4, <1>5
<1> HIDE DEF c
<1>8. Letters(u)' = [i \in 1..Len(w) + 1 |-> [id |-> u[i], src |-> msg'[u[i]].src]]
  BY <1>2 DEF Letters
<1>9. c = [i \in 1..Len(w) + 1 |-> c[i]]
  BY <1>1, <1>7
<1>10. ASSUME NEW i \in 1..Len(w) + 1
       PROVE  c[i] = [id |-> u[i], src |-> msg'[u[i]].src]
  <2>1. u[i] \in Msg
    BY <1>2
  <2>2. CASE i = Len(w) + 1
    BY <2>1, <2>2, <1>2, <1>3, <1>7 DEF l
  <2>3. CASE i # Len(w) + 1
    <3>1. i \in 1..Len(w)
      BY <2>3, <1>1
    <3>4. c[i] = v[i]
      BY <3>1, <1>7
    <3>2. c[i] = [id |-> w[i], src |-> msg[w[i]].src]
      BY <3>1, <3>4, <1>6
    <3>3. u[i] = w[i] /\ msg'[u[i]].src = msg[w[i]].src
      BY <3>1, <2>1, <1>2, <1>3
    <3> QED
      BY <3>2, <3>3
  <2> QED
    BY <2>2, <2>3
<1>11. Letters(u)' = c
  BY <1>8, <1>9, <1>10
<1> QED
  BY <1>11 DEF v, l, c

(* Pulling a message removes its letter from the mailbox, at the same      *)
(* place.                                                                  *)
LEMMA LettersPulled ==
  ASSUME Inv, NEW p \in Port, NEW w, IsList(p, w),
         NEW i \in 1..Len(w), msg' = [msg EXCEPT ![w[i]] = Unused]
  PROVE  Letters(Cut(w, i))' = M!Without(Letters(w), i)
<1> USE DEF Inv
<1> DEFINE u == Cut(w, i)
           v == Letters(w)
           z == M!Without(v, i)
<1>1. /\ w \in Seq(Msg) /\ Len(w) \in Nat
      /\ \A j, k \in 1..Len(w) : w[j] = w[k] => j = k
  BY DEF IsList, Spells
<1>2. /\ u \in Seq(Msg) /\ Len(u) = Len(w) - 1
      /\ \A j \in 1..Len(w) - 1 : u[j] = IF j < i THEN w[j] ELSE w[j + 1]
      /\ Elements(u) = Elements(w) \ {w[i]}
  BY <1>1, CutShape
<1>3. \A k \in Msg \ {w[i]} : msg'[k] = msg[k]
  BY DEF TypeInv
<1>4. v \in Seq(Letter) /\ Len(v) = Len(w)
  BY LettersAre
<1>5. \A j \in 1..Len(w) : v[j] = [id |-> w[j], src |-> msg[w[j]].src]
  BY DEF Letters
<1> HIDE DEF v, u
<1>6. /\ z \in Seq(Letter) /\ Len(z) = Len(w) - 1
      /\ \A j \in 1..Len(w) - 1 : z[j] = IF j < i THEN v[j] ELSE v[j + 1]
  BY <1>4, Removed
<1> HIDE DEF z
<1>7. Letters(u)' = [j \in 1..Len(w) - 1 |-> [id |-> u[j], src |-> msg'[u[j]].src]]
  BY <1>2 DEF Letters
<1>8. z = [j \in 1..Len(w) - 1 |-> z[j]]
  BY <1>6
<1>9. ASSUME NEW j \in 1..Len(w) - 1
      PROVE  z[j] = [id |-> u[j], src |-> msg'[u[j]].src]
  <2>1. u[j] \in Msg /\ u[j] # w[i]
    <3>1. j \in 1..Len(u)
      BY <1>2
    <3>2. u[j] \in Elements(u)
      BY <3>1 DEF Elements
    <3> QED
      BY <3>1, <3>2, <1>2
  <2>2. msg'[u[j]] = msg[u[j]]
    BY <2>1, <1>3
  <2>3. j \in 1..Len(w) /\ j + 1 \in 1..Len(w)
    BY <1>1
  <2>4. z[j] = [id |-> u[j], src |-> msg[u[j]].src]
    BY <2>3, <1>2, <1>5, <1>6
  <2> QED
    BY <2>2, <2>4
<1>10. Letters(u)' = z
  BY <1>7, <1>8, <1>9
<1> QED
  BY <1>10 DEF z, u, v

(* Every step of the queues is a step of the mailboxes or leaves them as   *)
(* they are.                                                               *)
LEMMA StepMailbox ==
  ASSUME Inv, Inv', Boxed, Boxed', [Ending]_vars
  PROVE  [M!Next]_Box
<1>00. TypeInv /\ Sent /\ Asked /\ Listed
  BY DEF Inv
<1> USE <1>00
<1>0. Box = [p \in Port |-> Box[p]] /\ Box' = [p \in Port |-> Box'[p]]
  BY DEF Boxed
<1>1. CASE Quiet
  <2>1. ASSUME NEW p \in Port PROVE Box'[p] = Box[p]
    <3>1. PICK w \in Seq(Msg) : IsList(p, w)
      BY DEF Listed
    <3>2. IsList(p, w)'
      BY <1>1, <3>1, QuietKeeps
    <3>3. Box[p] = Letters(w) /\ Box'[p] = Letters(w)'
      BY <3>1, <3>2, SMTT(30) DEF Boxed
    <3>4. ASSUME NEW i \in 1..Len(w) PROVE msg'[w[i]] = msg[w[i]]
      BY <1>1, <3>1, SMTT(30) DEF IsList, Elements, InPort, Quiet
    <3>5. Letters(w)' = Letters(w)
      BY <3>4 DEF Letters
    <3> QED
      BY <3>3, <3>5
  <2> QED
    BY <2>1, <1>0
<1>2. ASSUME NEW m \in Msg, Pushes(m) PROVE M!Next
  <2>1. PICK o \in Port : o = msg[m].port
    BY DEF TypeInv
  <2>2. PICK p \in Port : p # o /\ Port = {o, p}
    BY DEF Port
  <2>3. PICK w \in Seq(Msg) : IsList(o, w)
    BY DEF Listed
  <2>4. PICK x \in Seq(Msg) : IsList(p, x)
    BY DEF Listed
  <2>5. IsList(o, Append(w, m))' /\ IsList(p, x)'
    BY <1>2, <2>1, <2>2, <2>3, <2>4, PushLists, Zenon
  <2> DEFINE l == [id |-> m, src |-> msg[m].src]
  <2>6. PICK u \in Seq(Msg) : u = Append(w, m)
    <3>1. Append(w, m) \in Seq(Msg)
      OBVIOUS
    <3> QED
      BY <3>1, Zenon
  <2>60. IsList(o, u)'
    BY <2>5, <2>6, Zenon
  <2>7. Box[o] = Letters(w) /\ Box'[o] = Letters(u)'
    BY <2>3, <2>60 DEF Boxed
  <2>8. Box[p] = Letters(x) /\ Box'[p] = Letters(x)'
    BY <2>4, <2>5 DEF Boxed
  <2>9. Letters(u)' = Append(Letters(w), l)
    BY <1>2, <2>3, <2>6, LettersPushed, Zenon
  <2>10. Letters(w) \in Seq(Letter)
    BY <2>3, LettersAre
  <2>11. msg[m].at = "locked" /\ msg[m].at # "queued"
    BY <1>2 DEF Pushes, mqueue_push
  <2>12. l \in Letter
    BY <2>11 DEF Sent, Letter, RP
  <2>13. Letters(x)' = Letters(x)
    <3>1. \E a \in {"queued", "lost"} : msg' = [msg EXCEPT ![m].at = a]
      BY <1>2 DEF Pushes, mqueue_push
    <3>2. \A k \in Msg : msg'[k].src = msg[k].src
      BY <3>1 DEF TypeInv
    <3>3. \A i \in 1..Len(x) : msg'[x[i]].src = msg[x[i]].src
      BY <3>2
    <3> QED
      BY <3>3 DEF Letters
  <2> HIDE DEF l
  <2>14. Box'[o] = Append(Box[o], l) /\ Box'[p] = Box[p]
    BY <2>7, <2>8, <2>9, <2>13
  <2>15. Box' = [Box EXCEPT ![o] = Append(Box[o], l)]
    BY <2>2, <2>14, <1>0
  <2>16. Box'[o] # Box[o]
    <3>1. Len(Append(Letters(w), l)) # Len(Letters(w))
      BY <2>10, <2>12
    <3> QED
      BY <3>1, <2>7, <2>9
  <2>17. M!Put(o, l)
    BY <2>15 DEF M!Put
  <2> QED
    BY <2>12, <2>16, <2>17, Zenon DEF M!Next
<1>3. ASSUME NEW t \in Thread, mqueue_pull(t) PROVE M!Next
  <2>1. PICK o \in Port : o = wait[t].port
    BY <1>3 DEF TypeInv, mqueue_pull
  <2>2. PICK p \in Port : p # o /\ Port = {o, p}
    BY DEF Port
  <2>3. PICK w \in Seq(Msg) : IsList(o, w)
    BY DEF Listed
  <2>4. PICK x \in Seq(Msg) : IsList(p, x)
    BY DEF Listed
  <2>5. PICK i \in 1..Len(w) : TakesAt(t, o, w, i, p, x)
    BY <1>3, <2>1, <2>2, <2>3, <2>4, PullLists, Zenon
  <2>6. /\ Hit(w[i], wait[t].src) /\ \A j \in 1..i - 1 : ~Hit(w[j], wait[t].src)
        /\ IsList(o, Cut(w, i))' /\ IsList(p, x)'
        /\ w[i] \in Msg /\ msg[w[i]].at = "queued" /\ msg[w[i]].port = o
        /\ msg' = [msg EXCEPT ![w[i]] = Unused]
    BY <2>5, Zenon DEF TakesAt
  <2> DEFINE v == Letters(w)
             src == wait[t].src
  <2>7. Cut(w, i) \in Seq(Msg)
    BY <2>6 DEF IsList
  <2>8. Box[o] = v /\ Box'[o] = Letters(Cut(w, i))'
    BY <2>3, <2>6, <2>7 DEF Boxed
  <2>9. Box[p] = Letters(x) /\ Box'[p] = Letters(x)'
    BY <2>4, <2>6 DEF Boxed
  <2>10. Letters(Cut(w, i))' = M!Without(v, i)
    BY <2>3, <2>6, LettersPulled, Zenon
  <2>11. v \in Seq(Letter) /\ Len(v) = Len(w)
    BY <2>3, LettersAre
  <2>12. Letters(x)' = Letters(x)
    <3>1. \A j \in 1..Len(x) : x[j] \in Msg /\ x[j] # w[i]
      BY <2>2, <2>4, <2>6, SMTT(30) DEF IsList, Elements, InPort
    <3>2. \A j \in 1..Len(x) : msg'[x[j]] = msg[x[j]]
      BY <3>1, <2>6 DEF TypeInv
    <3> QED
      BY <3>2, SMTT(30) DEF Letters
  <2>13. \A j \in 1..Len(w) : M!Matches(v[j], src) <=> Hit(w[j], src)
    BY DEF Letters, M!Matches, Hit
  <2>14. src \in {letter.src : letter \in Letter} \cup {Every}
    <3>1. src \in RP \cup Child \cup {Every}
      BY <2>1 DEF Asked, Port, RP
    <3>2. \A s \in RP \cup Child : [id |-> w[i], src |-> s] \in Letter
      BY <2>6 DEF Letter
    <3>3. ASSUME NEW s \in RP \cup Child PROVE s \in {letter.src : letter \in Letter}
      <4>1. [id |-> w[i], src |-> s].src = s /\ [id |-> w[i], src |-> s] \in Letter
        BY <3>2
      <4> QED
        BY <4>1, Zenon
    <3> QED
      BY <3>1, <3>3
  <2> HIDE DEF v
  <2>15. Box'[o] = M!Without(Box[o], i) /\ Box'[p] = Box[p]
    BY <2>8, <2>9, <2>10, <2>12
  <2>16. Box' = [Box EXCEPT ![o] = M!Without(Box[o], i)]
    BY <2>2, <2>15, <1>0
  <2>17. Box'[o] # Box[o]
    <3>1. Len(M!Without(v, i)) # Len(v)
      BY <2>11, Removed
    <3> QED
      BY <3>1, <2>8, <2>10
  <2>18. i \in DOMAIN Box[o]
    BY <2>8, <2>11, SMTT(30)
  <2>19. /\ M!Matches(Box[o][i], src)
         /\ \A j \in 1..i - 1 : ~M!Matches(Box[o][j], src)
    <3>1. \A j \in 1..i - 1 : j \in 1..Len(w)
      OBVIOUS
    <3> QED
      BY <3>1, <2>6, <2>8, <2>13
  <2> HIDE DEF src
  <2>20. M!Take(o, src)
    BY <2>16, <2>18, <2>19, Zenon DEF M!Take
  <2> QED
    BY <2>14, <2>17, <2>20, Zenon DEF M!Next
<1> QED
  BY <1>1, <1>2, <1>3, QuietOrNot

(* The empty queues are empty mailboxes.                                   *)
LEMMA InitMailbox ==
  ASSUME Init, Boxed, Inv
  PROVE  M!Init
<1>1. ASSUME NEW p \in Port PROVE Box[p] = <<>>
  <2>1. PICK w \in Seq(Msg) : IsList(p, w)
    BY DEF Inv, Listed
  <2>2. InPort(p) = {}
    BY DEF Init, InPort, Unused
  <2>3. Len(w) = 0
    <3> SUFFICES ASSUME Len(w) # 0 PROVE FALSE
      OBVIOUS
    <3>1. 1 \in 1..Len(w)
      OBVIOUS
    <3>2. w[1] \in Elements(w)
      BY <3>1 DEF Elements
    <3> QED
      BY <3>2, <2>1, <2>2 DEF IsList
  <2>4. Box[p] = Letters(w)
    BY <2>1 DEF Boxed
  <2>5. Letters(w) \in [1..0 -> Letter]
    BY <2>3 DEF Letters
  <2> QED
    BY <2>4, <2>5
<1>2. Box = [p \in Port |-> Box[p]]
  BY DEF Boxed
<1> QED
  BY <1>1, <1>2 DEF M!Init

(* The doubly linked lists of mqueue.c implement the mailbox: every push   *)
(* appends one message, every pull removes the oldest of the source asked  *)
(* for, and no other step changes what a port holds.                       *)
THEOREM Refinement == Spec => IsMailbox
<1>1. Init /\ Boxed /\ Inv => M!Init
  BY InitMailbox
<1>2. Inv /\ Inv' /\ Boxed /\ Boxed' /\ [Ending]_vars => [M!Next]_Box
  BY StepMailbox
<1>3. Inv => Boxed
  BY BoxedIs DEF Inv
<1> QED
  BY <1>1, <1>2, <1>3, InvAlways, SpecEnding, PTL DEF IsMailbox, M!Spec

=============================================================================
