--------------------------- MODULE RunQueueProofs ---------------------------
(***************************************************************************)
(* Proofs about the scheduler: RunQueue keeps the queue of schedule.c      *)
(* exact, for any finite set of threads, and implements RoundRobin.        *)
(*                                                                         *)
(* The argument: Linked(q, s) says that the pointers of q spell the line   *)
(* s.  One lemma for each of the three operations of schedule.c says what  *)
(* it does to the line (InsertLinked, NextLinked, RemoveLinked), and one   *)
(* for each action says that it keeps IInv and what it is in RoundRobin.   *)
(*                                                                         *)
(* The last section is about the threads of a process in which its signal  *)
(* handlers run (Signals): the mutex of signal.c lets one of them in at a  *)
(* time, a handler is reset before the next, so each runs at most once.    *)
(***************************************************************************)
EXTENDS RunQueue, TLAPS, FiniteSetTheorems

(* The time, in seconds, that each prover has for a leaf.                  *)
USE ZenonT(4), SMTT(20), ZenonT(30)

(* A nonempty set of naturals has a least member: the form in which the    *)
(* proofs use induction.                                                   *)
LEMMA LeastNat ==
  ASSUME NEW S \in SUBSET Nat, S # {}
  PROVE  \E m \in S : \A k \in S : m <= k
<1> DEFINE Less == OpToRel(<, Nat)
<1>1. \E x \in S : \A y \in S : <<y, x>> \notin Less
  BY NatLessThanWellFounded, WFMin, Zenon
<1>2. \A x, y \in Nat : <<y, x>> \in Less <=> y < x
  BY DEF OpToRel
<1> HIDE DEF Less
<1>3. PICK x \in S : \A y \in S : <<y, x>> \notin Less
  BY <1>1, Zenon
<1>4. x \in Nat /\ \A y \in S : y \in Nat
  OBVIOUS
<1>5. \A y \in S : ~(y < x)
  BY <1>2, <1>3, <1>4, Zenon
<1>6. \A y \in S : x <= y
  BY <1>4, <1>5
<1> QED
  BY <1>6

(* A walk along the list of the queue, as schedule_remove does it, meets   *)
(* the threads of the line that the list spells, and no other.             *)
LEMMA LinkedReach ==
  ASSUME NEW q \in Queue, NEW s \in Seq(Thread), Linked(q, s)
  PROVE  Reach(q) = Elements(s)
<1>1. \A i \in 1..Len(s) : s[i] \in Thread /\ s[i] # NULL
  BY NullAssumption
<1>2. Len(s) \in Nat /\ Len(s) >= 1
  BY DEF Linked
<1>3. ASSUME NEW x \in Reach(q) PROVE x \in Elements(s)
  <2>1. Elements(s) \in SUBSET Thread
    BY <1>1 DEF Elements
  <2>2. q.out \in Elements(s)
    BY <1>2 DEF Linked, Elements
  <2>3. ASSUME NEW y \in Elements(s) PROVE q.next[y] \in Elements(s) \cup {NULL}
    <3>1. PICK i \in 1..Len(s) : y = s[i]
      BY DEF Elements
    <3>2. CASE i = Len(s)
      BY <3>1, <3>2 DEF Linked
    <3>3. CASE i # Len(s)
      <4>1. i \in 1..Len(s) - 1 /\ i + 1 \in 1..Len(s)
        BY <3>3, <1>2
      <4> QED
        BY <3>1, <4>1 DEF Linked, Elements
    <3> QED
      BY <3>2, <3>3
  <2> QED
    BY <2>1, <2>2, <2>3 DEF Reach
<1>4. ASSUME NEW i \in 1..Len(s) PROVE s[i] \in Reach(q)
  <2> SUFFICES ASSUME NEW S \in SUBSET Thread,
                      q.out \in S,
                      \A y \in S : q.next[y] \in S \cup {NULL}
               PROVE  s[i] \in S
    BY <1>1 DEF Reach
  <2> DEFINE Bad == {j \in 1..Len(s) : s[j] \notin S}
  <2> SUFFICES ASSUME Bad # {} PROVE FALSE
    OBVIOUS
  <2>1. Bad \in SUBSET Nat
    BY <1>2
  <2>2. PICK m \in Bad : \A k \in Bad : m <= k
    BY <2>1, LeastNat, Zenon
  <2>3. m \in 1..Len(s) /\ s[m] \notin S
    OBVIOUS
  <2>4. m # 1
    BY <2>3 DEF Linked
  <2>5. m - 1 \in 1..Len(s) - 1 /\ m - 1 \in 1..Len(s) /\ (m - 1) + 1 = m
    BY <2>3, <2>4, <1>2
  <2>6. s[m - 1] \in S
    BY <2>2, <2>5
  <2>7. q.next[s[m - 1]] = s[m]
    BY <2>5 DEF Linked
  <2> QED
    BY <2>3, <2>6, <2>7, <1>1
<1> QED
  BY <1>3, <1>4 DEF Elements

(* The pointers of a queue spell at most one line of threads.              *)
LEMMA LinkedUnique ==
  ASSUME NEW q \in Queue,
         NEW s \in Seq(Thread), Linked(q, s),
         NEW r \in Seq(Thread), Linked(q, r)
  PROVE  s = r
<1>1. /\ \A i \in 1..Len(s) : s[i] \in Thread /\ s[i] # NULL
      /\ \A i \in 1..Len(r) : r[i] \in Thread /\ r[i] # NULL
  BY NullAssumption
<1>2. Len(s) \in Nat /\ Len(s) >= 1 /\ Len(r) \in Nat /\ Len(r) >= 1
  BY DEF Linked
<1>3. \A i \in 1..Len(s) : i <= Len(r) => s[i] = r[i]
  <2> DEFINE Bad == {j \in 1..Len(s) : j <= Len(r) /\ s[j] # r[j]}
  <2> SUFFICES ASSUME Bad # {} PROVE FALSE
    OBVIOUS
  <2>1. Bad \in SUBSET Nat
    BY <1>2
  <2>2. PICK m \in Bad : \A k \in Bad : m <= k
    BY <2>1, LeastNat, Zenon
  <2>3. m \in 1..Len(s) /\ m <= Len(r) /\ s[m] # r[m]
    OBVIOUS
  <2>4. m # 1
    BY <2>3, Zenon DEF Linked
  <2>5. /\ m - 1 \in 1..Len(s) - 1 /\ m - 1 \in 1..Len(r) - 1
        /\ m - 1 \in 1..Len(s) /\ (m - 1) + 1 = m
    BY <2>3, <2>4, <1>2
  <2>6. s[m - 1] = r[m - 1]
    BY <2>2, <2>5, <1>2
  <2>7. q.next[s[m - 1]] = s[m] /\ q.next[r[m - 1]] = r[m]
    BY <2>5 DEF Linked
  <2> QED
    BY <2>3, <2>6, <2>7
<1>4. Len(s) = Len(r)
  <2>1. CASE Len(s) < Len(r)
    <3>1. Len(s) \in 1..Len(r) - 1 /\ Len(s) \in 1..Len(s) /\ Len(s) + 1 \in 1..Len(r)
      BY <2>1, <1>2
    <3>2. s[Len(s)] = r[Len(s)]
      BY <3>1, <2>1, <1>2, <1>3
    <3>3. q.next[r[Len(s)]] = r[Len(s) + 1]
      BY <3>1 DEF Linked
    <3> QED
      BY <3>1, <3>2, <3>3, <1>1, Zenon DEF Linked
  <2>2. CASE Len(r) < Len(s)
    <3>1. Len(r) \in 1..Len(s) - 1 /\ Len(r) \in 1..Len(s) /\ Len(r) + 1 \in 1..Len(s)
      BY <2>2, <1>2
    <3>2. s[Len(r)] = r[Len(r)]
      BY <3>1, <2>2, <1>2, <1>3
    <3>3. q.next[s[Len(r)]] = s[Len(r) + 1]
      BY <3>1 DEF Linked
    <3> QED
      BY <3>1, <3>2, <3>3, <1>1 DEF Linked
  <2> QED
    BY <2>1, <2>2, <1>2
<1> QED
  BY <1>3, <1>4, <1>2

(* Field by field, what the lines shared by schedule_insert and            *)
(* schedule_next do to a queue that is not empty.                          *)
LEMMA EnqueueBack ==
  ASSUME NEW q \in Queue, NEW t \in Thread, q.in \in Thread
  PROVE  LET r == Enqueue(q, t) IN
         /\ r \in Queue
         /\ r.cpu = q.cpu /\ r.out = q.out /\ r.in = t
         /\ r.next = [[q.next EXCEPT ![q.in] = t] EXCEPT ![t] = NULL]
<1> DEFINE r == Enqueue(q, t)
<1>1. r = [q EXCEPT !.in = t, !.next[q.in] = t, !.next[t] = NULL]
  BY NullAssumption DEF Enqueue
<1> HIDE DEF r
<1>2. r \in Queue
  BY <1>1, Zenon DEF Queue, Ptr
<1>3. r.cpu = q.cpu /\ r.out = q.out /\ r.in = t
  BY <1>1 DEF Queue
<1>4. r.next = [[q.next EXCEPT ![q.in] = t] EXCEPT ![t] = NULL]
  BY <1>1 DEF Queue
<1> QED
  BY <1>2, <1>3, <1>4 DEF r

(* The same for an empty queue.                                            *)
LEMMA EnqueueFirst ==
  ASSUME NEW q \in Queue, NEW t \in Thread, q.in = NULL
  PROVE  LET r == Enqueue(q, t) IN
         /\ r \in Queue
         /\ r.cpu = q.cpu /\ r.out = t /\ r.in = t
         /\ r.next[t] = NULL
<1> DEFINE r == Enqueue(q, t)
<1>1. r = [q EXCEPT !.out = t, !.in = t, !.next[t] = NULL]
  BY DEF Enqueue
<1> HIDE DEF r
<1>2. r \in Queue
  BY <1>1, Zenon DEF Queue, Ptr
<1>3. r.cpu = q.cpu /\ r.out = t /\ r.in = t /\ r.next[t] = NULL
  BY <1>1 DEF Queue
<1> QED
  BY <1>2, <1>3 DEF r

(* schedule_insert appends to the line a thread that is not on it, and     *)
(* does not panic.                                                         *)
LEMMA InsertLinked ==
  ASSUME NEW q \in Queue, NEW s \in Seq(Thread), Linked(q, s),
         NEW t \in Thread, t \notin Elements(s)
  PROVE  LET r == schedule_insert(q, t) IN
         /\ r \in Queue /\ r.cpu = q.cpu
         /\ Linked(r, Append(s, t))
         /\ Elements(Append(s, t)) = Elements(s) \cup {t}
<1> DEFINE r == schedule_insert(q, t)
           u == Append(s, t)
<1>1. /\ \A i \in 1..Len(s) : s[i] \in Thread /\ s[i] # NULL /\ s[i] # t
      /\ t # NULL
  BY NullAssumption DEF Elements
<1>2. Len(s) \in Nat /\ Len(s) >= 1
  BY DEF Linked
<1>3. /\ Len(u) = Len(s) + 1
      /\ u[Len(s) + 1] = t
      /\ \A i \in 1..Len(s) : u[i] = s[i]
      /\ u # <<>>
  BY <1>2
<1>4. q.in = s[Len(s)] /\ q.in \in Thread /\ q.in # NULL /\ q.out # NULL
  BY <1>1, <1>2 DEF Linked
<1>5. r = Enqueue(q, t)
  BY <1>4 DEF schedule_insert
<1> HIDE DEF r
<1>6. /\ r \in Queue /\ r.cpu = q.cpu /\ r.out = q.out /\ r.in = t
      /\ r.next = [[q.next EXCEPT ![q.in] = t] EXCEPT ![t] = NULL]
  BY <1>4, <1>5, EnqueueBack
<1>7. q.next \in [Thread -> Ptr]
  BY DEF Queue
<1>8. r.next[t] = NULL /\ r.next[s[Len(s)]] = t
  BY <1>1, <1>2, <1>4, <1>6, <1>7
<1>9. ASSUME NEW i \in 1..Len(s) - 1 PROVE r.next[s[i]] = s[i + 1]
  <2>1. i \in 1..Len(s) /\ Len(s) \in 1..Len(s) /\ i # Len(s)
    BY <1>2
  <2>2. s[i] # q.in /\ s[i] # t
    BY <2>1, <1>1, <1>4 DEF Linked
  <2>3. r.next[s[i]] = q.next[s[i]]
    BY <2>1, <2>2, <1>1, <1>6, <1>7
  <2> QED
    BY <2>3 DEF Linked
<1>10. \A i \in 1..Len(u) - 1 : r.next[u[i]] = u[i + 1]
  <2> SUFFICES ASSUME NEW i \in 1..Len(s) PROVE r.next[s[i]] = u[i + 1]
    BY <1>2, <1>3
  <2>1. CASE i = Len(s)
    BY <2>1, <1>3, <1>8
  <2>2. CASE i # Len(s)
    <3>1. i \in 1..Len(s) - 1 /\ i + 1 \in 1..Len(s)
      BY <2>2, <1>2
    <3> QED
      BY <3>1, <1>3, <1>9
  <2> QED
    BY <2>1, <2>2
<1>11. \A i, j \in 1..Len(u) : u[i] = u[j] => i = j
  <2> TAKE i, j \in 1..Len(u)
  <2> HAVE u[i] = u[j]
  <2>1. CASE i \in 1..Len(s) /\ j \in 1..Len(s)
    BY <2>1, <1>3 DEF Linked
  <2>2. CASE i = Len(s) + 1 \/ j = Len(s) + 1
    BY <2>2, <1>1, <1>2, <1>3
  <2> QED
    BY <2>1, <2>2, <1>2, <1>3
<1>12. u[1] = s[1]
  BY <1>2, <1>3
<1>13. Linked(r, u)
  BY <1>3, <1>6, <1>8, <1>10, <1>11, <1>12, Zenon DEF Linked
<1>14. Elements(u) = Elements(s) \cup {t}
  <2>1. ASSUME NEW x \in Elements(u) PROVE x \in Elements(s) \cup {t}
    BY <1>2, <1>3 DEF Elements
  <2>2. ASSUME NEW i \in 1..Len(s) PROVE s[i] \in Elements(u)
    <3>1. i \in 1..Len(u) /\ u[i] = s[i]
      BY <1>2, <1>3
    <3> QED
      BY <3>1 DEF Elements
  <2>3. t \in Elements(u)
    BY <1>2, <1>3 DEF Elements
  <2> QED
    BY <2>1, <2>2, <2>3 DEF Elements
<1> QED
  BY <1>6, <1>13, <1>14 DEF r

(* With a thread in front that is not frozen, schedule_next returns that   *)
(* thread and rotates the line.                                            *)
LEMMA NextLinked ==
  ASSUME NEW q \in Queue, NEW s \in Seq(Thread), Linked(q, s),
         NEW f \in [Thread -> Nat], f[s[1]] = 0
  PROVE  LET n == schedule_next(q, f)
             u == Abstract!Rotate(s) IN
         /\ n.thread = s[1]
         /\ n.queue \in Queue /\ n.queue.cpu = q.cpu
         /\ u \in Seq(Thread) /\ Linked(n.queue, u)
         /\ Elements(u) = Elements(s)
<1> DEFINE n == schedule_next(q, f)
           u == Abstract!Rotate(s)
           r == n.queue
<1>1. \A i \in 1..Len(s) : s[i] \in Thread /\ s[i] # NULL
  BY NullAssumption
<1>2. Len(s) \in Nat /\ Len(s) >= 1
  BY DEF Linked
<1>3. /\ u \in Seq(Thread)
      /\ Len(u) = Len(s)
      /\ u[Len(s)] = s[1]
      /\ \A i \in 1..Len(s) - 1 : u[i] = s[i + 1]
      /\ u # <<>>
  BY <1>1, <1>2 DEF Abstract!Rotate, Linked
<1>4. /\ q.out = s[1] /\ s[1] \in Thread /\ q.out # NULL
      /\ q.next \in [Thread -> Ptr]
  BY <1>1, <1>2 DEF Linked, Queue
<1> DEFINE cut == [q EXCEPT !.out = q.next[s[1]],
                            !.in  = IF q.next[s[1]] = NULL THEN NULL ELSE @]
<1>5. n = [queue |-> Enqueue(cut, s[1]), thread |-> s[1]]
  BY <1>4 DEF schedule_next
<1>6. n.thread = s[1] /\ r = Enqueue(cut, s[1])
  BY <1>5
<1>7. \A i, j \in 1..Len(u) : u[i] = u[j] => i = j
  <2> TAKE i, j \in 1..Len(u)
  <2> HAVE u[i] = u[j]
  <2>0. 1 \in 1..Len(s)
    BY <1>2
  <2>1. CASE i # Len(s) /\ j # Len(s)
    <3>1. /\ i \in 1..Len(s) - 1 /\ j \in 1..Len(s) - 1
          /\ i + 1 \in 1..Len(s) /\ j + 1 \in 1..Len(s)
      BY <2>1, <1>2, <1>3
    <3>2. s[i + 1] = s[j + 1]
      BY <3>1, <1>3
    <3>3. i + 1 = j + 1
      BY <3>1, <3>2 DEF Linked
    <3> QED
      BY <3>3, <3>1
  <2>2. CASE i = Len(s) /\ j # Len(s)
    <3>1. j \in 1..Len(s) - 1 /\ j + 1 \in 1..Len(s) /\ j + 1 # 1
      BY <2>2, <1>2, <1>3
    <3> QED
      BY <2>0, <2>2, <3>1, <1>3 DEF Linked
  <2>3. CASE i # Len(s) /\ j = Len(s)
    <3>1. i \in 1..Len(s) - 1 /\ i + 1 \in 1..Len(s) /\ i + 1 # 1
      BY <2>3, <1>2, <1>3
    <3> QED
      BY <2>0, <2>3, <3>1, <1>3 DEF Linked
  <2> QED
    BY <2>1, <2>2, <2>3
<1>8. Elements(u) = Elements(s)
  <2>1. ASSUME NEW i \in 1..Len(s) PROVE u[i] \in Elements(s)
    <3>1. CASE i = Len(s)
      BY <3>1, <1>2, <1>3 DEF Elements
    <3>2. CASE i # Len(s)
      <4>1. i \in 1..Len(s) - 1 /\ i + 1 \in 1..Len(s)
        BY <3>2, <1>2
      <4> QED
        BY <4>1, <1>3 DEF Elements
    <3> QED
      BY <3>1, <3>2
  <2>2. ASSUME NEW i \in 1..Len(s) PROVE s[i] \in Elements(u)
    <3>1. CASE i = 1
      <4>1. Len(s) \in 1..Len(u) /\ u[Len(s)] = s[i]
        BY <3>1, <1>2, <1>3
      <4> QED
        BY <4>1 DEF Elements
    <3>2. CASE i # 1
      <4>1. i - 1 \in 1..Len(s) - 1 /\ i - 1 \in 1..Len(u) /\ (i - 1) + 1 = i
        BY <3>2, <1>2, <1>3
      <4>2. u[i - 1] = s[i]
        BY <4>1, <1>3
      <4> QED
        BY <4>1, <4>2 DEF Elements
    <3> QED
      BY <3>1, <3>2
  <2> QED
    BY <2>1, <2>2, <1>3, Zenon DEF Elements
<1>9. CASE Len(s) = 1
  <2>1. q.next[s[1]] = NULL
    BY <1>9 DEF Linked
  <2>2. cut.in = NULL /\ cut.next = q.next /\ cut \in Queue /\ cut.cpu = q.cpu
    BY <2>1, Zenon DEF Queue, Ptr
  <2> HIDE DEF cut
  <2>4. /\ r \in Queue /\ r.cpu = q.cpu
        /\ r.out = s[1] /\ r.in = s[1] /\ r.next[s[1]] = NULL
    BY <2>2, <1>4, <1>6, EnqueueFirst
  <2>5. Linked(r, u)
    BY <1>3, <1>7, <1>9, <2>4 DEF Linked
  <2> QED
    BY <1>3, <1>6, <1>8, <2>4, <2>5
<1>10. CASE Len(s) >= 2
  <2>0. /\ 1 \in 1..Len(s) /\ 2 \in 1..Len(s) /\ 1 \in 1..Len(s) - 1
        /\ Len(s) \in 1..Len(s) /\ 1 + 1 = 2
        /\ Len(s) - 1 \in 1..Len(s) - 1 /\ (Len(s) - 1) + 1 = Len(s)
    BY <1>2, <1>10
  <2>1. q.next[s[1]] = s[2] /\ s[2] # NULL /\ s[2] \in Thread
    BY <2>0, <1>1 DEF Linked
  <2>2. /\ cut.in = s[Len(s)] /\ cut.in # NULL /\ cut.in \in Thread
        /\ cut.next = q.next /\ cut \in Queue
        /\ cut.cpu = q.cpu /\ cut.out = s[2]
    BY <2>0, <2>1, <1>1, ZenonT(30) DEF Queue, Ptr, Linked
  <2> HIDE DEF cut
  <2>4. /\ r \in Queue /\ r.cpu = q.cpu /\ r.out = s[2] /\ r.in = s[1]
        /\ r.next = [[q.next EXCEPT ![s[Len(s)]] = s[1]] EXCEPT ![s[1]] = NULL]
    BY <2>2, <1>4, <1>6, EnqueueBack
  <2>5. s[Len(s)] # s[1]
    BY <2>0, <1>10 DEF Linked
  <2>6. r.next[s[1]] = NULL /\ r.next[s[Len(s)]] = s[1]
    BY <2>0, <2>4, <2>5, <1>1, <1>4
  <2>7. ASSUME NEW i \in 2..Len(s) - 1 PROVE r.next[s[i]] = s[i + 1]
    <3>1. i \in 1..Len(s) /\ i \in 1..Len(s) - 1 /\ i # 1 /\ i # Len(s)
      BY <1>2
    <3>2. s[i] # s[1] /\ s[i] # s[Len(s)]
      BY <2>0, <3>1, Zenon DEF Linked
    <3>3. r.next[s[i]] = q.next[s[i]]
      BY <2>4, <3>1, <3>2, <1>1, <1>4
    <3> QED
      BY <3>1, <3>3 DEF Linked
  <2>8. \A i \in 1..Len(u) - 1 : r.next[u[i]] = u[i + 1]
    <3> TAKE i \in 1..Len(u) - 1
    <3>1. CASE i = Len(s) - 1
      BY <3>1, <2>0, <2>6, <1>3
    <3>2. CASE i # Len(s) - 1
      <4>1. /\ i \in 1..Len(s) - 1 /\ i + 1 \in 1..Len(s) - 1
            /\ i + 1 \in 2..Len(s) - 1
        BY <3>2, <1>2, <1>3
      <4>2. u[i] = s[i + 1] /\ u[i + 1] = s[(i + 1) + 1]
        BY <4>1, <1>3
      <4> QED
        BY <4>1, <4>2, <2>7
    <3> QED
      BY <3>1, <3>2
  <2>9. u[1] = s[2]
    BY <2>0, <1>3
  <2>10. Linked(r, u)
    BY <1>3, <1>7, <2>4, <2>6, <2>8, <2>9, Zenon DEF Linked
  <2> QED
    BY <1>3, <1>6, <1>8, <2>4, <2>10
<1> HIDE DEF n, u, r, cut
<1>11. \A k \in Nat : k >= 1 => k = 1 \/ k >= 2
  OBVIOUS
<1>12. Len(s) = 1 \/ Len(s) >= 2
  BY <1>2, <1>11, Zenon
<1> QED
  BY <1>9, <1>10, <1>12

(* Field by field, what schedule_remove does to the thread in front.       *)
LEMMA RemoveHead ==
  ASSUME NEW q \in Queue, NEW t \in Thread, q.out = t
  PROVE  LET r == schedule_remove(q, t) IN
         /\ r \in Queue
         /\ r.cpu = q.cpu /\ r.out = q.next[t] /\ r.in = q.in /\ r.next = q.next
<1> DEFINE r == schedule_remove(q, t)
<1>1. r = [q EXCEPT !.out = q.next[t]]
  BY NullAssumption DEF schedule_remove
<1> HIDE DEF r
<1>2. r \in Queue /\ r.cpu = q.cpu /\ r.out = q.next[t] /\ r.in = q.in /\ r.next = q.next
  BY <1>1 DEF Queue
<1> QED
  BY <1>2 DEF r

(* The same for a thread further back, which has one predecessor on the    *)
(* list.                                                                   *)
LEMMA RemoveInner ==
  ASSUME NEW q \in Queue, NEW t \in Thread, NEW temp \in Thread,
         q.out # t, q.out # NULL,
         {x \in Reach(q) : q.next[x] = t} = {temp}
  PROVE  LET r == schedule_remove(q, t) IN
         /\ r \in Queue
         /\ r.cpu = q.cpu /\ r.out = q.out
         /\ r.in = IF q.in = t THEN temp ELSE q.in
         /\ r.next = [[q.next EXCEPT ![temp] = q.next[t]] EXCEPT ![t] = NULL]
<1> DEFINE r == schedule_remove(q, t)
           before == {x \in Reach(q) : q.next[x] = t}
<1>0. (CHOOSE x \in before : TRUE) = temp
  BY Zenon
<1>1. r = [q EXCEPT !.next[temp] = q.next[t],
                    !.next[t]    = NULL,
                    !.in         = IF @ = t THEN temp ELSE @]
  BY <1>0, Zenon DEF schedule_remove
<1> HIDE DEF r, before
<1>2. r \in Queue
  BY <1>1, Zenon DEF Queue, Ptr
<1>3. r.cpu = q.cpu /\ r.out = q.out /\ r.in = IF q.in = t THEN temp ELSE q.in
  BY <1>1 DEF Queue
<1>4. r.next = [[q.next EXCEPT ![temp] = q.next[t]] EXCEPT ![t] = NULL]
  BY <1>1 DEF Queue
<1> QED
  BY <1>2, <1>3, <1>4 DEF r

(* schedule_remove leaves the queue alone when the thread is not on it, as *)
(* for a thread that is frozen already.                                    *)
LEMMA RemoveAbsent ==
  ASSUME NEW q \in Queue, NEW s \in Seq(Thread), Linked(q, s),
         NEW t \in Thread, t \notin Elements(s)
  PROVE  schedule_remove(q, t) = q
<1>1. Len(s) \in Nat /\ Len(s) >= 1 /\ \A i \in 1..Len(s) : s[i] \in Thread /\ s[i] # t
  BY DEF Linked, Elements
<1>2. q.out # NULL /\ q.out # t
  BY <1>1, NullAssumption DEF Linked
<1>3. ASSUME NEW x \in Reach(q) PROVE q.next[x] # t
  <2>1. PICK i \in 1..Len(s) : x = s[i]
    BY LinkedReach DEF Elements
  <2>2. CASE i = Len(s)
    BY <2>1, <2>2, NullAssumption DEF Linked
  <2>3. CASE i # Len(s)
    <3>1. i \in 1..Len(s) - 1 /\ i + 1 \in 1..Len(s)
      BY <2>3, <1>1
    <3> QED
      BY <2>1, <3>1, <1>1 DEF Linked
  <2> QED
    BY <2>2, <2>3
<1>4. {x \in Reach(q) : q.next[x] = t} = {}
  BY <1>3
<1> QED
  BY <1>2, <1>4 DEF schedule_remove

(* What is left of a line without repetitions when one thread leaves it.   *)
LEMMA WithoutShape ==
  ASSUME NEW s \in Seq(Thread), NEW t \in Thread, NEW k \in 1..Len(s), s[k] = t,
         \A i, j \in 1..Len(s) : s[i] = s[j] => i = j
  PROVE  LET u == Abstract!Without(s, t) IN
         /\ u \in Seq(Thread)
         /\ Len(u) = Len(s) - 1
         /\ \A i \in 1..Len(s) - 1 : u[i] = IF i < k THEN s[i] ELSE s[i + 1]
         /\ \A i, j \in 1..Len(u) : u[i] = u[j] => i = j
         /\ Elements(u) = Elements(s) \ {t}
<1> DEFINE u == Abstract!Without(s, t)
<1>1. (CHOOSE i \in 1..Len(s) : s[i] = t) = k
  OBVIOUS
<1>2. u = [i \in 1..Len(s) - 1 |-> IF i < k THEN s[i] ELSE s[i + 1]]
  BY <1>1 DEF Abstract!Without
<1> HIDE DEF u
<1>3. /\ Len(s) \in Nat /\ Len(s) >= 1 /\ Len(s) - 1 \in Nat /\ k \in Nat
      /\ \A i \in 1..Len(s) : s[i] \in Thread
  OBVIOUS
<1>4. \A i \in 1..Len(s) - 1 : i \in 1..Len(s) /\ i + 1 \in 1..Len(s)
  BY <1>3
<1>5. u \in [1..Len(s) - 1 -> Thread]
  BY <1>2, <1>3, <1>4
<1>6. u \in Seq(Thread) /\ Len(u) = Len(s) - 1
  BY <1>3, <1>5
<1>7. \A i \in 1..Len(s) - 1 : u[i] = IF i < k THEN s[i] ELSE s[i + 1]
  BY <1>2
<1>8. \A i, j \in 1..Len(u) : u[i] = u[j] => i = j
  <2> TAKE i, j \in 1..Len(u)
  <2> HAVE u[i] = u[j]
  <2>1. i \in 1..Len(s) - 1 /\ j \in 1..Len(s) - 1
    BY <1>6
  <2>2. CASE i < k /\ j < k
    BY <2>1, <2>2, <1>4, <1>7
  <2>3. CASE i < k /\ ~(j < k)
    <3>1. i # j + 1
      BY <2>1, <2>3, <1>3
    <3> QED
      BY <2>1, <2>3, <3>1, <1>4, <1>7
  <2>4. CASE ~(i < k) /\ j < k
    <3>1. j # i + 1
      BY <2>1, <2>4, <1>3
    <3> QED
      BY <2>1, <2>4, <3>1, <1>4, <1>7
  <2>5. CASE ~(i < k) /\ ~(j < k)
    <3>1. i + 1 = j + 1
      BY <2>1, <2>5, <1>4, <1>7
    <3> QED
      BY <3>1, <2>1
  <2> QED
    BY <2>2, <2>3, <2>4, <2>5
<1>9. Elements(u) = Elements(s) \ {t}
  <2>1. ASSUME NEW i \in 1..Len(s) - 1 PROVE u[i] \in Elements(s) \ {t}
    <3>1. CASE i < k
      <4>1. i \in 1..Len(s) /\ i # k
        BY <3>1, <1>3, <1>4
      <4> QED
        BY <3>1, <4>1, <1>7 DEF Elements
    <3>2. CASE ~(i < k)
      <4>1. i + 1 \in 1..Len(s) /\ i + 1 # k
        BY <3>2, <1>3, <1>4
      <4> QED
        BY <3>2, <4>1, <1>7 DEF Elements
    <3> QED
      BY <3>1, <3>2
  <2>2. ASSUME NEW i \in 1..Len(s), s[i] # t PROVE s[i] \in Elements(u)
    <3>1. CASE i < k
      <4>1. i \in 1..Len(s) - 1
        BY <3>1, <1>3
      <4> QED
        BY <3>1, <4>1, <1>6, <1>7 DEF Elements
    <3>2. CASE i > k
      <4>1. i - 1 \in 1..Len(s) - 1 /\ ~(i - 1 < k) /\ (i - 1) + 1 = i
        BY <3>2, <1>3
      <4>2. u[i - 1] = s[i]
        BY <4>1, <1>7
      <4> QED
        BY <4>1, <4>2, <1>6 DEF Elements
    <3>3. i # k
      BY <2>2
    <3> QED
      BY <3>1, <3>2, <3>3, <1>3
  <2> QED
    BY <2>1, <2>2, <1>6 DEF Elements
<1> QED
  BY <1>6, <1>7, <1>8, <1>9 DEF u

(* schedule_remove takes exactly the given thread from the line, if        *)
(* another thread stays on it.                                             *)
LEMMA RemoveLinked ==
  ASSUME NEW q \in Queue, NEW s \in Seq(Thread), Linked(q, s),
         NEW t \in Elements(s), NEW w \in Elements(s), w # t
  PROVE  LET r == schedule_remove(q, t)
             u == Abstract!Without(s, t) IN
         /\ r \in Queue /\ r.cpu = q.cpu
         /\ u \in Seq(Thread) /\ Linked(r, u)
         /\ Elements(u) = Elements(s) \ {t}
<1> DEFINE r == schedule_remove(q, t)
           u == Abstract!Without(s, t)
           L == Len(s)
<1>1. \A i \in 1..L : s[i] \in Thread /\ s[i] # NULL
  BY NullAssumption
<1>2. PICK k \in 1..L : s[k] = t
  BY DEF Elements
<1>3. PICK o \in 1..L : s[o] = w
  BY DEF Elements
<1>4. o # k /\ t \in Thread
  BY <1>1, <1>2, <1>3
<1>5. L \in Nat /\ k \in Nat /\ k >= 1 /\ k <= L /\ L >= 2
  BY <1>2, <1>3, <1>4
<1>6. \A i, j \in 1..L : s[i] = s[j] => i = j
  BY DEF Linked
<1>7. /\ u \in Seq(Thread)
      /\ Len(u) = L - 1
      /\ \A i \in 1..L - 1 : u[i] = IF i < k THEN s[i] ELSE s[i + 1]
      /\ \A i, j \in 1..Len(u) : u[i] = u[j] => i = j
      /\ Elements(u) = Elements(s) \ {t}
  BY <1>2, <1>4, <1>6, WithoutShape
<1>8. /\ q.out = s[1] /\ q.in = s[L] /\ q.next[s[L]] = NULL
      /\ \A i \in 1..L - 1 : q.next[s[i]] = s[i + 1]
      /\ q.next \in [Thread -> Ptr]
  BY DEF Linked, Queue
<1> HIDE DEF r, u, L
<1>9. u # <<>> /\ L - 1 \in 1..L - 1 /\ 1 \in 1..L - 1 /\ 1 \in 1..L /\ L \in 1..L
  BY <1>5, <1>7
<1>10. CASE k = 1
  <2>1. q.out = t
    BY <1>2, <1>8, <1>10
  <2>2. r \in Queue /\ r.cpu = q.cpu /\ r.out = q.next[t] /\ r.in = q.in /\ r.next = q.next
    BY <2>1, <1>4, RemoveHead DEF r
  <2>3. \A i \in 1..L - 1 : u[i] = s[i + 1]
    BY <1>5, <1>7, <1>10
  <2>4. r.out = u[1]
    BY <2>2, <2>3, <1>2, <1>8, <1>9, <1>10
  <2>5. u[L - 1] = s[L]
    <3>1. (L - 1) + 1 = L
      BY <1>5
    <3> QED
      BY <3>1, <2>3, <1>9
  <2>6. ASSUME NEW i \in 1..Len(u) - 1 PROVE r.next[u[i]] = u[i + 1]
    <3>1. i \in 1..L - 1 /\ i + 1 \in 1..L - 1
      BY <1>5, <1>7
    <3>2. u[i] = s[i + 1] /\ u[i + 1] = s[(i + 1) + 1]
      BY <3>1, <2>3
    <3> QED
      BY <3>1, <3>2, <2>2, <1>8
  <2>7. Linked(r, u)
    BY <2>2, <2>4, <2>5, <2>6, <1>7, <1>8, <1>9 DEF Linked
  <2> QED
    BY <2>2, <2>7, <1>7 DEF r, u
<1>11. CASE k # 1
  <2> DEFINE temp == s[k - 1]
  <2>1. /\ k - 1 \in 1..L - 1 /\ k - 1 \in 1..L /\ (k - 1) + 1 = k /\ k - 1 < k
        /\ k - 1 # k
    BY <1>5, <1>11
  <2>2. temp \in Thread /\ q.next[temp] = t /\ temp # t
    BY <2>1, <1>1, <1>2, <1>6, <1>8
  <2>3. q.out # t /\ q.out # NULL
    BY <1>1, <1>2, <1>6, <1>8, <1>9, <1>11
  <2>4. {x \in Reach(q) : q.next[x] = t} = {temp}
    <3>1. ASSUME NEW x \in Reach(q), q.next[x] = t PROVE x = temp
      <4>1. PICK i \in 1..L : x = s[i]
        BY LinkedReach DEF Elements, L
      <4>2. i # L
        BY <3>1, <4>1, <1>4, <1>8, NullAssumption
      <4>3. i \in 1..L - 1 /\ i + 1 \in 1..L
        BY <4>2, <1>5
      <4>4. i + 1 = k
        BY <3>1, <4>1, <4>3, <1>2, <1>6, <1>8
      <4>5. i = k - 1
        BY <4>3, <4>4, <1>5
      <4> QED
        BY <4>1, <4>5
    <3>2. temp \in Reach(q)
      BY <2>1, LinkedReach DEF Elements, L
    <3> QED
      BY <3>1, <3>2, <2>2
  <2>5. /\ r \in Queue /\ r.cpu = q.cpu /\ r.out = q.out
        /\ r.in = IF q.in = t THEN temp ELSE q.in
        /\ r.next = [[q.next EXCEPT ![temp] = q.next[t]] EXCEPT ![t] = NULL]
    <3> HIDE DEF temp
    <3> QED
      BY <2>2, <2>3, <2>4, <1>4, RemoveInner DEF r
  <2>6. /\ r.next[temp] = q.next[t]
        /\ \A x \in Thread : x # t /\ x # temp => r.next[x] = q.next[x]
    <3> HIDE DEF temp
    <3> QED
      BY <2>2, <2>5, <1>4, <1>8
  <2>7. r.out = u[1]
    BY <2>5, <1>5, <1>7, <1>8, <1>9, <1>11
  <2>8. ASSUME NEW i \in 1..Len(u) - 1 PROVE r.next[u[i]] = u[i + 1]
    <3>1. i \in 1..L - 1 /\ i + 1 \in 1..L - 1 /\ i \in 1..L /\ i + 1 \in 1..L
      BY <1>5, <1>7
    <3>2. CASE i + 1 < k
      <4>1. i # k - 1 /\ i # k /\ i < k
        BY <3>1, <3>2, <1>5
      <4>2. u[i] = s[i] /\ u[i + 1] = s[i + 1]
        BY <3>1, <3>2, <4>1, <1>7
      <4>3. s[i] # t /\ s[i] # temp
        BY <2>1, <3>1, <4>1, <1>2, <1>6
      <4> QED
        BY <2>6, <3>1, <4>2, <4>3, <1>1, <1>8
    <3>3. CASE i + 1 = k
      <4>1. i = k - 1 /\ i < k /\ ~(i + 1 < k) /\ k \in 1..L - 1
        BY <3>1, <3>3, <1>5
      <4>2. u[i] = temp /\ u[i + 1] = s[k + 1]
        BY <3>1, <3>3, <4>1, <1>7
      <4> QED
        BY <2>6, <4>1, <4>2, <1>2, <1>8
    <3>4. CASE i + 1 > k
      <4>1. ~(i < k) /\ ~(i + 1 < k) /\ i + 1 # k - 1 /\ i + 1 # k
        BY <3>1, <3>4, <1>5
      <4>2. u[i] = s[i + 1] /\ u[i + 1] = s[(i + 1) + 1]
        BY <3>1, <4>1, <1>7
      <4>3. s[i + 1] # t /\ s[i + 1] # temp
        BY <2>1, <3>1, <4>1, <1>2, <1>6
      <4> QED
        BY <2>6, <3>1, <4>2, <4>3, <1>1, <1>8
    <3> QED
      BY <3>1, <3>2, <3>3, <3>4, <1>5
  <2>9. r.in = u[L - 1] /\ r.next[u[L - 1]] = NULL
    <3>1. CASE k = L
      <4>1. u[L - 1] = temp
        BY <3>1, <2>1, <1>7, <1>9
      <4> QED
        BY <3>1, <4>1, <2>5, <2>6, <1>2, <1>8
    <3>2. CASE k # L
      <4>1. ~(L - 1 < k) /\ (L - 1) + 1 = L /\ L # k - 1
        BY <3>2, <1>5
      <4>2. u[L - 1] = s[L]
        BY <4>1, <1>7, <1>9
      <4>3. s[L] # t /\ s[L] # temp
        BY <3>2, <4>1, <2>1, <1>2, <1>6, <1>9
      <4> QED
        BY <4>2, <4>3, <2>5, <2>6, <1>1, <1>8, <1>9
    <3> QED
      BY <3>1, <3>2
  <2>10. Linked(r, u)
    BY <2>5, <2>7, <2>8, <2>9, <1>7, <1>9, Zenon DEF Linked
  <2> QED
    BY <2>5, <2>10, <1>7 DEF r, u
<1> QED
  BY <1>10, <1>11

(* A line spelt by a queue meets no thread twice, so it is never longer    *)
(* than there are threads.                                                 *)
LEMMA LinesSeq ==
  ASSUME NEW q \in Queue, NEW s
  PROVE  s \in Lines /\ Linked(q, s) <=> s \in Seq(Thread) /\ Linked(q, s)
<1>1. Cardinality(Thread) \in Nat
  BY FiniteAssumption, FS_CardinalityType
<1>2. ASSUME s \in Lines PROVE s \in Seq(Thread)
  BY <1>1, <1>2 DEF Lines
<1>3. ASSUME s \in Seq(Thread), Linked(q, s) PROVE s \in Lines
  <2>1. Len(s) \in Nat /\ Len(s) >= 1 /\ s \in [1..Len(s) -> Thread]
    BY <1>3 DEF Linked
  <2>2. \A i, j \in 1..Len(s) : s[i] = s[j] => i = j
    BY <1>3 DEF Linked
  <2>3. IsFiniteSet(1..Len(s)) /\ Cardinality(1..Len(s)) = Len(s)
    BY <2>1, FS_Interval
  <2>4. ~(Cardinality(Thread) < Cardinality(1..Len(s)))
    <3> SUFFICES ASSUME Cardinality(Thread) < Cardinality(1..Len(s)) PROVE FALSE
      OBVIOUS
    <3>1. \E x, y \in 1..Len(s) : x # y /\ s[x] = s[y]
      BY <2>1, <2>3, FiniteAssumption, FS_PigeonHole
    <3> QED
      BY <3>1, <2>2
  <2>5. Len(s) \in 1..Cardinality(Thread)
    BY <1>1, <2>1, <2>3, <2>4
  <2> QED
    BY <2>1, <2>5 DEF Lines
<1> QED
  BY <1>2, <1>3

(* The refinement mapping is the line that the pointers spell.             *)
LEMMA OrderIs ==
  ASSUME NEW q \in Queue, NEW s \in Seq(Thread), Linked(q, s)
  PROVE  (CHOOSE r \in Lines : Linked(q, r)) = s
<1>1. s \in Lines
  BY LinesSeq
<1>2. ASSUME NEW r \in Lines, Linked(q, r) PROVE r = s
  BY <1>2, LinesSeq, LinkedUnique
<1> QED
  BY <1>1, <1>2

(* The invariant, opened: the queue spells a line of the threads that can  *)
(* run.                                                                    *)
LEMMA LineOf ==
  ASSUME IInv
  PROVE  \E s \in Seq(Thread) : Linked(queue, s) /\ Elements(s) = Runnable /\ Order = s
<1>1. PICK s \in Lines : Linked(queue, s) /\ Elements(s) = Runnable
  BY DEF IInv, QueueExact
<1>2. queue \in Queue
  BY DEF IInv, TypeOK
<1>3. s \in Seq(Thread)
  BY <1>1, <1>2, LinesSeq
<1>4. Order = s
  BY <1>1, <1>2, <1>3, OrderIs DEF Order
<1> QED
  BY <1>1, <1>3, <1>4

(* The invariant after a step, put together again from the line that the   *)
(* new queue spells.                                                       *)
LEMMA LineNext ==
  ASSUME TypeOK', Running', ImageLive', KeeperRuns',
         NEW u \in Seq(Thread), Linked(queue', u), Elements(u) = Runnable'
  PROVE  IInv' /\ Order' = u
<1>1. queue' \in Queue
  BY DEF TypeOK
<1>2. u \in Lines
  BY <1>1, LinesSeq
<1>3. QueueExact'
  BY <1>2 DEF QueueExact
<1>4. Order' = u
  BY <1>1, OrderIs DEF Order
<1> QED
  BY <1>3, <1>4 DEF IInv

-----------------------------------------------------------------------------

(* A step that changes neither the queue nor the set of threads that can   *)
(* run keeps the invariant.                                                *)
LEMMA SameQueue ==
  ASSUME IInv, queue' = queue, Runnable' = Runnable, TypeOK', ImageLive'
  PROVE  IInv' /\ Order' = Order
<1>1. PICK s \in Seq(Thread) : Linked(queue, s) /\ Elements(s) = Runnable /\ Order = s
  BY LineOf
<1>2. Running' /\ KeeperRuns'
  BY DEF IInv, QueueExact, Running, KeeperRuns
<1> QED
  BY <1>1, <1>2, LineNext

(* A timer tick keeps the invariant and is a tick of the round robin.      *)
LEMMA TimerStep ==
  ASSUME IInv, timer_handler
  PROVE  /\ IInv' /\ Abstract!Tick
         /\ frozen'[image'] = 0
<1>1. PICK s \in Seq(Thread) : Linked(queue, s) /\ Elements(s) = Runnable /\ Order = s
  BY LineOf
<1>2. TypeOK /\ Running
  BY DEF IInv, QueueExact
<1>3. queue \in Queue /\ frozen \in [Thread -> Nat]
  BY <1>2 DEF TypeOK
<1>4. s[1] \in Runnable /\ s # <<>>
  <2>1. s # <<>> /\ 1 \in 1..Len(s)
    BY <1>1 DEF Linked
  <2> QED
    BY <2>1, <1>1 DEF Elements
<1>5. frozen[s[1]] = 0 /\ s[1] \in live /\ s[1] \in Thread
  BY <1>2, <1>4 DEF Runnable, TypeOK
<1> DEFINE n == schedule_next(queue, frozen)
           u == Abstract!Rotate(s)
<1>6. /\ n.thread = s[1]
      /\ n.queue \in Queue /\ n.queue.cpu = queue.cpu
      /\ u \in Seq(Thread) /\ Linked(n.queue, u)
      /\ Elements(u) = Elements(s)
  BY <1>1, <1>3, <1>5, NextLinked
<1>7. queue' = n.queue /\ image' = s[1] /\ frozen' = frozen /\ live' = live
  BY <1>5, <1>6, NullAssumption DEF timer_handler
<1> HIDE DEF n, u
<1>8. Runnable' = Runnable
  BY <1>7 DEF Runnable
<1>9. TypeOK' /\ Running' /\ ImageLive' /\ KeeperRuns'
  BY <1>2, <1>5, <1>6, <1>7, <1>8 DEF TypeOK, Running, ImageLive, KeeperRuns, IInv
<1>10. IInv' /\ Order' = u
  BY <1>1, <1>6, <1>7, <1>8, <1>9, LineNext
<1>11. Abstract!Tick
  BY <1>1, <1>4, <1>7, <1>10 DEF Abstract!Tick, u
<1> QED
  BY <1>5, <1>7, <1>10, <1>11

(* A new thread keeps the invariant and joins the line.                    *)
LEMMA CreateStep ==
  ASSUME IInv, NEW t \in Thread, Create(t)
  PROVE  /\ IInv' /\ Abstract!Join(t)
         /\ frozen'[image'] = 0
<1>1. PICK s \in Seq(Thread) : Linked(queue, s) /\ Elements(s) = Runnable /\ Order = s
  BY LineOf
<1>2. TypeOK /\ Running /\ t \notin live /\ queue \in Queue
  BY DEF IInv, QueueExact, Create, TypeOK
<1>3. t \notin Elements(s)
  BY <1>1, <1>2 DEF Runnable
<1> DEFINE q == [queue EXCEPT !.next[t] = NULL]
           r == schedule_insert(q, t)
           u == Append(s, t)
<1>4. /\ q \in Queue /\ q.cpu = queue.cpu /\ q.out = queue.out /\ q.in = queue.in
      /\ \A x \in Thread : x # t => q.next[x] = queue.next[x]
  BY <1>2 DEF Queue, Ptr
<1> HIDE DEF q
<1>5. Linked(q, s)
  <2>1. Len(s) \in Nat /\ Len(s) \in 1..Len(s) /\ \A i \in 1..Len(s) - 1 : i \in 1..Len(s)
    BY <1>1 DEF Linked
  <2>2. \A i \in 1..Len(s) : s[i] \in Thread /\ s[i] # t
    BY <1>3 DEF Elements
  <2>3. \A i \in 1..Len(s) : q.next[s[i]] = queue.next[s[i]]
    BY <1>4, <2>2
  <2> QED
    BY <1>1, <1>4, <2>1, <2>3 DEF Linked
<1>6. r \in Queue /\ r.cpu = q.cpu /\ Linked(r, u) /\ Elements(u) = Elements(s) \cup {t}
  BY <1>3, <1>4, <1>5, InsertLinked
<1>7. /\ queue' = r /\ image' = t /\ live' = live \cup {t}
      /\ frozen' = [frozen EXCEPT ![t] = 0]
  BY DEF Create, q
<1> HIDE DEF r
<1>8. Runnable' = Runnable \cup {t}
  BY <1>2, <1>7 DEF Runnable, TypeOK
<1>9. TypeOK' /\ Running' /\ ImageLive' /\ KeeperRuns'
  BY <1>2, <1>4, <1>6, <1>7, <1>8, FrozenAssumption
  DEF TypeOK, Running, ImageLive, KeeperRuns, IInv
<1>10. IInv' /\ Order' = u
  <2>1. u \in Seq(Thread)
    OBVIOUS
  <2> HIDE DEF u
  <2> QED
    BY <2>1, <1>1, <1>6, <1>7, <1>8, <1>9, LineNext
<1>11. Abstract!Join(t)
  BY <1>1, <1>3, <1>7, <1>10 DEF Abstract!Join, Abstract!Member, Elements
<1>12. frozen'[image'] = 0
  BY <1>2, <1>7 DEF TypeOK
<1> QED
  BY <1>10, <1>11, <1>12

(* thread_thaw keeps the invariant; the thread joins the line when its     *)
(* count reaches zero.                                                     *)
LEMMA ThawStep ==
  ASSUME IInv, NEW t \in Thread, thread_thaw(t)
  PROVE  /\ IInv'
         /\ Abstract!Join(t) \/ Order' = Order
         /\ image' = image
<1>1. PICK s \in Seq(Thread) : Linked(queue, s) /\ Elements(s) = Runnable /\ Order = s
  BY LineOf
<1>2. TypeOK /\ Running /\ t \in live /\ queue \in Queue /\ frozen \in [Thread -> 0..MaxFrozen]
  BY DEF IInv, QueueExact, thread_thaw, TypeOK
<1>3. /\ frozen[t] > 0 /\ frozen' = [frozen EXCEPT ![t] = @ - 1]
      /\ live' = live /\ image' = image
      /\ queue' = IF frozen'[t] = 0 THEN schedule_insert(queue, t) ELSE queue
  BY DEF thread_thaw
<1>4. /\ frozen' \in [Thread -> 0..MaxFrozen]
      /\ frozen'[t] = frozen[t] - 1
      /\ \A x \in Thread : x # t => frozen'[x] = frozen[x]
  BY <1>2, <1>3, FrozenAssumption
<1>5. t \notin Runnable /\ live \subseteq Thread
  BY <1>2, <1>3 DEF Runnable, TypeOK
<1>6. CASE frozen'[t] = 0
  <2> DEFINE r == schedule_insert(queue, t)
             u == Append(s, t)
  <2>1. /\ r \in Queue /\ r.cpu = queue.cpu /\ Linked(r, u)
        /\ Elements(u) = Elements(s) \cup {t}
    BY <1>1, <1>2, <1>5, InsertLinked
  <2>2. queue' = r
    BY <1>3, <1>6
  <2>3. u \in Seq(Thread)
    OBVIOUS
  <2> HIDE DEF r, u
  <2>4. Runnable' = Runnable \cup {t}
    BY <1>2, <1>3, <1>4, <1>5, <1>6 DEF Runnable
  <2>5. TypeOK' /\ Running' /\ ImageLive' /\ KeeperRuns'
    BY <1>2, <1>3, <1>4, <2>1, <2>2, <2>4
    DEF TypeOK, Running, ImageLive, KeeperRuns, IInv
  <2>6. IInv' /\ Order' = u
    BY <1>1, <2>1, <2>2, <2>3, <2>4, <2>5, LineNext
  <2>7. Abstract!Join(t)
    BY <1>1, <1>3, <1>5, <2>6 DEF Abstract!Join, Abstract!Member, Elements, u
  <2> QED
    BY <1>3, <2>6, <2>7
<1>7. CASE frozen'[t] # 0
  <2>1. queue' = queue
    BY <1>3, <1>7
  <2>2. Runnable' = Runnable
    BY <1>3, <1>4, <1>5, <1>7 DEF Runnable
  <2>3. TypeOK' /\ ImageLive'
    BY <1>2, <1>3, <1>4, <2>1 DEF TypeOK, ImageLive, IInv
  <2> QED
    BY <1>3, <2>1, <2>2, <2>3, SameQueue
<1> QED
  BY <1>6, <1>7

(* The queue after schedule_remove of a thread that may or may not be on   *)
(* it, as thread_free and thread_freeze use it.                            *)
LEMMA Removed ==
  ASSUME IInv, NEW t \in Thread, t # Keeper
  PROVE  LET r == schedule_remove(queue, t)
             u == IF Abstract!Member(t) THEN Abstract!Without(Order, t) ELSE Order
         IN /\ r \in Queue /\ r.cpu = "run"
            /\ u \in Seq(Thread) /\ Linked(r, u)
            /\ Elements(u) = Runnable \ {t}
            /\ Abstract!Member(t) <=> t \in Runnable
            /\ ~Abstract!Member(t) => r = queue
<1> DEFINE r == schedule_remove(queue, t)
           u == IF Abstract!Member(t) THEN Abstract!Without(Order, t) ELSE Order
<1>1. PICK s \in Seq(Thread) : Linked(queue, s) /\ Elements(s) = Runnable /\ Order = s
  BY LineOf
<1>2. queue \in Queue /\ queue.cpu = "run" /\ Keeper \in Elements(s)
  BY <1>1 DEF IInv, QueueExact, Running, TypeOK, KeeperRuns
<1>3. Abstract!Member(t) <=> t \in Elements(s)
  BY <1>1 DEF Abstract!Member, Elements
<1>4. CASE t \in Elements(s)
  <2>1. u = Abstract!Without(s, t)
    BY <1>1, <1>3, <1>4
  <2>2. /\ r \in Queue /\ r.cpu = queue.cpu
        /\ Abstract!Without(s, t) \in Seq(Thread) /\ Linked(r, Abstract!Without(s, t))
        /\ Elements(Abstract!Without(s, t)) = Elements(s) \ {t}
    BY <1>1, <1>2, <1>4, RemoveLinked
  <2> HIDE DEF r, u
  <2>3. /\ r \in Queue /\ r.cpu = "run"
        /\ u \in Seq(Thread) /\ Linked(r, u)
        /\ Elements(u) = Runnable \ {t}
    BY <1>1, <1>2, <2>1, <2>2
  <2> QED
    BY <1>1, <1>3, <1>4, <2>3 DEF r, u
<1>5. CASE t \notin Elements(s)
  <2>1. u = s
    BY <1>1, <1>3, <1>5
  <2>2. r = queue
    BY <1>1, <1>2, <1>5, RemoveAbsent
  <2> HIDE DEF r, u
  <2>3. /\ r \in Queue /\ r.cpu = "run"
        /\ u \in Seq(Thread) /\ Linked(r, u)
        /\ Elements(u) = Runnable \ {t}
    BY <1>1, <1>2, <1>5, <2>1, <2>2
  <2> QED
    BY <1>1, <1>3, <1>5, <2>2, <2>3 DEF r, u
<1> QED
  BY <1>4, <1>5

(* A step that removes a thread from the queue and from the threads that   *)
(* can run keeps the invariant and is a departure from the line, or none.  *)
LEMMA LeaveStep ==
  ASSUME IInv, NEW t \in Thread, t # Keeper,
         queue' = schedule_remove(queue, t),
         Runnable' = Runnable \ {t}, TypeOK', ImageLive', image' = image
  PROVE  /\ IInv'
         /\ Abstract!Leave(t) \/ Order' = Order
<1> DEFINE r == schedule_remove(queue, t)
           u == IF Abstract!Member(t) THEN Abstract!Without(Order, t) ELSE Order
<1>1. /\ r \in Queue /\ r.cpu = "run"
      /\ u \in Seq(Thread) /\ Linked(r, u)
      /\ Elements(u) = Runnable \ {t}
  BY Removed
<1>2. Running' /\ KeeperRuns'
  BY <1>1 DEF Running, KeeperRuns, IInv
<1> HIDE DEF r, u
<1>3. IInv' /\ Order' = u
  BY <1>1, <1>2, LineNext DEF r
<1> QED
  BY <1>3 DEF Abstract!Leave, u

(* thread_free of a thread that does not run keeps the invariant.          *)
LEMMA FreeStep ==
  ASSUME IInv, NEW t \in Thread, thread_free(t)
  PROVE  /\ IInv'
         /\ Abstract!Leave(t) \/ Order' = Order
         /\ image' = image
<1>1. /\ t \in live /\ t # Keeper /\ t # image
      /\ live' = live \ {t} /\ queue' = schedule_remove(queue, t)
      /\ frozen' = frozen /\ image' = image
  BY DEF thread_free
<1>2. queue' \in Queue
  BY <1>1, Removed
<1>3. TypeOK' /\ ImageLive'
  BY <1>1, <1>2 DEF TypeOK, ImageLive, IInv
<1>4. Runnable' = Runnable \ {t}
  BY <1>1 DEF Runnable
<1> QED
  BY <1>1, <1>3, <1>4, LeaveStep

(* thread_freeze keeps the invariant; the thread leaves the line when its  *)
(* count was zero.                                                         *)
LEMMA FreezeStep ==
  ASSUME IInv, NEW t \in Thread, thread_freeze(t)
  PROVE  /\ IInv'
         /\ Abstract!Leave(t) \/ Order' = Order
         /\ image' = image
<1>1. /\ t \in live /\ t # Keeper /\ frozen[t] < MaxFrozen
      /\ queue' = IF frozen[t] = 0 THEN schedule_remove(queue, t) ELSE queue
      /\ frozen' = [frozen EXCEPT ![t] = @ + 1]
      /\ live' = live /\ image' = image
  BY DEF thread_freeze
<1>2. frozen \in [Thread -> 0..MaxFrozen] /\ live \subseteq Thread /\ queue \in Queue
  BY DEF IInv, TypeOK
<1>3. /\ frozen' \in [Thread -> 0..MaxFrozen]
      /\ frozen'[t] # 0
      /\ \A x \in Thread : x # t => frozen'[x] = frozen[x]
  BY <1>1, <1>2, FrozenAssumption
<1>4. Runnable' = Runnable \ {t}
  BY <1>1, <1>2, <1>3 DEF Runnable
<1>5. queue' \in Queue
  BY <1>1, <1>2, Removed
<1>6. TypeOK' /\ ImageLive'
  BY <1>1, <1>3, <1>5 DEF TypeOK, ImageLive, IInv
<1>7. CASE frozen[t] = 0
  BY <1>1, <1>4, <1>6, <1>7, LeaveStep
<1>8. CASE frozen[t] # 0
  <2>1. queue' = queue
    BY <1>1, <1>8
  <2>2. Runnable' = Runnable
    BY <1>4, <1>8 DEF Runnable
  <2> QED
    BY <1>1, <1>6, <2>1, <2>2, SameQueue
<1> QED
  BY <1>7, <1>8

(* thread_exit keeps the invariant, and the thread then in front takes the *)
(* processor.                                                              *)
LEMMA ExitStep ==
  ASSUME IInv, thread_exit
  PROVE  /\ IInv' /\ Abstract!Exit(image)
         /\ frozen'[image'] = 0
<1> DEFINE r == schedule_remove(queue, image)
           w == IF Abstract!Member(image) THEN Abstract!Without(Order, image) ELSE Order
           n == schedule_next(r, frozen)
           u == Abstract!Rotate(w)
<1>1. /\ image \in Thread /\ image # Keeper
      /\ live' = live \ {image} /\ frozen' = frozen
      /\ queue' = n.queue /\ image' = n.thread
  BY DEF thread_exit, IInv, TypeOK
<1>2. /\ r \in Queue /\ r.cpu = "run"
      /\ w \in Seq(Thread) /\ Linked(r, w)
      /\ Elements(w) = Runnable \ {image}
  BY <1>1, Removed
<1> HIDE DEF r, w
<1>3. w # <<>> /\ w[1] \in Runnable \ {image}
  <2>1. w # <<>> /\ 1 \in 1..Len(w)
    BY <1>2 DEF Linked
  <2> QED
    BY <2>1, <1>2 DEF Elements
<1>4. /\ w[1] \in live \ {image} /\ frozen[w[1]] = 0 /\ w[1] \in Thread
      /\ frozen \in [Thread -> Nat]
  BY <1>3 DEF Runnable, IInv, TypeOK
<1>5. /\ n.thread = w[1]
      /\ n.queue \in Queue /\ n.queue.cpu = r.cpu
      /\ u \in Seq(Thread) /\ Linked(n.queue, u)
      /\ Elements(u) = Elements(w)
  BY <1>2, <1>4, NextLinked
<1> HIDE DEF n, u
<1>6. Runnable' = Runnable \ {image}
  BY <1>1 DEF Runnable
<1>7. TypeOK' /\ Running' /\ ImageLive' /\ KeeperRuns'
  BY <1>1, <1>2, <1>4, <1>5, <1>6
  DEF TypeOK, Running, ImageLive, KeeperRuns, IInv
<1>8. IInv' /\ Order' = u
  BY <1>1, <1>2, <1>5, <1>6, <1>7, LineNext
<1>9. Abstract!Exit(image)
  <2>1. image' = Head(w) /\ Order' = Abstract!Rotate(w)
    BY <1>1, <1>2, <1>3, <1>5, <1>8 DEF u
  <2> QED
    BY <1>1, <2>1 DEF Abstract!Exit, w
<1> QED
  BY <1>1, <1>4, <1>5, <1>8, <1>9

-----------------------------------------------------------------------------

(* The state after init() satisfies the invariant, and is the initial      *)
(* state of the round robin.                                               *)
LEMMA InitLine == Init => IInv /\ Abstract!Init
<1> SUFFICES ASSUME Init PROVE IInv /\ Abstract!Init
  OBVIOUS
<1> DEFINE r == schedule_insert(EmptyQueue, Keeper)
           u == <<Keeper>>
<1>1. /\ queue = r /\ frozen = [t \in Thread |-> 0]
      /\ live = {Keeper} /\ image = Keeper
  BY DEF Init
<1>2. /\ EmptyQueue \in Queue /\ EmptyQueue.in = NULL /\ EmptyQueue.cpu = "run"
      /\ r = Enqueue(EmptyQueue, Keeper)
  BY DEF EmptyQueue, Queue, Ptr, schedule_insert
<1>3. /\ r \in Queue /\ r.cpu = "run" /\ r.out = Keeper /\ r.in = Keeper
      /\ r.next[Keeper] = NULL
  BY <1>2, KeeperAssumption, EnqueueFirst
<1> HIDE DEF r
<1>4. u \in Seq(Thread) /\ Linked(r, u)
  BY <1>3, KeeperAssumption DEF Linked
<1>5. Elements(u) = {Keeper} /\ Runnable = {Keeper}
  BY <1>1, KeeperAssumption DEF Elements, Runnable
<1>6. u \in Lines
  BY <1>3, <1>4, LinesSeq, Zenon
<1>7. TypeOK /\ Running /\ ImageLive /\ KeeperRuns
  BY <1>1, <1>3, <1>5, KeeperAssumption, FrozenAssumption
  DEF TypeOK, Running, ImageLive, KeeperRuns
<1>8. Order = u
  <2> HIDE DEF u
  <2>1. queue \in Queue /\ Linked(queue, u)
    BY <1>1, <1>3, <1>4
  <2> QED
    BY <2>1, <1>4, OrderIs DEF Order
<1> QED
  BY <1>1, <1>4, <1>5, <1>6, <1>7, <1>8 DEF IInv, QueueExact, Abstract!Init

(* Every step keeps the invariant, is a step of the round robin or a       *)
(* stutter, and switches only to a thread that is not frozen.              *)
LEMMA NextLine ==
  ASSUME IInv, [Next]_vars
  PROVE  /\ IInv'
         /\ [Abstract!Next]_(Abstract!abstractVars)
         /\ image' # image => frozen'[image'] = 0
<1>1. CASE timer_handler
  BY <1>1, TimerStep DEF Abstract!Next
<1>2. CASE thread_exit
  <2>1. image \in Thread
    BY DEF IInv, TypeOK
  <2> QED
    BY <1>2, <2>1, ExitStep DEF Abstract!Next
<1>3. ASSUME NEW t \in Thread, Create(t)
      PROVE  /\ IInv'
             /\ [Abstract!Next]_(Abstract!abstractVars)
             /\ image' # image => frozen'[image'] = 0
  BY <1>3, CreateStep DEF Abstract!Next
<1>4. ASSUME NEW t \in Thread, thread_free(t) \/ thread_freeze(t)
      PROVE  /\ IInv'
             /\ [Abstract!Next]_(Abstract!abstractVars)
             /\ image' # image => frozen'[image'] = 0
  BY <1>4, FreeStep, FreezeStep DEF Abstract!Next, Abstract!abstractVars
<1>5. ASSUME NEW t \in Thread, thread_thaw(t)
      PROVE  /\ IInv'
             /\ [Abstract!Next]_(Abstract!abstractVars)
             /\ image' # image => frozen'[image'] = 0
  BY <1>5, ThawStep DEF Abstract!Next, Abstract!abstractVars
<1>6. CASE UNCHANGED vars
  <2>1. queue' = queue /\ frozen' = frozen /\ live' = live /\ image' = image
    BY <1>6 DEF vars
  <2>2. Runnable' = Runnable /\ TypeOK' /\ ImageLive'
    BY <2>1 DEF Runnable, TypeOK, ImageLive, IInv
  <2>3. IInv' /\ Order' = Order
    BY <2>1, <2>2, SameQueue
  <2> QED
    BY <2>1, <2>3 DEF Abstract!abstractVars
<1> QED
  BY <1>1, <1>2, <1>3, <1>4, <1>5, <1>6 DEF Next

(* IInv is an invariant: whatever the order of timer ticks, creations,     *)
(* exits, freezes and thaws, for any number of threads.                    *)
THEOREM Invariance == Spec => []IInv
<1>1. Init => IInv
  BY InitLine
<1>2. IInv /\ [Next]_vars => IInv'
  BY NextLine
<1> QED
  BY <1>1, <1>2, PTL DEF Spec

(* The scheduler's state keeps its type.                                   *)
THEOREM TypeCorrect == Spec => []TypeOK
<1>1. IInv => TypeOK
  BY DEF IInv
<1> QED
  BY <1>1, Invariance, PTL

(* The scheduling queue is always one proper list of exactly the threads   *)
(* that are allocated and not frozen, and schedule_insert and              *)
(* schedule_remove never panic.                                            *)
THEOREM QueueIsExact == Spec => []QueueExact
<1>1. IInv => QueueExact
  BY DEF IInv
<1> QED
  BY <1>1, Invariance, PTL

(* The processor always runs a thread that is allocated.                   *)
THEOREM ImageIsLive == Spec => []ImageLive
<1>1. IInv => ImageLive
  BY DEF IInv
<1> QED
  BY <1>1, Invariance, PTL

(* No handler switches to a frozen thread.                                 *)
THEOREM FrozenNeverRuns == Spec => FrozenStaysOut
<1>1. IInv /\ [Next]_vars => [image' # image => frozen'[image'] = 0]_vars
  BY NextLine
<1> QED
  BY <1>1, Invariance, PTL DEF Spec, FrozenStaysOut

(* The linked list of schedule.c and its callers implement the safety part *)
(* of the round robin: threads run in the order in which they became       *)
(* runnable, except that a new thread runs at once.                        *)
THEOREM Refinement == Spec => Abstract!Safety
<1>1. Init => Abstract!Init
  BY InitLine
<1>2. IInv /\ [Next]_vars => [Abstract!Next]_(Abstract!abstractVars)
  BY NextLine
<1> QED
  BY <1>1, <1>2, Invariance, PTL DEF Spec, Abstract!Safety

-----------------------------------------------------------------------------
(* Signals: the threads of a process in which its handlers run.            *)

CONSTANTS Signal, Handler, Program, MaxSets, Beyond
VARIABLES handlerv, mutex, at, sets, ran, ended

Sig == INSTANCE Signals WITH Thread <- Handler

(* NULL is no thread; the numbers of handlers are a range.                 *)
Proper == NULL \notin Handler \cup Program /\ MaxSets \in Nat /\ Handler \cap Program = {}

Does == {"idle", "raise", "handler", "signal"}

SigTypes ==
  /\ handlerv \in [Signal -> [kind : {"dfl", "plain", "again"}, n : 0..MaxSets]]
  /\ mutex \in Handler \cup {NULL}
  /\ at \in [Handler \cup Program -> [does : Does, sig : Signal \cup {NULL}]]
  /\ sets \in 0..MaxSets
  /\ ran \in [0..MaxSets -> Nat]
  /\ ended \in BOOLEAN

(* The handlers that are installed have numbers of their own.              *)
Numbered ==
  /\ \A s \in Signal : handlerv[s].n <= sets /\ (handlerv[s].n = 0 <=> handlerv[s].kind = "dfl")
  /\ \A s, r \in Signal : handlerv[s].n = handlerv[r].n /\ s # r => handlerv[s].n = 0

(* A thread that runs a handler holds the mutex; a thread with a signal    *)
(* has one of the table.                                                   *)
Holding ==
  /\ \A t \in Handler \cup Program :
       /\ at[t].does = "handler" => mutex = t
       /\ at[t].does # "idle" => at[t].sig \in Signal
  /\ mutex # NULL => at[mutex].does \in {"handler", "signal"}
  /\ \A t \in Handler : at[t].does = "signal" => mutex = t

(* Of the handlers that are installed, only the one of the thread that     *)
(* holds the mutex has run, and once.                                      *)
Fresh ==
  /\ \A n \in 1..MaxSets : ran[n] <= 1 /\ (n > sets => ran[n] = 0)
  /\ \A s \in Signal : handlerv[s].n > 0 /\ ran[handlerv[s].n] > 0 =>
       mutex # NULL /\ at[mutex].sig = s

SigInv == SigTypes /\ Numbered /\ Holding /\ Fresh

(* The table of handlers and the free mutex of the start satisfy the       *)
(* invariant.                                                              *)
LEMMA SigInit == ASSUME Proper PROVE Sig!Init => SigInv
<1> SUFFICES ASSUME Sig!Init PROVE SigInv
  OBVIOUS
<1>1. /\ Sig!Default \in [kind : {"dfl", "plain", "again"}, n : 0..MaxSets] /\ Sig!Default.n = 0 /\ Sig!Default.kind = "dfl"
      /\ Sig!Idle \in [does : Does, sig : Signal \cup {NULL}] /\ Sig!Idle.does = "idle"
  BY DEF Sig!Default, Sig!Idle, Does, Proper
<1>2. \A s \in Signal : handlerv[s] = Sig!Default
  BY DEF Sig!Init
<1>3. \A t \in Handler \cup Program : at[t] = Sig!Idle
  BY DEF Sig!Init
<1>4. SigTypes
  BY <1>1, Zenon DEF Sig!Init, SigTypes, Proper
<1>5. Numbered
  BY <1>1, <1>2 DEF Sig!Init, Numbered
<1>6. Holding
  BY <1>1, <1>3 DEF Sig!Init, Holding
<1>7. Fresh
  BY <1>1, <1>2 DEF Sig!Init, Fresh, Proper
<1> QED
  BY <1>4, <1>5, <1>6, <1>7 DEF SigInv

(* A thread that begins to raise a signal, or to install a handler, keeps  *)
(* the invariant.                                                          *)
LEMMA Sigwrap ==
  ASSUME Proper, SigInv, NEW t \in Handler \cup Program, NEW s \in Signal, NEW d \in {"raise", "signal"},
         at[t] = Sig!Idle, d = "signal" => t \in Program,
         at' = [at EXCEPT ![t] = [does |-> d, sig |-> s]],
         UNCHANGED <<handlerv, mutex, sets, ran, ended>>
  PROVE  SigInv'
<1>1. SigTypes'
  BY DEF SigInv, SigTypes, Does
<1>2. mutex # t
  BY DEF SigInv, Holding, Sig!Idle, Proper
<1>3. Numbered' /\ Fresh'
  BY <1>2 DEF SigInv, SigTypes, Numbered, Fresh
<1>4. Holding'
  BY <1>2 DEF SigInv, SigTypes, Holding, Proper
<1> QED
  BY <1>1, <1>3, <1>4 DEF SigInv

(* __raise, which takes the mutex and calls the handler, keeps the         *)
(* invariant.                                                              *)
LEMMA Raise ==
  ASSUME Proper, SigInv, NEW t \in Handler, Sig!__raise(t)
  PROVE  SigInv'
<1> DEFINE s == at[t].sig
           h == handlerv[s]
           d == IF h.kind = "again" THEN "signal" ELSE "handler"
<1>1. /\ at[t].does = "raise" /\ mutex = NULL /\ mutex' = t
      /\ ran' = [ran EXCEPT ![h.n] = IF h.n = 0 THEN 0 ELSE @ + 1]
      /\ ended' = (h.kind = "dfl")
      /\ at' = [at EXCEPT ![t].does = d]
      /\ UNCHANGED <<handlerv, sets>>
  BY DEF Sig!__raise
<1>2. s \in Signal /\ t \in Handler \cup Program /\ t # NULL
  BY <1>1 DEF SigInv, Holding, Proper
<1>3. h \in [kind : {"dfl", "plain", "again"}, n : 0..MaxSets] /\ h.n \in 0..MaxSets /\ h.n <= sets
  BY <1>2 DEF SigInv, SigTypes, Numbered
<1>4. d \in {"signal", "handler"}
  OBVIOUS
<1>5. at'[t] = [does |-> d, sig |-> s] /\ \A r \in Handler \cup Program : r # t => at'[r] = at[r]
  BY <1>1, <1>2 DEF SigInv, SigTypes
<1>6. h.n > 0 => ran[h.n] = 0
  BY <1>1, <1>2, <1>3 DEF SigInv, SigTypes, Fresh
<1>7. /\ h.n > 0 => ran'[h.n] = 1
      /\ \A n \in 1..MaxSets : n # h.n => ran'[n] = ran[n]
  BY <1>1, <1>3, <1>6 DEF SigInv, SigTypes
<1>8. SigTypes'
  <2>1. ran' \in [0..MaxSets -> Nat]
    BY <1>1, <1>3 DEF SigInv, SigTypes
  <2>2. at' \in [Handler \cup Program -> [does : Does, sig : Signal \cup {NULL}]]
    <3> HIDE DEF d
    <3> QED
      BY <1>1, <1>2, <1>4, Zenon DEF SigInv, SigTypes, Does
  <2> QED
    BY <1>1, <2>1, <2>2 DEF SigInv, SigTypes
<1> HIDE DEF d, h, s
<1>9. Numbered'
  BY <1>1 DEF SigInv, Numbered
<1>10. Holding'
  <2>1. \A r \in Handler \cup Program : at[r].does # "handler" /\ (r \in Handler => at[r].does # "signal")
    BY <1>1, <1>2 DEF SigInv, Holding, Proper
  <2> QED
    BY <1>1, <1>2, <1>4, <1>5, <2>1 DEF SigInv, Holding
<1>11. Fresh'
  <2>1. \A n \in 1..MaxSets : ran'[n] <= 1 /\ (n > sets' => ran'[n] = 0)
    <3> SUFFICES ASSUME NEW n \in 1..MaxSets PROVE ran'[n] <= 1 /\ (n > sets' => ran'[n] = 0)
      OBVIOUS
    <3>1. CASE n = h.n
      BY <1>1, <1>3, <1>7, <3>1 DEF SigInv, SigTypes
    <3>2. CASE n # h.n
      BY <1>1, <1>7, <3>2 DEF SigInv, Fresh
    <3> QED
      BY <3>1, <3>2
  <2>2. ASSUME NEW r \in Signal, handlerv'[r].n > 0, ran'[handlerv'[r].n] > 0
        PROVE  mutex' # NULL /\ at'[mutex'].sig = r
    <3>1. handlerv'[r] = handlerv[r] /\ handlerv[r].n \in 1..MaxSets
      BY <1>1, <2>2 DEF SigInv, SigTypes
    <3>2. handlerv[r].n # h.n => ran[handlerv[r].n] > 0
      BY <1>7, <2>2, <3>1
    <3>3. handlerv[r].n # h.n => FALSE
      BY <1>1, <2>2, <3>1, <3>2 DEF SigInv, Fresh
    <3>4. r = s
      BY <1>2, <2>2, <3>1, <3>3 DEF SigInv, Numbered, h
    <3> QED
      BY <1>1, <1>2, <1>5, <3>4
  <2> QED
    BY <2>1, <2>2 DEF Fresh
<1> QED
  BY <1>8, <1>9, <1>10, <1>11 DEF SigInv

(* Resetting the handler and releasing the mutex keep the invariant.       *)
LEMMA Reset ==
  ASSUME Proper, SigInv, NEW t \in Handler, Sig!__raise_reset(t)
  PROVE  SigInv'
<1> DEFINE s == at[t].sig
<1>1. /\ at[t].does = "handler" /\ mutex' = NULL
      /\ handlerv' = [handlerv EXCEPT ![s] = Sig!Default]
      /\ at' = [at EXCEPT ![t] = Sig!Idle]
      /\ UNCHANGED <<sets, ran, ended>>
  BY DEF Sig!__raise_reset
<1>2. s \in Signal /\ mutex = t /\ t # NULL
  BY <1>1 DEF SigInv, Holding, Proper
<1>3. handlerv'[s] = Sig!Default /\ \A r \in Signal : r # s => handlerv'[r] = handlerv[r]
  BY <1>1, <1>2 DEF SigInv, SigTypes
<1>4. at'[t] = Sig!Idle /\ \A r \in Handler \cup Program : r # t => at'[r] = at[r]
  BY <1>1 DEF SigInv, SigTypes
<1>5. Sig!Default \in [kind : {"dfl", "plain", "again"}, n : 0..MaxSets] /\ Sig!Default.n = 0 /\ Sig!Default.kind = "dfl"
  BY DEF Sig!Default, Proper
<1>6. Sig!Idle \in [does : Does, sig : Signal \cup {NULL}] /\ Sig!Idle.does = "idle"
  BY DEF Sig!Idle, Does
<1>7. SigTypes'
  BY <1>1, <1>2, <1>5, <1>6 DEF SigInv, SigTypes
<1> HIDE DEF s
<1>8. Numbered'
  <2>1. \A r \in Signal : handlerv'[r].n <= sets' /\ (handlerv'[r].n = 0 <=> handlerv'[r].kind = "dfl")
    BY <1>1, <1>2, <1>3, <1>5 DEF SigInv, SigTypes, Numbered
  <2>2. \A r, q \in Signal : handlerv'[r].n = handlerv'[q].n /\ r # q => handlerv'[r].n = 0
    BY <1>3, <1>5 DEF SigInv, Numbered
  <2> QED
    BY <2>1, <2>2 DEF Numbered
<1>9. Holding'
  <2>1. \A r \in Handler \cup Program : r # t => at[r].does # "handler" /\ (r \in Handler => at[r].does # "signal")
    BY <1>2 DEF SigInv, Holding
  <2> QED
    BY <1>1, <1>4, <1>6, <2>1 DEF SigInv, Holding
<1>10. Fresh'
  <2>1. ASSUME NEW r \in Signal, handlerv'[r].n > 0, ran'[handlerv'[r].n] > 0
        PROVE  FALSE
    <3>1. r # s
      BY <1>3, <1>5, <2>1
    <3>2. at[mutex].sig = r
      BY <1>1, <1>3, <2>1, <3>1 DEF SigInv, Fresh
    <3> QED
      BY <1>2, <3>1, <3>2 DEF s
  <2>2. \A n \in 1..MaxSets : ran'[n] <= 1 /\ (n > sets' => ran'[n] = 0)
    BY <1>1 DEF SigInv, Fresh
  <2> QED
    BY <2>1, <2>2 DEF Fresh
<1> QED
  BY <1>7, <1>8, <1>9, <1>10 DEF SigInv

(* signal keeps the invariant.                                             *)
LEMMA SignalSets ==
  ASSUME Proper, SigInv, NEW t \in Program, NEW k \in Sig!Kinds, Sig!signal(t, k)
  PROVE  SigInv'
<1> DEFINE s == at[t].sig
           e == [kind |-> k, n |-> sets + 1]
<1>1. /\ at[t].does = "signal" /\ mutex = NULL /\ sets < MaxSets /\ sets' = sets + 1
      /\ handlerv' = [handlerv EXCEPT ![s] = e]
      /\ at' = [at EXCEPT ![t] = Sig!Idle]
      /\ UNCHANGED <<mutex, ran, ended>>
  BY DEF Sig!signal
<1>2. s \in Signal
  BY <1>1 DEF SigInv, Holding
<1>3. handlerv'[s] = e /\ \A r \in Signal : r # s => handlerv'[r] = handlerv[r]
  BY <1>1, <1>2 DEF SigInv, SigTypes
<1>4. at'[t] = Sig!Idle /\ \A r \in Handler \cup Program : r # t => at'[r] = at[r]
  BY <1>1 DEF SigInv, SigTypes
<1>5. /\ e \in [kind : {"dfl", "plain", "again"}, n : 0..MaxSets] /\ e.n = sets + 1 /\ e.kind # "dfl"
      /\ sets + 1 \in 1..MaxSets /\ sets \in Nat
  BY <1>1 DEF SigInv, SigTypes, Sig!Kinds, Proper
<1>6. Sig!Idle \in [does : Does, sig : Signal \cup {NULL}] /\ Sig!Idle.does = "idle"
  BY DEF Sig!Idle, Does
<1>7. SigTypes'
  <2> HIDE DEF e, s
  <2> QED
    BY <1>1, <1>2, <1>5, <1>6 DEF SigInv, SigTypes
<1> HIDE DEF s, e
<1>8. Numbered'
  <2>1. \A r \in Signal : handlerv'[r].n <= sets' /\ (handlerv'[r].n = 0 <=> handlerv'[r].kind = "dfl")
    BY <1>1, <1>3, <1>5 DEF SigInv, SigTypes, Numbered
  <2>2. ASSUME NEW r \in Signal, NEW q \in Signal, handlerv'[r].n = handlerv'[q].n, r # q
        PROVE  handlerv'[r].n = 0
    <3>1. r # s => handlerv'[r].n <= sets /\ handlerv'[r].n \in Nat
      BY <1>3 DEF SigInv, SigTypes, Numbered
    <3>2. q # s => handlerv'[q].n <= sets /\ handlerv'[q].n \in Nat
      BY <1>3 DEF SigInv, SigTypes, Numbered
    <3>3. r # s /\ q # s
      BY <1>3, <1>5, <2>2, <3>1, <3>2
    <3> QED
      BY <1>3, <2>2, <3>3 DEF SigInv, Numbered
  <2> QED
    BY <2>1, <2>2 DEF Numbered
<1>9. Holding'
  <2>1. \A r \in Handler : r # t
    BY DEF Proper
  <2> QED
    BY <1>1, <1>4, <1>6, <2>1 DEF SigInv, Holding
<1>10. Fresh'
  <2>1. ASSUME NEW r \in Signal, handlerv'[r].n > 0, ran'[handlerv'[r].n] > 0
        PROVE  FALSE
    <3>1. r # s
      <4>1. ran[sets + 1] = 0
        BY <1>5 DEF SigInv, Fresh
      <4> QED
        BY <1>1, <1>3, <1>5, <2>1, <4>1
    <3> QED
      BY <1>1, <1>3, <2>1, <3>1 DEF SigInv, Fresh
  <2>2. \A n \in 1..MaxSets : ran'[n] <= 1 /\ (n > sets' => ran'[n] = 0)
    BY <1>1, <1>5 DEF SigInv, Fresh
  <2> QED
    BY <2>1, <2>2 DEF Fresh
<1> QED
  BY <1>7, <1>8, <1>9, <1>10 DEF SigInv

(* Every step of the signal code keeps the invariant.                      *)
LEMMA SigStep == ASSUME Proper PROVE SigInv /\ [Sig!Next]_(Sig!vars) => SigInv'
<1> SUFFICES ASSUME SigInv, [Sig!Next]_(Sig!vars) PROVE SigInv'
  OBVIOUS
<1>1. CASE UNCHANGED Sig!vars
  BY <1>1 DEF SigInv, SigTypes, Numbered, Holding, Fresh, Sig!vars
<1>2. ASSUME NEW t \in Handler, NEW s \in Signal, Sig!_sigwrap(t, s)
      PROVE  SigInv'
  <2> DEFINE d == "raise"
  <2>1. d \in {"raise", "signal"} /\ d # "signal"
    OBVIOUS
  <2>2. at[t] = Sig!Idle /\ at' = [at EXCEPT ![t] = [does |-> d, sig |-> s]]
        /\ UNCHANGED <<handlerv, mutex, sets, ran, ended>>
    BY <1>2 DEF Sig!_sigwrap
  <2> HIDE DEF d
  <2> QED
    BY <2>1, <2>2, Sigwrap, Zenon
<1>3. ASSUME NEW t \in Program, NEW s \in Signal, Sig!signal_call(t, s)
      PROVE  SigInv'
  <2> DEFINE d == "signal"
  <2>1. d \in {"raise", "signal"}
    OBVIOUS
  <2>2. at[t] = Sig!Idle /\ at' = [at EXCEPT ![t] = [does |-> d, sig |-> s]]
        /\ UNCHANGED <<handlerv, mutex, sets, ran, ended>>
    BY <1>3 DEF Sig!signal_call
  <2> HIDE DEF d
  <2> QED
    BY <2>1, <2>2, Sigwrap, Zenon
<1> QED
  BY <1>1, <1>2, <1>3, Raise, Reset, SignalSets DEF Sig!Next

(* The invariant of the signal code holds in every reachable state.        *)
LEMMA SigAlways == ASSUME Proper PROVE Sig!Spec => []SigInv
<1>1. SigInv /\ [Sig!Next]_(Sig!vars) => SigInv'
  BY SigStep
<1> QED
  BY <1>1, SigInit, PTL DEF Sig!Spec

(* A handler that is installed runs once at most, whatever signals come    *)
(* while it runs and whatever else is installed (__raise.c:33-37).         *)
THEOREM HandlersRunOnce == ASSUME Proper PROVE Sig!Spec => []Sig!Once
<1>1. SigInv => Sig!Once
  BY DEF SigInv, Fresh, Sig!Once
<1> QED
  BY <1>1, SigAlways, PTL

(* The handler of the signal whose thread holds the mutex is still the one *)
(* that was called.                                                        *)
Called ==
  mutex # NULL => LET n == handlerv[at[mutex].sig].n IN n > 0 => ran[n] = 1

(* Every step of the signal code keeps that, since the table changes only  *)
(* while the mutex is free or in the hands of the thread that resets.      *)
LEMMA CalledStep == ASSUME Proper PROVE SigInv /\ Called /\ [Sig!Next]_(Sig!vars) => Called'
<1> SUFFICES ASSUME SigInv, Called, [Sig!Next]_(Sig!vars) PROVE Called'
  OBVIOUS
<1>1. CASE UNCHANGED Sig!vars
  BY <1>1 DEF Called, Sig!vars
<1>2. ASSUME NEW t \in Handler \cup Program, at[t].does = "idle", mutex # t,
             NEW v, at' = [at EXCEPT ![t] = v], UNCHANGED <<handlerv, mutex, ran>>
      PROVE  Called'
  BY <1>2 DEF Called, SigInv, SigTypes
<1>3. \A t \in Handler \cup Program : at[t] = Sig!Idle => at[t].does = "idle" /\ mutex # t
  BY DEF SigInv, Holding, Sig!Idle, Proper
<1>4. ASSUME NEW t \in Handler, NEW s \in Signal, Sig!_sigwrap(t, s)
      PROVE  Called'
  BY <1>2, <1>3, <1>4 DEF Sig!_sigwrap
<1>5. ASSUME NEW t \in Program, NEW s \in Signal, Sig!signal_call(t, s)
      PROVE  Called'
  BY <1>2, <1>3, <1>5 DEF Sig!signal_call
<1>6. ASSUME NEW t \in Handler, Sig!__raise(t)
      PROVE  Called'
  <2> DEFINE h == handlerv[at[t].sig]
  <2>1. /\ at[t].does = "raise" /\ mutex = NULL /\ mutex' = t /\ handlerv' = handlerv
        /\ ran' = [ran EXCEPT ![h.n] = IF h.n = 0 THEN 0 ELSE @ + 1]
    BY <1>6 DEF Sig!__raise
  <2>2. at'[t].sig = at[t].sig /\ at[t].sig \in Signal
    BY <1>6, <2>1 DEF Sig!__raise, SigInv, SigTypes, Holding
  <2>3. h.n \in 0..MaxSets
    BY <2>2 DEF SigInv, SigTypes
  <2>4. h.n > 0 => ran[h.n] = 0
    BY <2>1, <2>2, <2>3 DEF SigInv, SigTypes, Fresh
  <2>5. h.n > 0 => ran'[h.n] = 1
    BY <2>1, <2>3, <2>4 DEF SigInv, SigTypes
  <2> QED
    BY <2>1, <2>2, <2>5 DEF Called
<1>7. ASSUME NEW t \in Handler, Sig!__raise_reset(t)
      PROVE  Called'
  BY <1>7 DEF Sig!__raise_reset, Called
<1>8. ASSUME NEW t \in Program, NEW k \in Sig!Kinds, Sig!signal(t, k)
      PROVE  Called'
  BY <1>8 DEF Sig!signal, Called
<1> QED
  BY <1>1, <1>4, <1>5, <1>6, <1>7, <1>8 DEF Sig!Next

(* A handler leaves the table by a reset only after it has run: what the   *)
(* program installs while a handler of the same signal runs is not lost to *)
(* the reset that follows, also when handlers install handlers             *)
(* (__raise.c:33-37, signal.c:46).                                         *)
THEOREM HandlersKept == ASSUME Proper PROVE Sig!Spec => Sig!NotLost
<1>1. Sig!Init => Called
  BY DEF Sig!Init, Called
<1>2. SigInv /\ Called /\ [Sig!Next]_(Sig!vars) => Called'
  BY CalledStep
<1>3. SigInv /\ Called /\ [Sig!Next]_(Sig!vars) => [Sig!ResetsOnlyRun]_(Sig!vars)
  <2> SUFFICES ASSUME SigInv, Called, Sig!Next,
                      NEW s \in Signal, handlerv[s].n > 0, handlerv'[s].n = 0
               PROVE  ran[handlerv[s].n] = 1
    BY DEF Sig!ResetsOnlyRun
  <2>1. handlerv' # handlerv
    OBVIOUS
  <2>2. ASSUME NEW t \in Handler, Sig!__raise_reset(t)
        PROVE  ran[handlerv[s].n] = 1
    <3>1. at[t].does = "handler" /\ handlerv' = [handlerv EXCEPT ![at[t].sig] = Sig!Default]
      BY <2>2 DEF Sig!__raise_reset
    <3>2. mutex = t /\ t # NULL /\ at[t].sig \in Signal
      BY <3>1 DEF SigInv, Holding, Proper
    <3>3. s = at[t].sig
      BY <3>1, <3>2 DEF SigInv, SigTypes
    <3> QED
      BY <3>2, <3>3 DEF Called
  <2>3. ASSUME NEW t \in Program, NEW k \in Sig!Kinds, Sig!signal(t, k)
        PROVE  FALSE
    <3> DEFINE e == [kind |-> k, n |-> sets + 1]
    <3>1. handlerv' = [handlerv EXCEPT ![at[t].sig] = e] /\ e.n = sets + 1
      BY <2>3 DEF Sig!signal
    <3>2. e.n # 0
      BY <3>1 DEF SigInv, SigTypes, Proper
    <3> HIDE DEF e
    <3>3. handlerv'[s] = e \/ handlerv'[s] = handlerv[s]
      BY <3>1 DEF SigInv, SigTypes
    <3> QED
      BY <3>2, <3>3
  <2> QED
    BY <2>1, <2>2, <2>3 DEF Sig!Next, Sig!_sigwrap, Sig!__raise, Sig!signal_call
<1> QED
  BY <1>1, <1>2, <1>3, SigAlways, PTL DEF Sig!Spec, Sig!NotLost

=============================================================================
