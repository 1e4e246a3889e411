---------------------------- MODULE FramesProofs ----------------------------
(***************************************************************************)
(* The reference counts of frames are exact and processes are isolated,    *)
(* for any number of processes, pages and frames, as long as callers keep  *)
(* to what libc and dl do (Lawful).                                        *)
(***************************************************************************)
EXTENDS FramesLemmas

(* The time, in seconds, that each prover has for a leaf.                  *)
USE ZenonT(4), SMTT(20), ZenonT(30)

(* What the kernel does not withstand, and nothing in libc or dl does:     *)
(* linked pages across fork(), fork() with a packet, a region that is its  *)
(* own source, a packet for a process without a handler.                   *)
Lawful ==
  /\ Calls = {} /\ Deaf = {}
  /\ \A perm \in Perms : "link" \notin perm

-----------------------------------------------------------------------------
(* The invariant.                                                          *)

Types ==
  /\ mem \in Memory
  /\ tab \in [Proc -> Table]
  /\ space \in [Proc -> AnyFrame \cup {None}]
  /\ busy \in [Proc -> BOOLEAN]
  /\ msg \in [Proc -> Packets]

ExactFor(m, T, S, M) == Sound(m) /\ \A f \in Frame : m.refc[f] = Refs(T, S, M, f)

(* A process that is gone has no pages, and only a thread has a packet;    *)
(* the first process is never gone.                                        *)
Clean ==
  /\ Live(First)
  /\ \A p \in Proc :
       /\ ~Live(p) => tab[p] = NoPages /\ ~busy[p]
       /\ ~busy[p] => msg[p] = <<>>

Inv == Types /\ (~Panic => ExactFor(mem, tab, space, msg) /\ Clean)

(* What Isolated asks of a step.                                           *)
Apart ==
  \A p \in Proc : Has(tab'[p]) \subseteq Has(tab[p]) \cup Unused(mem) \cup Frames(msg[p])

(* The references to frames that are not from the pages of p.              *)
Own(d, k, rest) == [f \in Frame |-> Same(d, f) + Pending(k, 0, f) + rest[f]]
RestOf(p, T, S, M) == [f \in Frame |-> Rest(p, T, S, M, f)]

(* A step of one process leaves the references of all the others as they   *)
(* are.                                                                    *)
LEMMA RestOfSame ==
  ASSUME NEW p \in Proc, NEW T, NEW S, NEW M, NEW T2, NEW S2, NEW M2,
         Agree(p, T, S, M, T2, S2, M2)
  PROVE  RestOf(p, T2, S2, M2) = RestOf(p, T, S, M)
<1>1. \A f : Rest(p, T2, S2, M2, f) = Rest(p, T, S, M, f)
  BY RestSame
<1> QED
  BY <1>1 DEF RestOf

(* What a process owes with a packet at hand, written as the debts of that *)
(* packet.                                                                 *)
LEMMA OwnIs ==
  ASSUME NEW d, NEW k \in Packets, NEW rest \in [Frame -> Nat]
  PROVE  /\ Own(d, k, rest) \in [Frame -> Nat]
         /\ Own(d, <<>>, rest) \in [Frame -> Nat]
         /\ Own(d, k, rest) = Owed(Own(d, <<>>, rest), k, 0)
<1>1. k \in Seq(OwnEntry) /\ <<>> \in Seq(OwnEntry) /\ Len(<<>>) = 0
  BY DEF Packets
<1>2. \A f : Pending(k, 0, f) \in Nat /\ Pending(<<>>, 0, f) \in Nat
  BY <1>1, PendingIs, Zenon
<1>3. \A f : Same(d, f) \in Nat
  BY DEF Same
<1>4. \A f : Pending(<<>>, 0, f) = 0
  <2>1. \A f : {i \in 0 + 1..0 : <<>>[i].frame = f} = {}
    OBVIOUS
  <2> QED
    BY <1>1, <2>1, FS_EmptySet DEF Pending
<1>5. \A f \in Frame : Own(d, <<>>, rest)[f] = Same(d, f) + rest[f]
  BY <1>3, <1>4 DEF Own
<1>6. \A f \in Frame : rest[f] \in Nat
  OBVIOUS
<1>7. \A f \in Frame : Same(d, f) + Pending(k, 0, f) + rest[f] = Own(d, <<>>, rest)[f] + Pending(k, 0, f)
  BY <1>2, <1>3, <1>5, <1>6
<1> QED
  BY <1>2, <1>3, <1>6, <1>7 DEF Own, Owed

(* The counts of all processes and the books of one.                       *)
LEMMA BooksOf ==
  ASSUME NEW m \in Memory, NEW T \in [Proc -> Table], NEW S, NEW M \in [Proc -> Packets], NEW p \in Proc
  PROVE  /\ RestOf(p, T, S, M) \in [Frame -> Nat]
         /\ ExactFor(m, T, S, M)
              <=> Books([m |-> m, t |-> T[p]], Own(S[p], M[p], RestOf(p, T, S, M)))
<1> DEFINE s == [m |-> m, t |-> T[p]]
           x == Own(S[p], M[p], RestOf(p, T, S, M))
<1>1. RestOf(p, T, S, M) \in [Frame -> Nat]
  BY Split, Zenon DEF RestOf
<1>2. M[p] \in Packets /\ s \in State /\ s.m = m /\ s.t = T[p]
  BY DEF State
<1>3. x \in [Frame -> Nat]
  BY <1>1, <1>2, OwnIs, Zenon
<1>4. ASSUME NEW f \in Frame
      PROVE  Refs(T, S, M, f) = Cardinality(Uses(T[p], f)) + x[f]
  <2>1. x[f] = Same(S[p], f) + Pending(M[p], 0, f) + Rest(p, T, S, M, f)
    BY DEF Own, RestOf
  <2> HIDE DEF x
  <2> QED
    BY <2>1, Split
<1> HIDE DEF x
<1>5. ExactFor(m, T, S, M) <=> Books(s, x)
  BY <1>2, <1>3, <1>4 DEF ExactFor, Books
<1> QED
  BY <1>1, <1>5, SMTT(30) DEF x

(* The references counted by the properties are the ones the books count.  *)
LEMMA RefsAre == \A f : References(f) = Refs(tab, space, msg, f)
  BY DEF References, Refs, InTables, InSpaces, InPackets

(* A call of p: its end, when its books balance.                           *)
LEMMA Ends ==
  ASSUME Inv, ~Panic, NEW p \in Proc, NEW s, NEW d \in AnyFrame \cup {None}, NEW b \in BOOLEAN,
         NEW k \in Packets,
         Books(s, Own(d, k, RestOf(p, tab, space, msg))),
         Commit(p, s), space' = [space EXCEPT ![p] = d], busy' = [busy EXCEPT ![p] = b],
         msg' = [msg EXCEPT ![p] = k],
         d = None => s.t = NoPages /\ ~b /\ p # First,
         ~b => k = <<>>,
         Has(s.t) \subseteq Has(tab[p]) \cup Unused(mem) \cup Frames(msg[p])
  PROVE  Inv' /\ Apart
<1>1. Types /\ ExactFor(mem, tab, space, msg) /\ Clean
  BY SMTT(30) DEF Inv
<1>2. s \in State /\ s.m \in Memory /\ s.t \in Table
  BY DEF Books, State
<1>3. space' \in [Proc -> AnyFrame \cup {None}] /\ busy' \in [Proc -> BOOLEAN] /\ msg' \in [Proc -> Packets]
  BY <1>1 DEF Types
<1>4. CASE s.m.pool = 0
  <2>1. mem' = [mem EXCEPT !.pool = 0] /\ tab' = tab
    BY <1>4, SMTT(30) DEF Commit
  <2>2. mem' \in Memory /\ mem'.pool = 0
    <3>1. mem \in Memory /\ 0 \in 0..PoolMax
      BY <1>1, FramesAssumption DEF Types
    <3>2. mem' = [list |-> mem.list, refc |-> mem.refc, oom |-> mem.oom, pool |-> 0]
      BY <2>1, <3>1, SMTT(30) DEF Memory
    <3> QED
      BY <3>1, <3>2, Fields, Zenon DEF Memory
  <2>3. Panic'
    BY <2>2, SMTT(30) DEF Panic
  <2> QED
    BY <1>1, <1>3, <2>1, <2>2, <2>3 DEF Inv, Types, Apart
<1>5. CASE s.m.pool # 0
  <2>1. mem' = s.m /\ tab' = [tab EXCEPT ![p] = s.t]
    BY <1>5 DEF Commit
  <2>2. tab' \in [Proc -> Table] /\ tab'[p] = s.t /\ space'[p] = d /\ msg'[p] = k /\ busy'[p] = b
    BY <1>1, <1>2, <2>1 DEF Types
  <2>3. \A q \in Proc \ {p} : tab'[q] = tab[q] /\ space'[q] = space[q] /\ msg'[q] = msg[q] /\ busy'[q] = busy[q]
    BY <1>1, <2>1, SMTT(30) DEF Types
  <2>4. RestOf(p, tab', space', msg') = RestOf(p, tab, space, msg)
    <3>1. Agree(p, tab, space, msg, tab', space', msg')
      BY <2>3 DEF Agree
    <3> QED
      BY <3>1, RestOfSame
  <2>5. s = [m |-> mem', t |-> tab'[p]]
    BY <1>2, <2>1, <2>2 DEF State
  <2>6. ExactFor(mem', tab', space', msg')
    <3>1. mem' \in Memory /\ tab' \in [Proc -> Table] /\ msg' \in [Proc -> Packets]
      BY <1>2, <1>3, <2>1, <2>2
    <3>2. Books([m |-> mem', t |-> tab'[p]], Own(space'[p], msg'[p], RestOf(p, tab', space', msg')))
      BY <2>2, <2>4, <2>5
    <3> QED
      BY <3>1, <3>2, BooksOf, Zenon
  <2>7. Clean'
    BY <1>1, <2>2, <2>3, SMTT(30) DEF Clean, Live
  <2>8. Apart
    BY <2>2, <2>3, SMTT(30) DEF Apart
  <2> QED
    BY <1>2, <1>3, <2>1, <2>2, <2>6, <2>7, <2>8, Zenon DEF Inv, Types
<1> QED
  BY <1>4, <1>5, SMTT(30)

-----------------------------------------------------------------------------
(* One lemma for each system call.                                         *)

(* In a state of the invariant the books of each process balance against   *)
(* the rest of the system.                                                 *)
LEMMA Starts ==
  ASSUME Inv, ~Panic, NEW p \in Proc
  PROVE  /\ RestOf(p, tab, space, msg) \in [Frame -> Nat]
         /\ Books(At(p), Own(space[p], msg[p], RestOf(p, tab, space, msg)))
         /\ At(p).t = tab[p] /\ At(p).m = mem
         /\ msg[p] \in Packets /\ tab[p] \in Table /\ space[p] \in AnyFrame \cup {None} /\ busy[p] \in BOOLEAN
<1>1. Types /\ ExactFor(mem, tab, space, msg)
  BY DEF Inv
<1>2. mem \in Memory /\ tab \in [Proc -> Table] /\ msg \in [Proc -> Packets]
  BY <1>1 DEF Types
<1>3. At(p) = [m |-> mem, t |-> tab[p]]
  BY DEF At
<1>4. msg[p] \in Packets /\ tab[p] \in Table /\ space[p] \in AnyFrame \cup {None} /\ busy[p] \in BOOLEAN
  BY <1>1 DEF Types
<1>5. /\ RestOf(p, tab, space, msg) \in [Frame -> Nat]
      /\ Books([m |-> mem, t |-> tab[p]], Own(space[p], msg[p], RestOf(p, tab, space, msg)))
  BY <1>1, <1>2, BooksOf, Zenon
<1> QED
  BY <1>3, <1>4, <1>5, SMTT(30)

(* A call of p that leaves its threads and messages alone.                 *)
LEMMA EndsPlain ==
  ASSUME Inv, ~Panic, NEW p \in Proc, Live(p), NEW s,
         Books(s, Own(space[p], msg[p], RestOf(p, tab, space, msg))),
         Commit(p, s), UNCHANGED <<space, busy, msg>>,
         Has(s.t) \subseteq Has(tab[p]) \cup Unused(mem) \cup Frames(msg[p])
  PROVE  Inv' /\ Apart
<1> DEFINE d == space[p]
           b == busy[p]
           k == msg[p]
<1>1. Types /\ Clean
  BY Zenon DEF Inv
<1>2. space' = [space EXCEPT ![p] = d] /\ busy' = [busy EXCEPT ![p] = b] /\ msg' = [msg EXCEPT ![p] = k]
  BY <1>1 DEF Types
<1>3. d \in AnyFrame \cup {None} /\ b \in BOOLEAN /\ k \in Packets /\ d # None
  BY <1>1, SMTT(30) DEF Types, Live
<1>4. ~b => k = <<>>
  BY <1>1, SMTT(30) DEF Clean
<1>5. Books(s, Own(d, k, RestOf(p, tab, space, msg)))
  OBVIOUS
<1> HIDE DEF d, b, k
<1> QED
  BY <1>2, <1>3, <1>4, <1>5, Ends, Zenon

Region(a, n) == a \in Nat /\ n \in Nat /\ a + n <= Pages

(* The regions a process may name lie within its address space.            *)
LEMMA RegionsAre ==
  ASSUME NEW r \in Regions
  PROVE  Region(r[1], r[2])
  BY FramesAssumption, SMTT(30) DEF Regions, Region

(* The calls whose steps are plain.                                        *)
LEMMA PlainCall ==
  ASSUME Inv, ~Panic, NEW p \in Proc, Live(p), NEW work, Len(work) \in Nat,
         \A i \in 1..Len(work) : Steps(work[i]),
         Commit(p, Loop(At(p), work)), UNCHANGED <<space, busy, msg>>
  PROVE  Inv' /\ Apart
<1> DEFINE x == Own(space[p], msg[p], RestOf(p, tab, space, msg))
<1>1. Books(At(p), x) /\ At(p).t = tab[p]
  BY Starts, Zenon
<1> HIDE DEF x
<1>2. Books(Loop(At(p), work), x) /\ Has(Loop(At(p), work).t) \subseteq Has(At(p).t)
  BY <1>1, PlainLoop, Zenon
<1> QED
  BY <1>1, <1>2, EndsPlain, Zenon DEF x

(* page_null keeps the inductive invariant; a table gets only unused       *)
(* frames and those of its own packet.                                     *)
LEMMA PageNull ==
  ASSUME Inv, ~Panic, NEW p \in Proc, NEW a, NEW n, Region(a, n), page_null(p, a, n)
  PROVE  Inv' /\ Apart
<1> DEFINE work == Freeing(a, n)
<1>1. Len(work) = n /\ n \in Nat /\ \A i \in 1..n : work[i] = [do |-> "free", page |-> a + i - 1]
  BY DEF Freeing, Region
<1>2. \A i \in 1..n : a + i - 1 \in Page
  BY FramesAssumption, SMTT(30) DEF Region, Page
<1> HIDE DEF work
<1>3. \A i \in 1..n : Steps(work[i])
  BY <1>1, <1>2 DEF Steps
<1> QED
  BY <1>1, <1>3, PlainCall, Zenon DEF page_null, work

(* page_phys keeps the inductive invariant; a table gets only unused       *)
(* frames and those of its own packet.                                     *)
LEMMA PagePhys ==
  ASSUME Inv, ~Panic, NEW p \in Proc, NEW a, NEW n, Region(a, n), page_phys(p, a, n)
  PROVE  Inv' /\ Apart
<1> DEFINE work == [i \in 1..n |-> [do |-> "put", page |-> a + i - 1,
                                    frame |-> Uncounted, perm |-> {"rw"}]]
<1>1. Len(work) = n /\ n \in Nat /\ \A i \in 1..n : a + i - 1 \in Page
  BY FramesAssumption DEF Region, Page
<1>2. \A i \in 1..n : work[i] = [do |-> "put", page |-> a + i - 1, frame |-> Uncounted, perm |-> {"rw"}]
  OBVIOUS
<1>3. Commit(p, Loop(At(p), work)) /\ UNCHANGED <<space, busy, msg>> /\ p = First
  BY SMTT(30) DEF page_phys
<1>4. Live(p)
  BY <1>3, Zenon DEF Inv, Clean
<1> HIDE DEF work
<1>5. {"rw"} \in SUBSET {"rw", "lock"}
  OBVIOUS
<1>6. \A i \in 1..n : Steps(work[i])
  BY <1>1, <1>2, <1>5 DEF Steps
<1> QED
  BY <1>1, <1>3, <1>4, <1>6, PlainCall, SMTT(30)

(* page_prot keeps the inductive invariant; a table gets only unused       *)
(* frames and those of its own packet.                                     *)
LEMMA PageProt ==
  ASSUME Lawful, Inv, ~Panic, NEW p \in Proc, NEW a, NEW n, Region(a, n),
         NEW perm \in Perms, page_prot(p, a, n, perm)
  PROVE  Inv' /\ Apart
<1> DEFINE work == [i \in 1..n |-> [do |-> "prot", page |-> a + i - 1, perm |-> perm]]
<1>1. Len(work) = n /\ n \in Nat /\ \A i \in 1..n : a + i - 1 \in Page
  BY FramesAssumption DEF Region, Page
<1>2. \A i \in 1..n : work[i] = [do |-> "prot", page |-> a + i - 1, perm |-> perm]
  OBVIOUS
<1>3. Commit(p, Loop(At(p), work)) /\ UNCHANGED <<space, busy, msg>> /\ Live(p)
  BY DEF page_prot
<1>4. perm \in SUBSET {"rw", "lock"}
  BY FramesAssumption, SMTT(30) DEF Lawful
<1> HIDE DEF work
<1>6. \A i \in 1..n : Steps(work[i])
  BY <1>1, <1>2, <1>4, Zenon DEF Steps
<1> QED
  BY <1>1, <1>3, <1>6, PlainCall

(* page_self keeps the inductive invariant; a table gets only unused       *)
(* frames and those of its own packet.                                     *)
LEMMA PageSelf ==
  ASSUME Lawful, Inv, ~Panic, NEW p \in Proc, NEW a, NEW n, Region(a, n),
         NEW off \in 0..Pages - n, page_self(p, a, n, off)
  PROVE  Inv' /\ Apart
<1> DEFINE work == [i \in 1..n |-> [do |-> "copy", page |-> a + i - 1, from |-> off + i - 1]]
<1>1. Len(work) = n /\ n \in Nat
  BY DEF Region
<1>2. \A i \in 1..n : work[i] = [do |-> "copy", page |-> a + i - 1, from |-> off + i - 1]
  OBVIOUS
<1>3. Commit(p, Loop(At(p), work)) /\ UNCHANGED <<space, busy, msg>> /\ Live(p) /\ a # off
  BY DEF page_self, Lawful
<1>4. \A i \in 1..n : a + i - 1 \in Page /\ off + i - 1 \in Page /\ a + i - 1 # off + i - 1
  BY <1>3, FramesAssumption, SMTT(30) DEF Region, Page
<1> HIDE DEF work
<1>6. \A i \in 1..n : Steps(work[i])
  BY <1>1, <1>2, <1>4, SMTT(30) DEF Steps
<1> QED
  BY <1>1, <1>3, <1>6, PlainCall

(* A call that only maps pages anew keeps the invariant, and its frames    *)
(* were its own or unused.                                                 *)
LEMMA TakeCall ==
  ASSUME Inv, ~Panic, NEW p \in Proc, Live(p), NEW work, Len(work) \in Nat,
         \A i \in 1..Len(work) : Takes(work[i]),
         Commit(p, Loop(At(p), work)), UNCHANGED <<space, busy, msg>>
  PROVE  Inv' /\ Apart
<1> DEFINE x == Own(space[p], msg[p], RestOf(p, tab, space, msg))
<1>1. Books(At(p), x) /\ At(p).t = tab[p] /\ At(p).m = mem
  BY Starts, Zenon
<1> HIDE DEF x
<1>2. Books(Loop(At(p), work), x) /\ Has(Loop(At(p), work).t) \subseteq Has(At(p).t) \cup Unused(At(p).m)
  BY <1>1, TakeLoop, Zenon
<1> QED
  BY <1>1, <1>2, EndsPlain, Zenon DEF x

(* page_anon keeps the inductive invariant; a table gets only unused       *)
(* frames and those of its own packet.                                     *)
LEMMA PageAnon ==
  ASSUME Inv, ~Panic, NEW p \in Proc, NEW a, NEW n, Region(a, n), page_anon(p, a, n)
  PROVE  Inv' /\ Apart
<1> DEFINE work == [i \in 1..n |-> [do |-> "alloc", page |-> a + i - 1, perm |-> {"rw"}]]
<1>1. Len(work) = n /\ n \in Nat /\ \A i \in 1..n : a + i - 1 \in Page
  BY FramesAssumption DEF Region, Page
<1>2. \A i \in 1..n : work[i] = [do |-> "alloc", page |-> a + i - 1, perm |-> {"rw"}]
  OBVIOUS
<1>3. Commit(p, Loop(At(p), work)) /\ UNCHANGED <<space, busy, msg>> /\ Live(p)
  BY SMTT(30) DEF page_anon
<1> HIDE DEF work
<1>5. {"rw"} \in SUBSET {"rw", "lock"}
  OBVIOUS
<1>6. \A i \in 1..n : Takes(work[i])
  BY <1>1, <1>2, <1>5, SMTT(30) DEF Takes
<1> QED
  BY <1>1, <1>3, <1>6, TakeCall, SMTT(30)

(* fault_page keeps the inductive invariant; a table gets only unused      *)
(* frames and those of its own packet.                                     *)
LEMMA FaultPage ==
  ASSUME Inv, ~Panic, NEW p \in Proc, fault_page(p)
  PROVE  Inv' /\ Apart
<1> DEFINE x == Own(space[p], msg[p], RestOf(p, tab, space, msg))
           s == mem_alloc(At(p), Stack, {"rw"})
<1>1. Books(At(p), x) /\ At(p).t = tab[p] /\ At(p).m = mem
  BY Starts
<1>2. Stack \in Page /\ {"rw"} \in SUBSET {"rw", "lock"}
  BY FramesAssumption, SMTT(30) DEF Stack, Page
<1> HIDE DEF x
<1>3. Books(s, x) /\ Has(s.t) \subseteq Has(At(p).t) \cup Unused(At(p).m)
  BY <1>1, <1>2, AllocStep
<1>4. Live(p) /\ Commit(p, s) /\ UNCHANGED <<space, busy, msg>>
  BY SMTT(30) DEF fault_page
<1> HIDE DEF s
<1> QED
  BY <1>1, <1>3, <1>4, EndsPlain, Zenon DEF x

(* The references of p without its packet: when the packet is dropped or   *)
(* mapped, page by page, these are what is left.                           *)
LEMMA StartsWith ==
  ASSUME Inv, ~Panic, NEW p \in Proc
  PROVE  LET base == Own(space[p], <<>>, RestOf(p, tab, space, msg))
         IN /\ base \in [Frame -> Nat]
            /\ Books(At(p), Owed(base, msg[p], 0))
            /\ msg[p] \in Seq(OwnEntry)
<1> DEFINE rest == RestOf(p, tab, space, msg)
<1>1. rest \in [Frame -> Nat] /\ msg[p] \in Packets /\ Books(At(p), Own(space[p], msg[p], rest))
  BY Starts, SMTT(30)
<1> HIDE DEF rest
<1>2. /\ Own(space[p], <<>>, rest) \in [Frame -> Nat]
      /\ Own(space[p], msg[p], rest) = Owed(Own(space[p], <<>>, rest), msg[p], 0)
  BY <1>1, OwnIs, SMTT(30)
<1>3. msg[p] \in Seq(OwnEntry)
  BY <1>1 DEF Packets
<1> QED
  BY <1>1, <1>2, <1>3, Zenon DEF rest

(* No packet at all counts as an empty one.                                *)
LEMMA NoPacket == <<>> \in Packets
  BY FramesAssumption, SMTT(30) DEF Packets

(* page_pack keeps the inductive invariant; a table gets only unused       *)
(* frames and those of its own packet.                                     *)
LEMMA PagePack ==
  ASSUME Inv, ~Panic, NEW p \in Proc, NEW a, NEW n, Region(a, n), page_pack(p, a, n)
  PROVE  Inv' /\ Apart
<1> DEFINE pkt == msg[p]
           k == IF n > Len(pkt) THEN Len(pkt) ELSE n
           x == Own(space[p], <<>>, RestOf(p, tab, space, msg))
           s1 == Loop(At(p), Puts(pkt, a, k))
           s2 == Loop(s1, Dropping(pkt, k))
           d == space[p]
           b == busy[p]
<1>1. /\ Live(p) /\ busy[p] /\ Commit(p, s2)
      /\ msg' = [msg EXCEPT ![p] = <<>>] /\ UNCHANGED <<space, busy>>
  BY SMTT(30) DEF page_pack, Puts
<1>2. x \in [Frame -> Nat] /\ Books(At(p), Owed(x, pkt, 0)) /\ pkt \in Seq(OwnEntry)
  BY StartsWith, Zenon
<1>3. At(p).t = tab[p] /\ d \in AnyFrame \cup {None} /\ b \in BOOLEAN
  BY Starts, Zenon
<1>4. k \in 0..Len(pkt) /\ a \in Nat /\ a + k <= Pages
  BY <1>2, FramesAssumption DEF Region
<1>5. space' = [space EXCEPT ![p] = d] /\ busy' = [busy EXCEPT ![p] = b] /\ d # None
  BY <1>1 DEF Inv, Types, Live
<1>6. x = Own(d, <<>>, RestOf(p, tab, space, msg))
  OBVIOUS
<1> HIDE DEF x, k
<1>7. Books(s1, Owed(x, pkt, k)) /\ Has(s1.t) \subseteq Has(At(p).t) \cup Frames(pkt)
  BY <1>2, <1>4, PutLoop, Zenon
<1> HIDE DEF s1
<1>8. Books(s2, x) /\ s2.t = s1.t
  BY <1>2, <1>4, <1>7, DropLoop, Zenon
<1> HIDE DEF s2
<1>9. Has(s2.t) \subseteq Has(tab[p]) \cup Unused(mem) \cup Frames(msg[p])
  BY <1>3, <1>7, <1>8
<1> HIDE DEF d, b, pkt
<1>10. Books(s2, Own(d, <<>>, RestOf(p, tab, space, msg)))
  BY <1>6, <1>8, SMTT(30)
<1> QED
  BY <1>1, <1>3, <1>5, <1>9, <1>10, Ends, NoPacket, Zenon

(* The end of a thread for a message.                                      *)
LEMMA ThreadFree ==
  ASSUME Inv, ~Panic, NEW p \in Proc
  PROVE  /\ Books(thread_free(At(p), msg[p]), Own(space[p], <<>>, RestOf(p, tab, space, msg)))
         /\ Has(thread_free(At(p), msg[p]).t) \subseteq Has(tab[p])
<1> DEFINE pkt == msg[p]
           x == Own(space[p], <<>>, RestOf(p, tab, space, msg))
           s == Loop(At(p), Dropping(pkt, 0))
           r == mem_free(s, Stack)
<1>1. x \in [Frame -> Nat] /\ Books(At(p), Owed(x, pkt, 0)) /\ pkt \in Seq(OwnEntry)
  BY StartsWith, SMTT(30)
<1>2. At(p).t = tab[p]
  BY Starts, SMTT(30)
<1>3. Stack \in Page /\ 0 \in 0..Len(pkt)
  BY <1>1, FramesAssumption DEF Stack, Page
<1> HIDE DEF x
<1>4. Books(s, x) /\ s.t = At(p).t
  BY <1>1, <1>3, DropLoop, Zenon
<1>5. thread_free(At(p), msg[p]) = r
  BY DEF thread_free
<1> HIDE DEF s
<1>6. Books(r, x) /\ r.t = [s.t EXCEPT ![Stack] = Empty]
  BY <1>3, <1>4, FreeStep, SMTT(30)
<1>7. Has(r.t) \subseteq Has(s.t) \cup ({Empty.frame} \cap Frame)
  BY <1>3, <1>4, <1>6, HasSet DEF Books, State
<1>8. Empty.frame \notin Frame
  BY FramesAssumption, SMTT(30) DEF Empty
<1> HIDE DEF r
<1> QED
  BY <1>2, <1>4, <1>5, <1>6, <1>7, <1>8, Zenon DEF x

(* syscall_done keeps the inductive invariant; a table gets only unused    *)
(* frames and those of its own packet.                                     *)
LEMMA SyscallDone ==
  ASSUME Inv, ~Panic, NEW p \in Proc, syscall_done(p)
  PROVE  Inv' /\ Apart
<1> DEFINE s == thread_free(At(p), msg[p])
           d == space[p]
<1>1. /\ Live(p) /\ Commit(p, s) /\ UNCHANGED space
      /\ busy' = [busy EXCEPT ![p] = FALSE] /\ msg' = [msg EXCEPT ![p] = <<>>]
  BY SMTT(30) DEF syscall_done
<1>2. Books(s, Own(d, <<>>, RestOf(p, tab, space, msg))) /\ Has(s.t) \subseteq Has(tab[p])
  BY ThreadFree, Zenon
<1>3. space' = [space EXCEPT ![p] = d] /\ d # None /\ d \in AnyFrame \cup {None}
  BY <1>1, SMTT(30) DEF Inv, Types, Live
<1> HIDE DEF s, d
<1> QED
  BY <1>1, <1>2, <1>3, Ends, NoPacket, Zenon

(* process_kill keeps the inductive invariant; a table gets only unused    *)
(* frames and those of its own packet.                                     *)
LEMMA ProcessKill ==
  ASSUME Inv, ~Panic, NEW p \in Proc, process_kill(p)
  PROVE  Inv' /\ Apart
<1> DEFINE rest == RestOf(p, tab, space, msg)
           y == Own(space[p], <<>>, rest)
           x == Own(None, <<>>, rest)
           s == IF busy[p] THEN thread_free(At(p), msg[p]) ELSE At(p)
           r == Loop(s, Freeing(0, Pages))
           q == [r EXCEPT !.m = frame_free(@, space[p])]
<1>1. /\ Live(p) /\ p # First /\ Commit(p, q)
      /\ space' = [space EXCEPT ![p] = None]
      /\ busy' = [busy EXCEPT ![p] = FALSE] /\ msg' = [msg EXCEPT ![p] = <<>>]
  BY SMTT(30) DEF process_kill, space_free
<1>2. Books(s, y) /\ rest \in [Frame -> Nat] /\ space[p] \in AnyFrame
  <2>1. rest \in [Frame -> Nat] /\ space[p] \in AnyFrame
    BY <1>1, Starts, SMTT(30) DEF Live
  <2>2. busy[p] => Books(s, y)
    BY ThreadFree, Zenon
  <2>3. ~busy[p] => Books(s, y)
    <3> SUFFICES ASSUME ~busy[p] PROVE Books(At(p), y)
      OBVIOUS
    <3>1. msg[p] = <<>>
      BY DEF Inv, Clean
    <3> QED
      BY <3>1, Starts, Zenon
  <2> QED
    BY <2>1, <2>2, <2>3
<1>3. x \in [Frame -> Nat] /\ OneMore(x, space[p], y)
  <2>1. x \in [Frame -> Nat] /\ y \in [Frame -> Nat]
    BY <1>2, OwnIs, NoPacket, Zenon
  <2>2. <<>> \in Seq(OwnEntry)
    OBVIOUS
  <2>3. \A g \in Frame : Same(None, g) = 0 /\ Same(space[p], g) \in Nat /\ Pending(<<>>, 0, g) \in Nat /\ rest[g] \in Nat
    BY <1>2, <2>2, PendingIs, FramesAssumption, Zenon DEF Same
  <2>4. \A g \in Frame : /\ y[g] = Same(space[p], g) + Pending(<<>>, 0, g) + rest[g]
                         /\ x[g] = Same(None, g) + Pending(<<>>, 0, g) + rest[g]
    BY DEF Own
  <2> HIDE DEF x, y, rest
  <2>5. \A g \in Frame : y[g] = x[g] + Same(space[p], g)
    BY <2>3, <2>4
  <2> QED
    BY <2>1, <2>5, SMTT(30) DEF OneMore
<1> HIDE DEF s, x, y
<1>4. Books(r, y) /\ r.t = NoPages
  BY <1>2, FreeLoop
<1> HIDE DEF r
<1>5. Books(q, x) /\ q.t = NoPages
  BY <1>2, <1>3, <1>4, DropStep, SMTT(30)
<1>6. Has(NoPages) = {}
  BY FramesAssumption DEF Has, NoPages, Empty
<1> HIDE DEF q
<1>7. Books(q, Own(None, <<>>, RestOf(p, tab, space, msg)))
  BY <1>5 DEF x, rest
<1>8. Has(q.t) \subseteq Has(tab[p]) \cup Unused(mem) \cup Frames(msg[p])
  BY <1>5, <1>6
<1> DEFINE d == None
<1>9. d \in AnyFrame \cup {None} /\ (d = None => q.t = NoPages /\ ~FALSE /\ p # First)
  BY <1>1, <1>5, SMTT(30)
<1> QED
  BY <1>1, <1>7, <1>8, <1>9, Ends, NoPacket, Zenon

(* syscall_fork keeps the inductive invariant; a table gets only unused    *)
(* frames and those of its own packet.                                     *)
LEMMA SyscallFork ==
  ASSUME Lawful, Inv, ~Panic, NEW p \in Proc, NEW c \in Proc, syscall_fork(p, c)
  PROVE  Inv' /\ Apart
<1> DEFINE rest == RestOf(c, tab, space, msg)
           d == fresh(mem)
           y == Own(space[c], <<>>, rest)
           x == Own(d, <<>>, rest)
           s == [m |-> frame_new(mem), t |-> NoPages]
           work == [i \in 1..Pages |-> [do |-> "clone", page |-> i - 1, entry |-> tab[p][i - 1]]]
           r == Loop(s, work)
<1>1. Live(p) /\ ~Live(c) /\ Commit(c, r)
      /\ space' = [space EXCEPT ![c] = d]
      /\ busy' = [busy EXCEPT ![c] = FALSE] /\ msg' = [msg EXCEPT ![c] = <<>>]
  BY Zenon DEF syscall_fork, space_clone, Lawful, NoPages
<1>2. tab[c] = NoPages /\ msg[c] = <<>> /\ space[c] = None
  BY <1>1 DEF Inv, Clean, Live
<1>3. Books(At(c), y) /\ At(c).t = NoPages /\ At(c).m = mem /\ rest \in [Frame -> Nat]
  BY <1>2, Starts, Zenon
<1>4. Taken(mem, d, frame_new(mem))
  BY FrameNew, SMTT(30) DEF Inv, ExactFor
<1>5. d \in AnyFrame /\ d # None /\ Sound(frame_new(mem)) /\ Unused(frame_new(mem)) \subseteq Unused(mem)
  BY <1>4, FramesAssumption, SMTT(30) DEF Taken, AnyFrame
<1>6. Books(s, x)
  <2>1. x \in [Frame -> Nat] /\ y \in [Frame -> Nat]
    BY <1>3, OwnIs, NoPacket, SMTT(30)
  <2>2. s \in State /\ s.m = frame_new(mem) /\ s.t = NoPages
    BY <1>3, <1>5, Zenon DEF State, Sound, Books
  <2>3. ASSUME NEW g \in Frame
        PROVE  frame_new(mem).refc[g] = Cardinality(Uses(NoPages, g)) + x[g]
    <3>1. frame_new(mem).refc[g] = mem.refc[g] + Same(d, g)
      BY <1>4, SMTT(30) DEF Taken
    <3>2. mem.refc[g] = Cardinality(Uses(NoPages, g)) + y[g]
      BY <1>3, Zenon DEF Books
    <3>3. Same(None, g) = 0 /\ Same(d, g) \in Nat /\ Pending(<<>>, 0, g) \in Nat /\ rest[g] \in Nat
      <4>1. <<>> \in Seq(OwnEntry)
        OBVIOUS
      <4> QED
        BY <1>3, <4>1, PendingIs, FramesAssumption, Zenon DEF Same
    <3>4. /\ y[g] = Same(None, g) + Pending(<<>>, 0, g) + rest[g]
          /\ x[g] = Same(d, g) + Pending(<<>>, 0, g) + rest[g]
      BY <1>2 DEF Own
    <3>5. Cardinality(Uses(NoPages, g)) \in Nat
      BY UsesIs, SMTT(30)
    <3> HIDE DEF x, y, rest, d
    <3> QED
      BY <3>1, <3>2, <3>3, <3>4, <3>5, SMTT(30)
  <2> HIDE DEF s, x
  <2> QED
    BY <1>5, <2>1, <2>2, <2>3, Zenon DEF Books
<1>7. Len(work) = Pages /\ Pages \in Nat /\ \A i \in 1..Pages : Takes(work[i])
  <2>1. Pages \in Nat /\ \A i \in 1..Pages : i - 1 \in Page
    BY FramesAssumption DEF Page
  <2>2. tab[p] \in Table
    BY DEF Inv, Types
  <2>3. \A i \in 1..Pages : tab[p][i - 1] \in OwnEntry \cup {Empty}
    BY <2>1, <2>2, SMTT(30) DEF Table
  <2>4. Len(work) = Pages /\ \A i \in 1..Pages : work[i] = [do |-> "clone", page |-> i - 1, entry |-> tab[p][i - 1]]
    BY <2>1, SMTT(30)
  <2> HIDE DEF work
  <2> QED
    BY <2>1, <2>3, <2>4 DEF Takes
<1>8. Has(s.t) = {} /\ s.m = frame_new(mem)
  BY FramesAssumption DEF Has, NoPages, Empty
<1> HIDE DEF s, work, x, d
<1>9. Books(r, x) /\ Has(r.t) \subseteq Has(s.t) \cup Unused(s.m)
  BY <1>6, <1>7, TakeLoop, SMTT(30)
<1> HIDE DEF r
<1>10. Has(r.t) \subseteq Has(tab[c]) \cup Unused(mem) \cup Frames(msg[c])
  BY <1>5, <1>8, <1>9, SMTT(30)
<1>11. Books(r, Own(d, <<>>, RestOf(c, tab, space, msg)))
  BY <1>9 DEF x
<1> QED
  BY <1>1, <1>5, <1>10, <1>11, Ends, NoPacket, Zenon

(* A region that is sent: the references move from the table to the        *)
(* packet.                                                                 *)
LEMMA Moved ==
  ASSUME NEW t \in Table, NEW a, NEW n, Region(a, n), \A v \in a..a + n - 1 : t[v] # Empty,
         NEW u, u = [v \in Page |-> IF v \in a..a + n - 1 THEN Empty ELSE t[v]],
         NEW k, k = [i \in 1..n |-> t[a + i - 1]]
  PROVE  /\ u \in Table /\ k \in Packets
         /\ \A f \in Frame : Cardinality(Uses(t, f)) = Cardinality(Uses(u, f)) + Pending(k, 0, f)
         /\ Has(u) \subseteq Has(t)
<1>1. a \in Nat /\ n \in Nat /\ a + n <= Pages /\ Pages \in Nat
  BY FramesAssumption DEF Region
<1>2. u \in Table
  BY DEF Table
<1>3. \A i \in 1..n : a + i - 1 \in Page /\ a + i - 1 \in a..a + n - 1
  BY <1>1 DEF Page
<1>4. \A i \in 1..n : t[a + i - 1] \in OwnEntry
  BY <1>3 DEF Table
<1>5. k \in Seq(OwnEntry) /\ Len(k) = n /\ \A i \in 1..n : k[i] = t[a + i - 1]
  BY <1>1, <1>4
<1>6. k \in Packets
  BY <1>1, <1>5, SMTT(30) DEF Packets
<1>7. ASSUME NEW f \in Frame
      PROVE  Cardinality(Uses(t, f)) = Cardinality(Uses(u, f)) + Pending(k, 0, f)
  <2> DEFINE K == {i \in 0 + 1..Len(k) : k[i].frame = f}
             D == {v \in a..a + n - 1 : t[v].frame = f}
             g == [i \in K |-> a + i - 1]
  <2>0. 0 \in Nat /\ 0 + 1..Len(k) = 1..n
    <3>1. 0 \in Nat /\ 0 + 1 = 1
      OBVIOUS
    <3>2. Len(k) = n
      BY <1>5, Zenon
    <3> QED
      BY <3>1, <3>2, Zenon
  <2>1. IsFiniteSet(K) /\ Cardinality(K) = Pending(k, 0, f)
    BY <1>5, <2>0, PendingIs, Zenon DEF Pending
  <2>2. \A i : i \in K <=> i \in 1..n /\ t[a + i - 1].frame = f
    <3>1. \A i : i \in K <=> i \in 1..n /\ k[i].frame = f
      BY <2>0, Zenon
    <3> QED
      BY <1>5, <3>1, Zenon
  <2> HIDE DEF K
  <2>3. g \in [K -> D]
    BY <1>3, <2>2
  <2>4. \A i, j \in K : g[i] = g[j] => i = j
    <3>1. \A i \in K : i \in Nat /\ g[i] = a + i - 1
      BY <2>2
    <3> HIDE DEF g
    <3> QED
      BY <1>1, <3>1
  <2>5. \A v \in D : \E i \in K : g[i] = v
    <3> SUFFICES ASSUME NEW v \in D PROVE \E i \in K : g[i] = v
      OBVIOUS
    <3>1. v \in a..a + n - 1 /\ t[v].frame = f
      OBVIOUS
    <3>2. v - a + 1 \in 1..n /\ a + (v - a + 1) - 1 = v
      BY <1>1, <3>1
    <3>3. v - a + 1 \in K
      BY <2>2, <3>1, <3>2, SMTT(30)
    <3> QED
      BY <3>2, <3>3
  <2> HIDE DEF g
  <2>6. Pairs(g, K, D)
    BY <2>3, <2>4, <2>5, SMTT(30) DEF Pairs
  <2>7. IsFiniteSet(D) /\ Cardinality(D) = Cardinality(K)
    BY <2>1, <2>6, SameSize, SMTT(30)
  <2>8. None # f /\ Empty.frame = None
    BY FramesAssumption, Zenon DEF Empty
  <2>9. Uses(t, f) = Uses(u, f) \cup D /\ Uses(u, f) \cap D = {}
    <3>1. \A v \in a..a + n - 1 : v \in Page
      BY <1>1, SMTT(30) DEF Page
    <3> QED
      BY <2>8, <3>1 DEF Uses
  <2> HIDE DEF D
  <2>10. Cardinality(Uses(t, f)) = Cardinality(Uses(u, f)) + Cardinality(D)
    BY <2>7, <2>9, UsesIs, Disjoint, Zenon
  <2> QED
    BY <2>1, <2>7, <2>10
<1>8. Has(u) \subseteq Has(t)
  BY FramesAssumption DEF Has, Empty
<1> QED
  BY <1>2, <1>6, <1>7, <1>8

(* syscall_send keeps the inductive invariant; a table gets only unused    *)
(* frames and those of its own packet.                                     *)
LEMMA SyscallSend ==
  ASSUME Lawful, Inv, ~Panic, NEW p \in Proc, NEW q \in Proc, NEW a, NEW n, Region(a, n),
         syscall_send(p, q, a, n)
  PROVE  Inv' /\ Apart
<1> DEFINE t == tab[p]
           u == [v \in Page |-> IF v \in a..a + n - 1 THEN Empty ELSE t[v]]
           k == [i \in 1..n |-> t[a + i - 1]]
<1>1. Types /\ ExactFor(mem, tab, space, msg) /\ Clean
  BY DEF Inv
<1>2. /\ Live(p) /\ Live(q) /\ p # q /\ ~busy[q]
      /\ tab' = [tab EXCEPT ![p] = u]
      /\ busy' = [busy EXCEPT ![q] = TRUE] /\ msg' = [msg EXCEPT ![q] = k]
      /\ UNCHANGED <<mem, space>>
  BY DEF syscall_send, Lawful, Room
<1>3. \A v \in a..a + n - 1 : t[v] # Empty
  BY DEF syscall_send, Present, At
<1>4. t \in Table /\ u = [v \in Page |-> IF v \in a..a + n - 1 THEN Empty ELSE t[v]]
      /\ k = [i \in 1..n |-> t[a + i - 1]]
  BY <1>1, SMTT(30) DEF Types
<1> HIDE DEF t, u, k
<1>5. /\ u \in Table /\ k \in Packets
      /\ \A f \in Frame : Cardinality(Uses(t, f)) = Cardinality(Uses(u, f)) + Pending(k, 0, f)
      /\ Has(u) \subseteq Has(t)
  BY <1>3, <1>4, Moved, SMTT(30)
<1>6. tab' \in [Proc -> Table] /\ msg' \in [Proc -> Packets] /\ busy' \in [Proc -> BOOLEAN]
  BY <1>1, <1>2, <1>5 DEF Types
<1>7. tab'[p] = u /\ \A r \in Proc \ {p} : tab'[r] = tab[r]
  BY <1>1, <1>2 DEF Types
<1>8. msg'[q] = k /\ busy'[q] = TRUE
      /\ \A r \in Proc \ {q} : msg'[r] = msg[r] /\ busy'[r] = busy[r]
  BY <1>1, <1>2 DEF Types
<1>9. msg[q] = <<>>
  BY <1>1, <1>2, SMTT(30) DEF Clean
<1>10. ASSUME NEW f \in Frame
       PROVE  Refs(tab', space', msg', f) = Refs(tab, space, msg, f)
  <2>1. /\ Cardinality(InTables(tab, f)) = Cardinality(Uses(t, f)) + Cardinality(NotOf(InTables(tab, f), p))
        /\ Cardinality(NotOf(InTables(tab, f), p)) \in Nat
    BY SplitTables, SMTT(30) DEF t
  <2>2. Cardinality(InTables(tab', f)) = Cardinality(Uses(u, f)) + Cardinality(NotOf(InTables(tab', f), p))
    BY <1>7, SplitTables, Zenon
  <2>3. NotOf(InTables(tab', f), p) = NotOf(InTables(tab, f), p)
    BY <1>7, SMTT(30) DEF NotOf, InTables
  <2>4. /\ Cardinality(InPackets(msg, f)) = Pending(<<>>, 0, f) + Cardinality(NotOf(InPackets(msg, f), q))
        /\ Cardinality(NotOf(InPackets(msg, f), q)) \in Nat
    BY <1>1, <1>9, SplitPackets, SMTT(30) DEF Types
  <2>5. Cardinality(InPackets(msg', f)) = Pending(k, 0, f) + Cardinality(NotOf(InPackets(msg', f), q))
    BY <1>6, <1>8, SplitPackets, Zenon
  <2>6. NotOf(InPackets(msg', f), q) = NotOf(InPackets(msg, f), q)
    BY <1>8, Zenon DEF NotOf, InPackets
  <2>7. Pending(<<>>, 0, f) = 0
    <3>1. {i \in 0 + 1..Len(<<>>) : <<>>[i].frame = f} = {}
      OBVIOUS
    <3> QED
      BY <3>1, FS_EmptySet DEF Pending
  <2>8. Cardinality(InSpaces(space', f)) = Cardinality(InSpaces(space, f)) /\ Cardinality(InSpaces(space, f)) \in Nat
    <3>1. IsFiniteSet(InSpaces(space, f))
      BY FS_Subset, FramesAssumption DEF InSpaces
    <3> QED
      BY <1>2, <3>1, FS_CardinalityType, SMTT(30)
  <2>9. Cardinality(Uses(u, f)) \in Nat /\ Cardinality(Uses(t, f)) \in Nat
    BY UsesIs
  <2>10. Pending(k, 0, f) \in Nat
    BY <1>5, PendingIs, Zenon DEF Packets
  <2> QED
    BY <1>5, <2>1, <2>2, <2>3, <2>4, <2>5, <2>6, <2>7, <2>8, <2>9, <2>10, SMTT(30) DEF Refs
<1>11. ExactFor(mem', tab', space', msg')
  BY <1>1, <1>2, <1>10, Zenon DEF ExactFor
<1>12. Clean'
  <2>1. Live(First)'
    BY <1>1, <1>2, SMTT(30) DEF Clean, Live
  <2>2. ASSUME NEW r \in Proc
        PROVE  /\ ~Live(r)' => tab'[r] = NoPages /\ ~busy'[r]
               /\ ~busy'[r] => msg'[r] = <<>>
    BY <1>1, <1>2, <1>7, <1>8, SMTT(30) DEF Clean, Live
  <2> QED
    BY <2>1, <2>2 DEF Clean, Live
<1>13. Types'
  BY <1>1, <1>2, <1>6, SMTT(30) DEF Types
<1>14. Apart
  BY <1>5, <1>7, SMTT(30) DEF Apart, t
<1> QED
  BY <1>11, <1>12, <1>13, <1>14 DEF Inv

-----------------------------------------------------------------------------

(* The frames, tables and packets of the start satisfy the inductive       *)
(* invariant.                                                              *)
LEMMA InitInv == Init => Inv
<1> SUFFICES ASSUME Init PROVE Inv
  OBVIOUS
<1>1. PICK f \in Frame : \E l \in [1..Cardinality(Frame) - 1 -> Frame \ {f}] :
        /\ Each(l, Frame \ {f})
        /\ mem = [list |-> l, oom |-> FALSE, pool |-> PoolMax,
                  refc |-> [g \in Frame |-> IF g = f THEN 1 ELSE 0]]
        /\ space = [p \in Proc |-> IF p = First THEN f ELSE None]
  BY Zenon DEF Init
<1>2. PICK l \in [1..Cardinality(Frame) - 1 -> Frame \ {f}] :
        /\ Each(l, Frame \ {f})
        /\ mem = [list |-> l, oom |-> FALSE, pool |-> PoolMax,
                  refc |-> [g \in Frame |-> IF g = f THEN 1 ELSE 0]]
        /\ space = [p \in Proc |-> IF p = First THEN f ELSE None]
  BY <1>1, Zenon
<1>3. tab = [p \in Proc |-> NoPages] /\ busy = [p \in Proc |-> FALSE] /\ msg = [p \in Proc |-> <<>>]
  BY DEF Init, NoPages
<1>4. Cardinality(Frame) - 1 \in Nat
  <2>1. Cardinality(Frame) \in Nat /\ Cardinality(Frame) # 0
    BY <1>1, FS_CardinalityType, FS_EmptySet, FramesAssumption
  <2> QED
    BY <2>1, SMTT(30)
<1>5. l \in Seq(Frame)
  <2>1. l \in [1..Cardinality(Frame) - 1 -> Frame]
    BY <1>2
  <2> QED
    BY <1>4, <2>1
<1>6. [g \in Frame |-> IF g = f THEN 1 ELSE 0] \in [Frame -> Nat] /\ PoolMax \in 0..PoolMax
  BY FramesAssumption, SMTT(30)
<1>7. mem \in Memory
  BY <1>2, <1>5, <1>6, SMTT(30) DEF Memory
<1>8. mem.list = l /\ \A g \in Frame : mem.refc[g] = Same(f, g)
  BY <1>2 DEF Same
<1>9. Unused(mem) = Frame \ {f}
  BY <1>8, SMTT(30) DEF Unused, Same
<1>10. Sound(mem)
  BY <1>2, <1>7, <1>8, <1>9, Zenon DEF Sound
<1>11. space[First] = f /\ \A q \in Proc \ {First} : space[q] = None
  BY <1>2, FramesAssumption
<1>12. Types
  <2>1. NoPages \in Table
    BY DEF NoPages, Table
  <2> QED
    BY <1>1, <1>2, <1>3, <1>7, <2>1, NoPacket, SMTT(30) DEF Types, AnyFrame
<1>13. ASSUME NEW g \in Frame
       PROVE  Refs(tab, space, msg, g) = Same(f, g)
  <2>1. None # g /\ Empty.frame = None
    BY FramesAssumption DEF Empty
  <2>2. InTables(tab, g) = {}
    BY <1>3, <2>1 DEF InTables, NoPages
  <2>3. InPackets(msg, g) = {}
    <3>1. \A x \in Proc \X (1..Pages) : msg[x[1]] = <<>> /\ Len(msg[x[1]]) = 0 /\ ~(x[2] <= 0)
      BY <1>3, FramesAssumption, SMTT(30)
    <3> QED
      BY <3>1 DEF InPackets
  <2>4. InSpaces(space, g) = IF f = g THEN {First} ELSE {}
    BY <1>11, <2>1, FramesAssumption, SMTT(30) DEF InSpaces
  <2>5. Cardinality(InSpaces(space, g)) = Same(f, g)
    BY <2>4, FS_EmptySet, FS_Singleton, Zenon DEF Same
  <2>6. Cardinality(InTables(tab, g)) = 0 /\ Cardinality(InPackets(msg, g)) = 0
    BY <2>2, <2>3, FS_EmptySet
  <2>7. Same(f, g) \in Nat
    BY DEF Same
  <2> QED
    BY <2>5, <2>6, <2>7, SMTT(30) DEF Refs
<1>14. ExactFor(mem, tab, space, msg)
  BY <1>8, <1>10, <1>13, SMTT(30) DEF ExactFor
<1>15. Clean
  BY <1>1, <1>3, <1>11, FramesAssumption DEF Clean, Live
<1> QED
  BY <1>12, <1>14, <1>15 DEF Inv

(* Every step keeps the inductive invariant, and every table to its own,   *)
(* unused and received frames.                                             *)
LEMMA StepInv == Lawful /\ Inv /\ [Next]_vars => Inv' /\ [Apart]_vars
<1> SUFFICES ASSUME Lawful, Inv, [Next]_vars PROVE Inv' /\ [Apart]_vars
  OBVIOUS
<1>1. CASE UNCHANGED vars
  <2>1. Inv'
    BY <1>1, SMTT(30) DEF Inv, Types, ExactFor, Clean, Panic, Live, vars
  <2> QED
    BY <1>1, <2>1, SMTT(30)
<1>2. CASE Next
  <2>1. ~Panic
    BY <1>2, SMTT(30) DEF Next
  <2>2. PICK p \in Proc :
          \/ \E r \in Regions :
               \/ page_null(p, r[1], r[2])
               \/ page_anon(p, r[1], r[2])
               \/ page_pack(p, r[1], r[2])
               \/ page_phys(p, r[1], r[2])
               \/ \E perm \in Perms : page_prot(p, r[1], r[2], perm)
               \/ \E off \in 0..Pages - r[2] : page_self(p, r[1], r[2], off)
               \/ \E q \in Proc : syscall_send(p, q, r[1], r[2])
          \/ \E q \in Proc : syscall_send(p, q, 0, 0) \/ syscall_fork(p, q)
          \/ fault_page(p) \/ syscall_done(p)
          \/ process_kill(p)
    BY <1>2, SMTT(30) DEF Next
  <2>3. ASSUME NEW r \in Regions,
               \/ page_null(p, r[1], r[2])
               \/ page_anon(p, r[1], r[2])
               \/ page_pack(p, r[1], r[2])
               \/ page_phys(p, r[1], r[2])
               \/ \E perm \in Perms : page_prot(p, r[1], r[2], perm)
               \/ \E off \in 0..Pages - r[2] : page_self(p, r[1], r[2], off)
               \/ \E q \in Proc : syscall_send(p, q, r[1], r[2])
        PROVE  Inv' /\ Apart
    <3>1. Region(r[1], r[2])
      BY RegionsAre
    <3> QED
      BY <2>1, <2>3, <3>1, PageNull, PageAnon, PagePack, PagePhys, PageProt, PageSelf, SyscallSend, SMTT(30)
  <2>4. ASSUME NEW q \in Proc, syscall_send(p, q, 0, 0) \/ syscall_fork(p, q)
        PROVE  Inv' /\ Apart
    <3>1. Region(0, 0)
      BY FramesAssumption DEF Region
    <3> QED
      BY <2>1, <2>4, <3>1, SyscallSend, SyscallFork, SMTT(30)
  <2>5. fault_page(p) \/ syscall_done(p) \/ process_kill(p) => Inv' /\ Apart
    BY <2>1, FaultPage, SyscallDone, ProcessKill, SMTT(30)
  <2> QED
    BY <2>2, <2>3, <2>4, <2>5, SMTT(30)
<1> QED
  BY <1>1, <1>2

(* The inductive invariant implies that every reference count is exact.    *)
LEMMA InvRefExact == Inv => RefExact
<1> SUFFICES ASSUME Inv, ~Panic, NEW f \in Frame
             PROVE  /\ mem.refc[f] = References(f)
                    /\ Cardinality({i \in DOMAIN mem.list : mem.list[i] = f}) =
                         IF mem.refc[f] = 0 THEN 1 ELSE 0
  BY DEF RefExact
<1>1. ExactFor(mem, tab, space, msg)
  BY DEF Inv
<1>2. mem.refc[f] = References(f)
  BY <1>1, RefsAre DEF ExactFor
<1>3. Each(mem.list, Unused(mem))
  BY <1>1, SMTT(30) DEF ExactFor, Sound
<1> DEFINE I == {i \in DOMAIN mem.list : mem.list[i] = f}
<1>4. CASE mem.refc[f] = 0
  <2>1. PICK i \in DOMAIN mem.list : mem.list[i] = f
    BY <1>3, <1>4 DEF Each, Unused
  <2>2. I = {i}
    BY <1>3, <2>1, SMTT(30) DEF Each
  <2> QED
    BY <1>2, <1>4, <2>2, FS_Singleton, SMTT(30)
<1>5. CASE mem.refc[f] # 0
  <2>1. I = {}
    BY <1>3, <1>5 DEF Each, Unused
  <2> QED
    BY <1>2, <1>5, <2>1, FS_EmptySet, SMTT(30)
<1> QED
  BY <1>4, <1>5

(* The inductive invariant holds in every reachable state.                 *)
LEMMA InvAlways == ASSUME Lawful PROVE Spec => []Inv
<1>1. Inv /\ [Next]_vars => Inv'
  BY StepInv
<1> QED
  BY <1>1, InitInv, PTL DEF Spec

(* For any number of processes, pages and frames: the count of a frame is  *)
(* the number of its references in page tables, packets and directories,   *)
(* and the frames without one are in the list of frame.c, each once.       *)
THEOREM CountsExact == ASSUME Lawful PROVE Spec => []RefExact
  BY InvAlways, InvRefExact, PTL

(* No call gives a process a frame that somebody else uses, other than by  *)
(* a packet sent to it (syscall_page.c, space.c).                          *)
THEOREM ProcessesIsolated == ASSUME Lawful PROVE Spec => Isolated
<1> DEFINE Step == \A p \in Proc : \A f \in (Reached(p))' \ Reached(p) :
                     References(f) = 0 \/ \E e \in Packet(p) : e.frame = f
<1>1. ASSUME Inv, [Next]_vars PROVE [Step]_vars
  <2> SUFFICES ASSUME ~UNCHANGED vars, NEW p \in Proc, NEW f \in (Reached(p))' \ Reached(p),
                      ~ \E e \in Packet(p) : e.frame = f
               PROVE  References(f) = 0
    OBVIOUS
  <2>1. Apart
    BY <1>1, StepInv, SMTT(30)
  <2>2. Reached(p) = Has(tab[p]) /\ (Reached(p))' = Has(tab'[p])
    BY SMTT(30) DEF Reached, Has
  <2>3. f \in Frame /\ (f \in Unused(mem) \/ f \in Frames(msg[p]))
    BY <2>1, <2>2 DEF Apart, Has
  <2>4. f \notin Frames(msg[p])
    BY DEF Frames, Packet
  <2>5. ~Panic
    BY <1>1, SMTT(30) DEF Next
  <2>6. ExactFor(mem, tab, space, msg) /\ mem.refc[f] = 0
    BY <1>1, <2>3, <2>4, <2>5, Zenon DEF Inv, Unused
  <2> QED
    BY <2>3, <2>6, RefsAre DEF ExactFor
<1>2. Inv /\ [Next]_vars => [Step]_vars
  BY <1>1
<1>3. Spec => [][Step]_vars
  BY <1>2, InvAlways, PTL DEF Spec
<1> QED
  BY <1>3, SMTT(30) DEF Isolated

=============================================================================
