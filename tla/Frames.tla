------------------------------- MODULE Frames -------------------------------
(***************************************************************************)
(* The memory of the kernel: physical frames with their reference counts   *)
(* (kernel/mem/frame.c), the address spaces of processes (space.c, page.c, *)
(* mem.c), the packets of messages and the system calls that move frames   *)
(* between them (syscall_page.c, syscall_send.c, process_clone,            *)
(* thread_free, process_kill).                                             *)
(*                                                                         *)
(* A process has a main thread and at most one thread for a message, with  *)
(* a stack of one page, the last of the address space; as in the kernel,   *)
(* nothing keeps a call from mapping pages there.  Of an address space,    *)
(* the directory has a frame of its own; page tables have none.            *)
(***************************************************************************)
EXTENDS Integers, Sequences, FiniteSets

CONSTANTS Proc,     \* process numbers
          First,    \* the process that init() starts
          Pages,    \* the number of pages of an address space
          Frame,    \* the frames of the allocator
          Uncounted, \* any other frame: of a device or the emergency pool
          None,     \* no frame
          PoolMax,  \* the number of frames of the emergency pool, and one
          MaxBusy,  \* bound: threads for messages at a time
          Deaf,     \* the processes that have no message handler
          Perms,    \* the permissions that page_prot asks for
          Calls     \* what the callers do beyond what libc and dl do

ASSUME FramesAssumption ==
  /\ First \in Proc /\ IsFiniteSet(Proc) /\ IsFiniteSet(Frame)
  /\ Pages \in Nat \ {0} /\ PoolMax \in Nat \ {0}
  /\ Uncounted \notin Frame /\ None \notin Frame \cup {Uncounted}
  /\ Perms \subseteq SUBSET {"rw", "lock", "link"}

AnyFrame == Frame \cup {Uncounted}

Page == 0..Pages - 1
Stack == Pages - 1
Empty == [frame |-> None, perm |-> {}]
Entry == [frame : AnyFrame, perm : SUBSET {"rw", "lock", "link"}]

VARIABLES mem,    \* the allocator: list, refc, oom and pool, see Memory
          tab,    \* tab[p]: the pages of p
          space,  \* space[p]: the frame of the directory, None if p is free
          busy,   \* busy[p]: p has a thread for a message
          msg     \* msg[p]: the packet of that thread, <<>> for none

vars == <<mem, tab, space, busy, msg>>

Memory ==
  [list : Seq(Frame),        \* frame_list
   refc : [Frame -> Nat],    \* 0 when the frame is not in frame_hash
   oom  : BOOLEAN,           \* out_of_memory
   pool : 0..PoolMax]        \* what is left of the emergency pool

(* The system has panicked in frame_new.                                   *)
Panic == mem.pool = 0

TypeOK ==
  /\ mem \in Memory
  /\ tab \in [Proc -> [Page -> Entry \cup {Empty}]]
  /\ space \in [Proc -> AnyFrame \cup {None}]
  /\ busy \in [Proc -> BOOLEAN]
  /\ msg \in [Proc -> Seq(Entry)]

Live(p) == space[p] # None

(* The frames of the list: each once, in any order.                        *)
Each(list, S) ==
  /\ \A f \in S : \E i \in DOMAIN list : list[i] = f
  /\ \A i, j \in DOMAIN list : list[i] \in S /\ (list[i] = list[j] => i = j)

Init ==
  /\ \E f \in Frame : \E l \in [1..Cardinality(Frame) - 1 -> Frame \ {f}] :
       /\ Each(l, Frame \ {f})
       /\ mem = [list |-> l, oom |-> FALSE, pool |-> PoolMax,
                 refc |-> [g \in Frame |-> IF g = f THEN 1 ELSE 0]]
       /\ space = [p \in Proc |-> IF p = First THEN f ELSE None]
  /\ tab = [p \in Proc |-> [v \in Page |-> Empty]]
  /\ busy = [p \in Proc |-> FALSE]
  /\ msg = [p \in Proc |-> <<>>]

-----------------------------------------------------------------------------

(* The functions of frame.c on a record of type Memory.                    *)

Counted(m, f) == f \in Frame /\ m.refc[f] > 0

(* Mutant of frame_free: the last reference is not noticed.                *)
frame_free_late(m, f) ==
  IF ~ Counted(m, f) THEN m
  ELSE IF m.refc[f] = 2
       THEN [m EXCEPT !.refc[f] = 0, !.list = <<f>> \o @, !.oom = FALSE]
       ELSE [m EXCEPT !.refc[f] = @ - 1]

frame_free(m, f) ==
  IF ~ Counted(m, f) THEN m
  ELSE IF m.refc[f] = 1
       THEN [m EXCEPT !.refc[f] = 0, !.list = <<f>> \o @, !.oom = FALSE]
       ELSE [m EXCEPT !.refc[f] = @ - 1]

frame_ref(m, f) == IF Counted(m, f) THEN [m EXCEPT !.refc[f] = @ + 1] ELSE m

(* An empty list turns the allocator over to the emergency pool, which     *)
(* panics on its last frame and whose frames nobody gives back.            *)
frame_new(m) ==
  IF m.oom \/ m.list = <<>>
  THEN [m EXCEPT !.oom = TRUE, !.pool = IF @ = 0 THEN 0 ELSE @ - 1]
  ELSE [m EXCEPT !.list = Tail(@), !.refc[Head(m.list)] = 1]

(* The frame that frame_new(m) returns.                                    *)
fresh(m) == IF m.oom \/ m.list = <<>> THEN Uncounted ELSE Head(m.list)

(* A process while its pages change: the allocator and the page table.     *)
At(p) == [m |-> mem, t |-> tab[p]]

Present(s, v) == s.t[v] # Empty

page_set(s, v, f, perm) == [s EXCEPT !.t[v] = [frame |-> f, perm |-> perm]]

(* mem_free of one page.                                                   *)
mem_free(s, v) ==
  IF Present(s, v)
  THEN [m |-> frame_free(s.m, s.t[v].frame), t |-> [s.t EXCEPT ![v] = Empty]]
  ELSE s

(* mem_alloc of one page.                                                  *)
mem_alloc(s, v, perm) ==
  IF Present(s, v) THEN s
  ELSE page_set([s EXCEPT !.m = frame_new(@)], v, fresh(s.m), perm)

(* A frame is put in place of what was there.                              *)
put_one(s, v, f, perm) == page_set(mem_free(s, v), v, f, perm)

(* The destination is freed before the source is read again and counted.   *)
self_one(s, v, from) ==
  LET freed == IF Present(s, v)
               THEN [s EXCEPT !.m = frame_free(@, s.t[v].frame)] ELSE s
  IN IF ~ Present(s, from) THEN s
     ELSE [m |-> frame_ref(freed.m, s.t[from].frame),
           t |-> [s.t EXCEPT ![v] = s.t[from]]]

prot_one(s, v, perm) ==
  IF Present(s, v) /\ "lock" \notin s.t[v].perm
  THEN page_set(s, v, s.t[v].frame, perm) ELSE s

(* Mutant of segment_clone: every page is shared with the child.           *)
segment_clone_shared(s, v, e) ==
  IF e = Empty THEN s ELSE [s EXCEPT !.t[v] = e]

(* A page of the parent is copied, or shared if it is linked.              *)
segment_clone(s, v, e) ==
  IF e = Empty THEN s
  ELSE IF "link" \in e.perm THEN [s EXCEPT !.t[v] = e]
  ELSE mem_alloc(s, v, e.perm)

(* The loops over pages, each a list of steps that are done in order.      *)
Do(s, w) ==
  CASE w.do = "free"  -> mem_free(s, w.page)
    [] w.do = "alloc" -> mem_alloc(s, w.page, w.perm)
    [] w.do = "put"   -> put_one(s, w.page, w.frame, w.perm)
    [] w.do = "drop"  -> [s EXCEPT !.m = frame_free(@, w.frame)]
    [] w.do = "copy"  -> self_one(s, w.page, w.from)
    [] w.do = "prot"  -> prot_one(s, w.page, w.perm)
    [] w.do = "clone" -> segment_clone(s, w.page, w.entry)

Loop(s, work) ==
  LET after[i \in 0..Len(work)] == IF i = 0 THEN s ELSE Do(after[i - 1], work[i])
  IN after[Len(work)]

Regions == {r \in (0..Pages - 1) \X (1..Pages) : r[1] + r[2] <= Pages}

(* The end of a call, unless it has panicked on its way.                   *)
Commit(p, s) ==
  IF s.m.pool = 0
  THEN mem' = [mem EXCEPT !.pool = 0] /\ tab' = tab
  ELSE mem' = s.m /\ tab' = [tab EXCEPT ![p] = s.t]

-----------------------------------------------------------------------------

(* syscall_page, one action for each source.  libc asks for memory that    *)
(* can be written (malloc.c, event.c, the drivers) and changes it later.   *)

Freeing(a, n) == [i \in 1..n |-> [do |-> "free", page |-> a + i - 1]]

page_null(p, a, n) ==
  /\ Live(p)
  /\ Commit(p, Loop(At(p), Freeing(a, n)))
  /\ UNCHANGED <<space, busy, msg>>

page_anon(p, a, n) ==
  /\ Live(p) /\ ~ mem.oom
  /\ Commit(p, Loop(At(p), [i \in 1..n |-> [do |-> "alloc", page |-> a + i - 1, perm |-> {"rw"}]]))
  /\ UNCHANGED <<space, busy, msg>>

(* The frames of a packet from the (n + 1)st on are freed.                 *)
Dropping(pkt, n) ==
  [i \in 1..Len(pkt) - n |-> [do |-> "drop", frame |-> pkt[n + i].frame]]

(* What is locked in the packet keeps its permissions.                     *)
Packed(e) == IF "lock" \in e.perm THEN e.perm ELSE {"rw", "lock"}

(* The thread for a message maps its packet, in place of what was there.   *)
page_pack(p, a, n) ==
  LET k == IF n > Len(msg[p]) THEN Len(msg[p]) ELSE n
      puts == [i \in 1..k |-> [do |-> "put", page |-> a + i - 1,
                               frame |-> msg[p][i].frame, perm |-> Packed(msg[p][i])]]
  IN /\ Live(p) /\ busy[p] /\ msg[p] # <<>>
     /\ Commit(p, Loop(Loop(At(p), puts), Dropping(msg[p], k)))
     /\ msg' = [msg EXCEPT ![p] = <<>>]
     /\ UNCHANGED <<space, busy>>

(* A driver, which runs as user 0, maps memory of a device.                *)
page_phys(p, a, n) ==
  /\ p = First
  /\ Commit(p, Loop(At(p), [i \in 1..n |-> [do |-> "put", page |-> a + i - 1,
                                           frame |-> Uncounted, perm |-> {"rw"}]]))
  /\ UNCHANGED <<space, busy, msg>>

(* Callers give a region that is not its own source.                       *)
page_self(p, a, n, off) ==
  /\ Live(p)
  /\ a # off \/ "self" \in Calls
  /\ Commit(p, Loop(At(p), [i \in 1..n |-> [do |-> "copy", page |-> a + i - 1,
                                           from |-> off + i - 1]]))
  /\ UNCHANGED <<space, busy, msg>>

page_prot(p, a, n, perm) ==
  /\ Live(p)
  /\ Commit(p, Loop(At(p), [i \in 1..n |-> [do |-> "prot", page |-> a + i - 1, perm |-> perm]]))
  /\ UNCHANGED <<space, busy, msg>>

-----------------------------------------------------------------------------

(* The bound on the threads for messages.                                  *)
Room(q) == ~ busy[q] /\ Cardinality({p \in Proc : busy[p]}) < MaxBusy

(* A region that is present leaves the sender and becomes the packet of a  *)
(* new thread.  A receiver without a handler gets no thread; the packet is *)
(* then lost.                                                              *)
syscall_send(p, q, a, n) ==
  /\ Live(p) /\ Live(q) /\ p # q /\ Room(q)
  /\ \A v \in a..a + n - 1 : Present(At(p), v)
  /\ tab' = [tab EXCEPT ![p] =
       [v \in Page |-> IF v \in a..a + n - 1 THEN Empty ELSE @[v]]]
  /\ IF q \notin Deaf
     THEN /\ busy' = [busy EXCEPT ![q] = TRUE]
          /\ msg' = [msg EXCEPT ![q] = [i \in 1..n |-> tab[p][a + i - 1]]]
     ELSE UNCHANGED <<busy, msg>>
  /\ UNCHANGED <<mem, space>>

(* A page fault in its stack gives the thread memory.                      *)
fault_page(p) ==
  /\ Live(p) /\ busy[p]
  /\ Commit(p, mem_alloc(At(p), Stack, {"rw"}))
  /\ UNCHANGED <<space, busy, msg>>

(* The packet that was never mapped and the stack are given back.          *)
thread_free(s, pkt) == mem_free(Loop(s, Dropping(pkt, 0)), Stack)

(* done(): the end of the thread for a message.                            *)
syscall_done(p) ==
  /\ Live(p) /\ busy[p]
  /\ Commit(p, thread_free(At(p), msg[p]))
  /\ busy' = [busy EXCEPT ![p] = FALSE]
  /\ msg' = [msg EXCEPT ![p] = <<>>]
  /\ UNCHANGED space

(* space_clone: the directory, then the pages in ascending order.          *)
space_clone(t) ==
  Loop([m |-> frame_new(mem), t |-> [v \in Page |-> Empty]],
       [i \in 1..Pages |-> [do |-> "clone", page |-> i - 1, entry |-> t[i - 1]]])

(* fork() by the main thread, or, with a packet that child and parent then *)
(* both hold, by the thread for a message.                                 *)
syscall_fork(p, c) ==
  LET packet == "packet" \in Calls /\ msg[p] # <<>>
  IN /\ Live(p) /\ ~ Live(c)
     /\ Commit(c, space_clone(tab[p]))
     /\ space' = [space EXCEPT ![c] = fresh(mem)]
     /\ busy' = [busy EXCEPT ![c] = packet]
     /\ msg' = [msg EXCEPT ![c] = IF packet THEN msg[p] ELSE <<>>]

space_free(p, s) ==
  LET r == Loop(s, Freeing(0, Pages))
  IN [r EXCEPT !.m = frame_free(@, space[p])]

(* exit(): the threads are freed, then the address space.                  *)
process_kill(p) ==
  /\ Live(p) /\ p # First
  /\ Commit(p, space_free(p, IF busy[p] THEN thread_free(At(p), msg[p]) ELSE At(p)))
  /\ space' = [space EXCEPT ![p] = None]
  /\ busy' = [busy EXCEPT ![p] = FALSE]
  /\ msg' = [msg EXCEPT ![p] = <<>>]

Next ==
  /\ ~ Panic
  /\ \E p \in Proc :
       \/ \E r \in Regions :
            \/ page_null(p, r[1], r[2])
            \/ page_anon(p, r[1], r[2])
            \/ page_pack(p, r[1], r[2])
            \/ page_phys(p, r[1], r[2])
            \/ \E perm \in Perms : page_prot(p, r[1], r[2], perm)
            \/ \E off \in 0..Pages - r[2] : page_self(p, r[1], r[2], off)
            \/ \E q \in Proc : syscall_send(p, q, r[1], r[2])
       \/ \E q \in Proc : syscall_send(p, q, 0, 0) \/ syscall_fork(p, q)
       \/ fault_page(p) \/ syscall_done(p)
       \/ process_kill(p)

Spec == Init /\ [][Next]_vars

-----------------------------------------------------------------------------

(* The number of places from which the kernel can reach frame f.           *)
References(f) ==
  Cardinality({x \in Proc \X Page : tab[x[1]][x[2]].frame = f})
  + Cardinality({p \in Proc : space[p] = f})
  + Cardinality({x \in Proc \X (1..Pages) :
                   x[2] <= Len(msg[x[1]]) /\ msg[x[1]][x[2]].frame = f})

(* The count of a frame is the number of its references, in page tables,   *)
(* packets and directories, and the frames without one are in the list,    *)
(* each once.  So no frame that is in use is handed out again, and none is *)
(* lost, whatever processes send, share, fork and exit.                    *)
RefExact ==
  ~ Panic =>
    \A f \in Frame :
      /\ mem.refc[f] = References(f)
      /\ Cardinality({i \in DOMAIN mem.list : mem.list[i] = f}) =
           IF mem.refc[f] = 0 THEN 1 ELSE 0

Reached(p) == {tab[p][v].frame : v \in Page} \cap Frame

Packet(p) == {msg[p][i] : i \in DOMAIN msg[p]}

(* Processes are isolated: the only frames a process gains access to are   *)
(* ones nobody used and those of a packet sent to it.  So a child of       *)
(* fork() has none of its parent's, and PAGE_ANON is "guaranteed not to be *)
(* in use by any other processes" (syscall_page.c).                        *)
Isolated ==
  [][\A p \in Proc : \A f \in (Reached(p))' \ Reached(p) :
       References(f) = 0 \/ \E e \in Packet(p) : e.frame = f]_vars

(* What a process was sent locked and read-only stays so: it gets no       *)
(* writable mapping of the frame unless somebody sends one, however it     *)
(* remaps it or changes permissions (syscall_page.c,                       *)
(* "prevent the reciever from changing the permissions").                  *)
LockHolds ==
  [][\A p \in Proc : \A f \in Frame :
       LET mine == {e \in Packet(p) \cup {tab[p][v] : v \in Page} : e.frame = f}
       IN mine # {} /\ (\A e \in mine : e.perm = {"lock"}) =>
            \A v \in Page : tab'[p][v].frame = f => "rw" \notin tab'[p][v].perm]_vars

=============================================================================
