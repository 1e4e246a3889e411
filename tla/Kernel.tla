------------------------------- MODULE Kernel -------------------------------
(***************************************************************************)
(* The processes and threads of the kernel: kernel/process/process.c,      *)
(* kernel/thread/thread.c, the system calls, faults and interrupts that    *)
(* change them, and the scheduling queue of the module Schedule.           *)
(*                                                                         *)
(* A handler runs with interrupts disabled on the one kernel stack, so a   *)
(* step is a whole handler.  The functions that handlers call are          *)
(* operators on the memory of the kernel, the record k.                    *)
(*                                                                         *)
(* The kernel trusts its callers in many places.  Calls and events that it *)
(* does not withstand are left out, unless their name is in the constant   *)
(* Beyond; some of them, the signals and a fault of init among them, can   *)
(* occur with the programs of the repository:                              *)
(*   "init_stops"   init faults, stops its threads or wakes them all       *)
(*   "wake"         wake() of threads that are not stopped exactly once    *)
(*   "table_full"   a message to a process that has all its threads        *)
(*   "pid_full"     fork() when every pid is in use                        *)
(*   "fork_frozen"  fork() in a thread that has just stopped itself        *)
(*   "kill_dead"    a signal to the group of a process that is gone        *)
(*   "kill_loop"    a signal to a group in which parents form a loop       *)
(*   "kill_deaf"    a signal to a group in which a process has no handler  *)
(***************************************************************************)
EXTENDS Schedule, FiniteSets, SequencesExt

CONSTANTS Proc,        \* the process structures of the kernel heap
          Idle, Init1, \* those of processes 0 and 1
          Keeper,      \* the main thread of init
          MaxTasks,    \* MAX_TASKS, MAX_PID: pids are 0..MaxTasks - 1
          MaxThreads,  \* MAX_THREADS: the slots of a process
          Index,       \* indices of resources: a resource is <<pid, index>>
          Served,      \* those that servers offer connections to
          Irq,         \* the interrupt lines that drivers ask for
          MaxFrozen,   \* bound on the frozen count of a thread
          MaxConn,     \* bound on the connections of a process
          Calls,       \* the system calls and events, by name, of a run
          Beyond       \* the restrictions that are lifted

ASSUME KernelAssumption ==
  /\ {Idle, Init1} \subseteq Proc /\ Idle # Init1 /\ NULL \notin Proc \cup Irq
  /\ Keeper \in Thread
  /\ MaxTasks \in Nat /\ MaxTasks > 1
  /\ MaxThreads \in Nat /\ MaxThreads > 1

INSTANCE Rtab

Pid  == 0..MaxTasks - 1
Slot == 0..MaxThreads - 1
Unbound == MaxThreads    \* the id of a thread that got no slot

Rp == Pid \X Index
Connection == [a : Rp, b : Rp]

VARIABLES kernel,  \* the memory of the kernel
          image    \* the thread that runs

vars == <<kernel, image>>

(* After init(): process 0 has no thread; thread 0 of process 1 was bound  *)
(* by process_clone and once more by init(), so it is in slots 0 and 1.    *)
Init ==
  /\ image = Keeper
  /\ kernel =
       [queue  |-> schedule_insert(EmptyQueue, Keeper),
        alive  |-> {Keeper},
        frozen |-> [t \in Thread |-> 0],
        proc   |-> [t \in Thread |-> IF t = Keeper THEN Init1 ELSE NULL],
        id     |-> [t \in Thread |-> 1],
        seg    |-> [t \in Thread |-> 1],
        pid    |-> [p \in Proc |-> IF p = Init1 THEN 1 ELSE 0],
        parent |-> [p \in Proc |-> IF p = Init1 THEN Idle ELSE NULL],
        entry  |-> [p \in Proc |-> FALSE],
        rirq   |-> [p \in Proc |-> NULL],
        thread |-> [p \in Proc |-> [i \in Slot |->
                      IF p = Init1 /\ i < 2 THEN Keeper ELSE NULL]],
        rtab    |-> [p \in Proc |-> <<>>],
        table   |-> [i \in Pid |-> IF i = 0 THEN Idle
                                   ELSE IF i = 1 THEN Init1 ELSE NULL],
        pidlist |-> [i \in Pid |-> i],
        top     |-> 2 % MaxTasks,
        bot     |-> 0,
        holder  |-> [i \in Irq |-> 0]]

-----------------------------------------------------------------------------
(* kernel/thread/thread.c                                                  *)

(* heap_alloc of a thread; which of the free blocks it is does not matter. *)
thread_alloc(k) == CHOOSE t \in Thread \ k.alive : TRUE

Queued(k, t) == [k EXCEPT !.queue = schedule_insert(@, t)]
Unqueued(k, t) == [k EXCEPT !.queue = schedule_remove(@, t)]

thread_freeze(k, t) ==
  LET r == IF k.frozen[t] = 0 THEN Unqueued(k, t) ELSE k
  IN [r EXCEPT !.frozen[t] = @ + 1]

thread_thaw(k, t) ==
  LET r == [k EXCEPT !.frozen[t] = IF @ = 0 THEN 0 ELSE @ - 1]
  IN IF r.frozen[t] = 0 THEN Queued(r, t) ELSE r

thread_bind(k, t, p) ==
  LET free == {i \in Slot : k.thread[p][i] = NULL}
      i    == IF free = {} THEN Unbound ELSE Min(free)
  IN [k EXCEPT !.thread[p] = [j \in Slot |-> IF j = i THEN t ELSE @[j]],
               !.id[t] = i, !.proc[t] = p]

(* The block is given back, and its fields are no longer read: heap_alloc  *)
(* clears it when it is used again.                                        *)
thread_free(k, t) ==
  LET r == Unqueued(k, t)
  IN [r EXCEPT !.alive = @ \ {t}, !.queue.next[t] = NULL,
               !.thread[k.proc[t]] =
                  [i \in Slot |-> IF i = k.id[t] THEN NULL ELSE @[i]],
               !.frozen[t] = 0, !.proc[t] = NULL, !.id[t] = 1, !.seg[t] = 1]

(* A cleared thread in process p, with its stack pointer at the end of its *)
(* own segment: thread_send and syscall_also.                              *)
Spawn(k, p) ==
  LET t == thread_alloc(k)
      b == thread_bind([k EXCEPT !.alive = @ \cup {t}], t, p)
  IN [k     |-> Queued([b EXCEPT !.seg[t] = b.id[t]], t),
      image |-> t]

process_get(k, pid) == IF pid \in Pid THEN k.table[pid] ELSE NULL

thread_send(k, sender, pid) ==
  LET p == process_get(k, pid)
  IN IF p = NULL \/ ~k.entry[p] THEN [k |-> k, image |-> sender] ELSE Spawn(k, p)

(* schedule_next and the switch to its result.                             *)
NextThread(k) ==
  LET s == schedule_next(k.queue, k.frozen)
  IN [k |-> [k EXCEPT !.queue = s.queue], image |-> s.thread]

(* thread_switch idles for ever when there is no thread.                   *)
Resume(k) ==
  LET s == NextThread(k)
  IN IF s.image = NULL THEN [s EXCEPT !.k.queue.cpu = "spin"] ELSE s

-----------------------------------------------------------------------------
(* kernel/process/process.c                                                *)

(* Applies Op to the threads of p in the order of their slots.  A slot is  *)
(* looked up when its turn comes, since Op may clear it.                   *)
ForThreads(Op(_, _), k, p) ==
  FoldLeft(LAMBDA m, i : IF m.thread[p][i] = NULL THEN m ELSE Op(m, m.thread[p][i]),
           k, [i \in 1..MaxThreads |-> i - 1])

(* Mutant of process_freeze: the loop begins at thread 1.                  *)
process_freeze_from_one(k, p) ==
  FoldLeft(LAMBDA m, i : IF m.thread[p][i] = NULL THEN m ELSE thread_freeze(m, m.thread[p][i]),
           k, [i \in 1..MaxThreads - 1 |-> i])

process_freeze(k, p) == ForThreads(thread_freeze, k, p)
process_thaw(k, p)   == ForThreads(thread_thaw, k, p)

(* The pid comes from the ring, whether or not it is in use.               *)
process_alloc(k, p) ==
  LET pid == k.pidlist[k.top]
  IN [k EXCEPT !.top = (@ + 1) % MaxTasks, !.table[pid] = p, !.pid[p] = pid]

(* The child's thread is a copy of the active one, with its frozen count   *)
(* and its stack pointer.                                                  *)
process_clone(k, child, active) ==
  LET a == process_alloc(k, child)
      t == thread_alloc(a)
      c == [a EXCEPT !.parent[child] = k.proc[active],
                     !.entry[child]  = k.entry[k.proc[active]],
                     !.rirq[child]   = NULL,
                     !.thread[child] = [i \in Slot |-> NULL],
                     !.alive         = @ \cup {t},
                     !.frozen[t]     = k.frozen[active],
                     !.seg[t]        = k.seg[active]]
  IN Queued(thread_bind(c, t, child), t)

irq_set_redirect(k, pid, irq) == [k EXCEPT !.holder[irq] = pid]

(* Mutant of process_free: the pid is given back at the wrong end.         *)
process_free_top(k, p) ==
  [k EXCEPT !.table[k.pid[p]] = NULL,
            !.pidlist[k.top] = k.pid[p], !.bot = (@ + 1) % MaxTasks,
            !.entry[p] = FALSE, !.rirq[p] = NULL, !.rtab[p] = <<>>]

(* The structure keeps its pid and parent, which children may still read.  *)
process_free(k, p) ==
  [k EXCEPT !.table[k.pid[p]] = NULL,
            !.pidlist[k.bot] = k.pid[p], !.bot = (@ + 1) % MaxTasks,
            !.entry[p] = FALSE, !.rirq[p] = NULL, !.rtab[p] = <<>>]

(* A notification on PORT_CLOSE; the new thread waits in the queue.        *)
thread_sendv(k, rp) == thread_send(k, NULL, rp[1]).k

(* Mutants of process_kill: the interrupt stays redirected; the loop frees *)
(* the threads from number 1 on.                                           *)
process_kill_keeps_irq(k, p) ==
  process_free(ForThreads(thread_free, FoldLeft(thread_sendv, k, rtab_free(k.rtab[p])), p), p)

process_kill(k, p) ==
  LET r == FoldLeft(thread_sendv, k, rtab_free(k.rtab[p]))
      i == IF r.rirq[p] = NULL THEN r ELSE irq_set_redirect(r, 0, r.rirq[p])
  IN process_free(ForThreads(thread_free, i, p), p)

-----------------------------------------------------------------------------
(* Handlers.  int_handler returns to the thread that the handler names, or *)
(* to the one that was interrupted.                                        *)

int_handler(s) ==
  /\ kernel' = s.k
  /\ image' = IF s.image = NULL THEN image ELSE s.image

Stay(k) == int_handler([k |-> k, image |-> image])

proc == kernel.proc[image]
Free == Thread \ kernel.alive

(* Restrictions on the calls: see the constant Beyond.                     *)
Within(name, condition) == name \notin Beyond => condition

(* Room for n more threads in p.                                           *)
HasRoom(p, n) ==
  /\ n <= Cardinality(Free)
  /\ Within("table_full", n <= Cardinality({i \in Slot : kernel.thread[p][i] = NULL}))

MayReceive(p, n) == p # NULL /\ kernel.entry[p] => HasRoom(p, n)

MayFreeze(p) ==
  /\ Within("init_stops", p # Init1)
  /\ \A i \in Slot : kernel.thread[p][i] # NULL =>
                        kernel.frozen[kernel.thread[p][i]] < MaxFrozen

(* How many of the connections tab lead to the process pid.                *)
Entries(tab, pid) ==
  Cardinality({i \in DOMAIN tab : tab[i] # NULL /\ tab[i].b[1] = pid})

timer_handler == int_handler(NextThread(kernel))

(* A send to pid 0 gives the rest of the time slice away.  A signal to one *)
(* process is a send without a packet.                                     *)
syscall_send(pid) ==
  IF pid = 0 THEN int_handler(NextThread(kernel))
  ELSE /\ MayReceive(process_get(kernel, pid), 1)
       /\ int_handler(thread_send(kernel, image, pid))

syscall_also ==
  /\ HasRoom(proc, 1)
  /\ int_handler(Spawn(kernel, proc))

syscall_done ==
  /\ image # Keeper
  /\ int_handler(Resume(thread_free(kernel, image)))

syscall_exit ==
  /\ kernel.pid[proc] # 1             \* "init died"
  /\ Cardinality(Free) >= Len(kernel.rtab[proc])
  /\ \A pid \in Pid : MayReceive(process_get(kernel, pid), Entries(kernel.rtab[proc], pid))
  /\ int_handler(Resume(process_kill(kernel, proc)))

syscall_fork(child) ==
  /\ child \in Proc \ Range(kernel.table) /\ Free # {}
  /\ Within("pid_full", kernel.table[kernel.pidlist[kernel.top]] = NULL)
  /\ Within("fork_frozen", kernel.frozen[image] = 0)
  /\ LET k == process_clone(kernel, child, image)
     IN int_handler([k |-> k, image |-> k.thread[child][0]])

syscall_when(entry) == Stay([kernel EXCEPT !.entry[proc] = entry])

(* Mutant of fault: the message is sent before the process is frozen.      *)
fault_sends_first ==
  /\ MayFreeze(proc) /\ MayReceive(proc, 1)
  /\ LET s == thread_send(kernel, image, kernel.pid[proc])
     IN int_handler([s EXCEPT !.k = process_freeze(s.k, proc)])

(* A fault of the running thread: fault_page outside the stack segment,    *)
(* fault_generic, fault_float, fault_gpf and fault_nomath.                 *)
fault ==
  /\ MayFreeze(proc) /\ MayReceive(proc, 1)
  /\ int_handler(thread_send(process_freeze(kernel, proc), image, kernel.pid[proc]))

(* stop(-1) and stop(tid).                                                 *)
syscall_stop_all ==
  /\ MayFreeze(proc)
  /\ Stay(thread_thaw(process_freeze(kernel, proc), image))

syscall_stop(tid) ==
  LET t == kernel.thread[proc][tid]
  IN /\ t # NULL /\ kernel.frozen[t] < MaxFrozen
     /\ Within("init_stops", t # Keeper)
     /\ Stay(thread_freeze(kernel, t))

(* wake(-1) and wake(tid).                                                 *)
syscall_wake_all ==
  /\ Within("init_stops", image # Keeper)
  /\ kernel.frozen[image] < MaxFrozen
  /\ Within("wake", \A i \in Slot : kernel.thread[proc][i] \notin {NULL, image} =>
                                        kernel.frozen[kernel.thread[proc][i]] > 0)
  /\ Stay(process_thaw(thread_freeze(kernel, image), proc))

syscall_wake(tid) ==
  LET t == kernel.thread[proc][tid]
  IN /\ t # NULL
     /\ Within("wake", kernel.frozen[t] = 1)
     /\ int_handler([k |-> thread_thaw(kernel, t), image |-> t])

syscall_rirq(irq) ==
  LET r == IF kernel.rirq[proc] = NULL THEN kernel
           ELSE irq_set_redirect(kernel, 0, kernel.rirq[proc])
  IN Stay(irq_set_redirect([r EXCEPT !.rirq[proc] = irq], kernel.pid[proc], irq))

irq_redirect(irq) ==
  /\ MayReceive(process_get(kernel, kernel.holder[irq]), 1)
  /\ int_handler(thread_send(kernel, NULL, kernel.holder[irq]))

syscall_proc_set_parent(pid) ==
  /\ kernel.table[pid] # NULL
  /\ Stay([kernel EXCEPT !.parent[proc] = kernel.table[pid]])

(* A server, which owns b, enters a connection in the table of the client; *)
(* a client, which owns a, closes one.  EBX, which is to hold the          *)
(* operation, is never read: the code takes EDX, the index of a, for it.   *)
rtab_call(k, p, a, b) ==
  LET c      == [a |-> a, b |-> b]
      client == process_get(k, a[1])
      closed == rtab_close(k.rtab[p], c)
  IN CASE a[2] = 0 /\ b[1] = k.pid[p] /\ client # NULL ->
            [k EXCEPT !.rtab[client] = rtab_open(@, c)]
       [] a[2] = 1 /\ a[1] = k.pid[p] ->
            FoldLeft(thread_sendv, [k EXCEPT !.rtab[p] = closed.tab], closed.notify)
       [] OTHER -> k                  \* an error is returned

syscall_rtab(a, b) ==
  LET k == rtab_call(kernel, proc, a, b)
  IN /\ a[2] = 1 => MayReceive(process_get(kernel, b[1]), 1)
     /\ \A p \in Proc : Len(k.rtab[p]) <= MaxConn
     /\ Stay(k)

(* The children of pid, by the pids that their parent pointers lead to.    *)
Children(k, pid) ==
  {i \in Pid : /\ k.table[i] # NULL
               /\ k.parent[k.table[i]] # NULL
               /\ k.pid[k.parent[k.table[i]]] = pid}

Subtree(k, root) ==
  {i \in Pid : \A S \in SUBSET Pid :
                  root \in S /\ (\A j \in S : Children(k, j) \subseteq S) => i \in S}

(* Children first, in the order of their pids.  A recursion deeper than    *)
(* there are pids runs in a loop and overflows the kernel stack; a root    *)
(* that does not exist is a null pointer.                                  *)
RECURSIVE signal_subtree(_, _, _, _)
signal_subtree(k, sender, root, depth) ==
  LET child(m, i) == IF i \in Children(k, root) /\ m.queue.cpu = "run"
                     THEN signal_subtree(m, sender, i, depth + 1) ELSE m
      r == FoldLeft(child, k, [i \in 1..MaxTasks |-> i - 1])
      s == thread_send(process_freeze(r, k.table[root]), sender, root)
  IN IF depth > MaxTasks THEN [k EXCEPT !.queue.cpu = "panic"]
     ELSE IF r.queue.cpu # "run" THEN r
     ELSE IF k.table[root] = NULL THEN [r EXCEPT !.queue.cpu = "panic"]
     ELSE Queued(s.k, s.image)

(* kill() of a group, the pid negated: fbterm and biterm on Control-C.     *)
syscall_kill_group(root) ==
  /\ root # 0
  /\ Within("kill_dead", kernel.table[root] # NULL)
  /\ Within("kill_loop", \A i \in Subtree(kernel, root) :
                            \A j \in Children(kernel, i) : i \notin Subtree(kernel, j))
  /\ LET group == {kernel.table[i] : i \in Subtree(kernel, root)} \ {NULL}
     IN /\ Cardinality(group) <= Cardinality(Free)
        /\ \A p \in group : MayFreeze(p) /\ MayReceive(p, 1)
        /\ Within("kill_deaf", \A p \in group : kernel.entry[p])
  /\ Stay(signal_subtree(kernel, image, root, 0))

(* The new program starts on the stack of its thread: dl/enter.s, at the   *)
(* end of exec().                                                          *)
dl_enter == Stay([kernel EXCEPT !.seg[image] = kernel.id[image]])

Step(name) == name \in Calls /\ kernel.queue.cpu = "run"

Next ==
  \/ Step("timer") /\ timer_handler
  \/ Step("also") /\ syscall_also
  \/ Step("done") /\ syscall_done
  \/ Step("exit") /\ syscall_exit
  \/ Step("fault") /\ fault
  \/ Step("stop") /\ syscall_stop_all
  \/ Step("wake") /\ syscall_wake_all
  \/ Step("exec") /\ dl_enter
  \/ \E pid \in Pid : \/ Step("send") /\ syscall_send(pid)
                      \/ Step("kill") /\ syscall_kill_group(pid)
                      \/ Step("proc") /\ syscall_proc_set_parent(pid)
  \/ \E child \in Proc : Step("fork") /\ syscall_fork(child)
  \/ \E e \in BOOLEAN : Step("when") /\ syscall_when(e)
  \/ \E tid \in Slot : \/ Step("stop") /\ syscall_stop(tid)
                       \/ Step("wake") /\ syscall_wake(tid)
  \/ \E irq \in Irq : \/ Step("rirq") /\ syscall_rirq(irq)
                      \/ Step("irq") /\ irq_redirect(irq)
  \/ \E a \in Rp, b \in Pid \X Served : Step("rtab") /\ syscall_rtab(a, b)

Spec == Init /\ [][Next]_vars

-----------------------------------------------------------------------------

TypeOK ==
  /\ image \in Thread
  /\ kernel.queue \in Queue
  /\ kernel.alive \subseteq Thread
  /\ kernel.frozen \in [Thread -> 0..MaxFrozen]
  /\ kernel.proc \in [Thread -> Proc \cup {NULL}]
  /\ kernel.id \in [Thread -> Slot \cup {Unbound}]
  /\ kernel.seg \in [Thread -> Slot \cup {Unbound}]
  /\ kernel.pid \in [Proc -> Pid]
  /\ kernel.parent \in [Proc -> Proc \cup {NULL}]
  /\ kernel.entry \in [Proc -> BOOLEAN]
  /\ kernel.rirq \in [Proc -> Irq \cup {NULL}]
  /\ kernel.thread \in [Proc -> [Slot -> Ptr]]
  /\ \A p \in Proc : kernel.rtab[p] \in BoundedSeq(Connection \cup {NULL}, MaxConn)
  /\ kernel.table \in [Pid -> Proc \cup {NULL}]
  /\ kernel.pidlist \in [Pid -> Pid] /\ kernel.top \in Pid /\ kernel.bot \in Pid
  /\ kernel.holder \in [Irq -> Pid]

Runnable == {t \in kernel.alive : kernel.frozen[t] = 0}

Processes == Range(kernel.table) \ {NULL}

ThreadsOf(p) == {t \in kernel.alive : kernel.proc[t] = p}

(* The processor never stops in debug_panic nor in an endless loop of the  *)
(* kernel, and the scheduling queue is one proper list of exactly the      *)
(* threads that are allocated and not frozen, whatever system calls,       *)
(* faults and interrupts follow each other.                                *)
QueueExact ==
  LET q == kernel.queue
  IN /\ q.cpu = "run"
     /\ Reach(q) = Runnable
     /\ q.in \in Runnable /\ q.next[q.in] = NULL
     /\ \A x, y \in Runnable : q.next[x] = q.next[y] /\ q.next[x] # NULL => x = y

(* Threads and processes refer to each other consistently: the running     *)
(* thread exists, each thread belongs to a process in process_table and is *)
(* in the slot of its id, and no slot of a process holds a thread that was *)
(* freed or is another process's.  In particular process_kill leaves no    *)
(* thread behind.                                                          *)
ThreadsOwned ==
  /\ image \in kernel.alive
  /\ \A t \in kernel.alive :
       /\ kernel.proc[t] \in Processes
       /\ kernel.id[t] \in Slot
       /\ kernel.thread[kernel.proc[t]][kernel.id[t]] = t
  /\ \A p \in Processes, i \in Slot :
       kernel.thread[p][i] # NULL => kernel.thread[p][i] \in ThreadsOf(p)

(* The ring pidlist holds, from top to bot, each pid that is not in use    *)
(* once, and a process has the pid under which process_table lists it:     *)
(* process_alloc never hands out the pid of a live process.                *)
PidsExact ==
  LET free == {i \in Pid : kernel.table[i] = NULL}
      ring == {(kernel.top + n) % MaxTasks : n \in 0..Cardinality(free) - 1}
  IN /\ {kernel.pidlist[i] : i \in ring} = free
     /\ (kernel.top + Cardinality(free)) % MaxTasks = kernel.bot
     /\ \A i \in Pid \ free : kernel.pid[kernel.table[i]] = i

(* An interrupt is redirected only to a live process that asked for it,    *)
(* also after the process that asked has died and its pid was reused.      *)
IrqOwned ==
  \A i \in Irq : kernel.holder[i] # 0 =>
    LET p == kernel.table[kernel.holder[i]] IN p # NULL /\ kernel.rirq[p] = i

(* The queue, the slots of the processes, the pids and the interrupts      *)
(* agree after every handler: they are four tables that point into each    *)
(* other, and process_kill, fork and signals change all of them.           *)
Consistent == QueueExact /\ ThreadsOwned /\ PidsExact /\ IrqOwned

(* After a fault the process has exactly one thread that can run, the new  *)
(* one that handles the fault, and that one runs.                          *)
FaultStopsProcess ==
  [][fault /\ kernel.entry[proc] => {image'} = {t \in Runnable' : kernel'.proc[t] = proc}]_vars

(* After a signal to a group, each process of the group, root or           *)
(* offspring, has exactly one thread that can run, and it is a new one.    *)
SignalStopsGroup ==
  [][kernel'.alive # kernel.alive =>
     \A root \in Pid : syscall_kill_group(root) =>
       \A p \in {kernel.table[i] : i \in Subtree(kernel, root)} :
         \E t \in kernel'.alive \ kernel.alive :
           {t} = {u \in Runnable' : kernel'.proc[u] = p}]_vars

(* stop(-1) blocks all threads of the process except the current one, and  *)
(* leaves the current one as it was.                                       *)
StopAllButOne ==
  [][syscall_stop_all =>
       /\ image' = image /\ kernel'.frozen[image] = kernel.frozen[image]
       /\ \A t \in ThreadsOf(proc) \ {image} : kernel'.frozen[t] > 0]_vars

(* A thread that is frozen is not switched to ("Prevents the given thread  *)
(* from running until it is later thawed", thread_freeze): no handler      *)
(* returns to one, unless it was running already.                          *)
FrozenStaysOut == [][image' # image => kernel'.frozen[image'] = 0]_vars

(* When a process exits, each entry of its table of connections is         *)
(* announced to the process at the other end, if that one can receive      *)
(* messages, and no other process gets a thread.                           *)
ExitAnnounced ==
  [][(proc \notin Processes') =>
       \A p \in Processes' :
         Cardinality({t \in kernel'.alive \ kernel.alive : kernel'.proc[t] = p})
         = IF kernel.entry[p] THEN Entries(kernel.rtab[proc], kernel.pid[p]) ELSE 0]_vars

-----------------------------------------------------------------------------
(* What comments of the code say and the code does not do, under the       *)
(* calls that Beyond names or that the kernel does not restrict.           *)

(* Every fault and system call returns to a thread: a fault freezes the    *)
(* process and sends it a message (fault_page), a signal reaches all of a  *)
(* group or is an error (syscall_kill).                                    *)
NeverPanics == kernel.queue.cpu = "run"

(* A thread that can run is on the scheduling queue: schedule_insert       *)
(* "adds a thread to the scheduler", and takes none away.                  *)
NoThreadLost == Runnable \subseteq Reach(kernel.queue)

(* process_kill "frees a process entirely": no thread outlives its         *)
(* process.                                                                *)
FreedEntirely == \A t \in kernel.alive : kernel.proc[t] \in Processes

(* process_alloc "returns a pointer to a process that was not previously   *)
(* allocated": it never takes the pid of a process that lives.             *)
PidsFresh ==
  [][\A i \in Pid : kernel.table[i] # NULL => kernel'.table[i] \in {kernel.table[i], NULL}]_vars

(* thread_bind "returns a free segment": no two threads of a process have  *)
(* their stacks in the same segment.                                       *)
StacksDisjoint ==
  \A t, u \in kernel.alive :
    kernel.proc[t] = kernel.proc[u] /\ kernel.seg[t] = kernel.seg[u] => t = u

(* rtab_open leaves a table alone that "already contains this connection": *)
(* no connection is in a table twice.                                      *)
ConnectionsOnce ==
  \A p \in Proc : \A i, j \in DOMAIN kernel.rtab[p] :
    kernel.rtab[p][i] = kernel.rtab[p][j] /\ kernel.rtab[p][i] # NULL => i = j

(* RTAB_CLOSE in EBX: "Close the connection between A and B", for a caller *)
(* that owns A.                                                            *)
CloseCloses ==
  \A c \in Range(kernel.rtab[proc]) \ {NULL} : c.a[1] = kernel.pid[proc] =>
    c \notin Range(rtab_call(kernel, proc, c.a, c.b).rtab[proc])

(* syscall_rirq "sets the IRQ with number <irq> to be redirected to the    *)
(* current process": the exit of another process does not undo that.       *)
ExitKeepsIrqs ==
  [][(proc \notin Processes') =>
       \A i \in Irq : kernel.holder[i] # kernel.pid[proc] =>
                          kernel'.holder[i] = kernel.holder[i]]_vars

=============================================================================
