# A TLA+ model of Rhombus

Rhombus is a microkernel for one x86 processor with a C library, a library for
drivers, drivers and daemons that talk to each other by messages, and a few
applications. This directory models the parts of it that have state and
concurrency, checks them with TLC on small instances, and proves the central
ones with TLAPS for every instance. `PROJECT.json` maps every definition to the
lines it models, and lists runs, hazards, findings and theorems.

## 1. The system and its parts

| Part | State | Operations |
|---|---|---|
| scheduler (`kernel/thread/schedule.c`) | `schedule_queue`, `next` of each thread | insert, remove, next |
| threads, processes (`kernel/thread`, `kernel/process`) | frozen counts, slots, the ring of pids, parents, message handlers | create, send, freeze, thaw, exit, clone, kill |
| connections (`kernel/process/rtab.c`) | a table for each process | open, close, announce at exit |
| faults, interrupts (`kernel/fault`, `kernel/int`, `kernel/irq`) | who gets an interrupt | stop and tell the process; timer; redirect |
| memory (`kernel/mem`, `syscall_page.c`, `syscall_send.c`) | frames with reference counts, page tables, packets; slabs | map, unmap, protect, send, fork, exit |
| messages (`libc/ipc`, `libc/rhombus/rcall.c`) | a linked queue for each port | event, push, pull, wait, call |
| descriptors (`libc/rhombus/fdtab.c`, `contab.c`, `ropen.c`, ...) | descriptors, connections, status in the server | open, reopen, duplicate, close, exit |
| `malloc` (`libc/stdlib/malloc.c`) | buddy tree, free lists, lock | malloc, aalloc, free |
| rest of libc | hash tables, streams, environment, signal handlers | one action each |
| objects (`librdi`) | index tree, open tables, directories, links | construct, open, close, find, link, unlink, list |
| drivers and daemons | pipes, files, terminals, windows | one action per section of a handler |

A message to a process *is* a new thread in it: `thread_send` allocates a
thread, puts it into a slot, queues it and switches to it. Signals, faults,
redirected interrupts and close notices all use it. A kernel handler runs with
interrupts disabled on a single kernel stack (`kernel/int/int.s`), so it is one
atomic step; concurrency in the kernel is the order of calls, ticks, interrupts
and faults. A user process is concurrent in itself, one thread per message, with
spin locks; there a step is a section under a lock, a system call, or the code
between two of them.

## 2. Modules

| Module | Models | State and actions |
|---|---|---|
| `Schedule` | the queue of the scheduler | a record of the pointers `in`, `out`, `next` and of what became of the processor (runs, panicked, loops); the three operations |
| `RunQueue` | the scheduler with its callers | live and frozen threads, the running one; creation, exit, freeing, freezing, thawing, the timer |
| `RoundRobin` | what the scheduler promises | a line of runnable threads |
| `Rtab` | the connection table of a process | operators on a sequence of entries and holes |
| `Kernel` | processes and threads with the calls, faults and interrupts that change them | the memory of the kernel is one record; kernel functions are operators on it, each handler is one action |
| `Frames` | frames, address spaces, packets | the allocator with counts and emergency pool, page tables as functions; one action per source of `page()`, and `send`, `done`, `fork`, exit, stack growth |
| `Slab` | the heap of the kernel | lists of blocks; alloc, free, a new slab |
| `Heap` | `malloc` | leaves of the buddy tree, lists, lock; a search goes level by level |
| `Mailbox`, `Messages` | message queues: what they promise; the linked lists of `mqueue.c` with events, calls, waiting threads and the server's reply | one action per section under a queue's mutex |
| `Session` | descriptors and connections of a program, and the server's table | a call goes through its phases (change, get, connect, undo), the request through those of the server; clearing a descriptor (`ropen_null`), exit, notices, end of the server |
| `Index`, `Table` | the AVL tree of `librdi`, the hash table of libc | the structure, and the function it stands for |
| `Stream`, `Stdio` | a file with a position; buffered streams over tmpfs | one action per `stdio` call; `fseek` and `setvbuf` in two sections; the size that `fopen` asks for is any number when the file has no data |
| `Exec` | environment, arguments and streams across `exec()` | pack, load, unpack |
| `Signals` | handlers and the threads that run them | raise, run, reset, install under `__sigmutex` |
| `Goban` | the board of calico | a move with merges, captures, ko, and the bitmap of group IDs |
| `Pipe` | the pipe driver with `librdi` | nodes by pointers; reads and writes byte by byte, open and close |
| `Vfs` | paths, directories and links of several drivers | clients and drivers, request by request; searches that follow the last link and searches that do not (`-L`) |
| `Terminal` | `fbterm`, `biterm` | cells and cursor, printing under the mutex, clearing and resizing in two steps without it; typed lines, stored and passed on; reads in steps (look for a line, take one, take a byte) |
| `Windows` | the window manager | list, tiling, active window, mouse, screen, sharing; one step for each handler |
| `MC*` | small instances, symmetry and view | `MCLibrary` and `MCDrivers` put parts that do not interact into one run: the initial state chooses one of them |
| `*Proofs`, `*Lemmas` | section 5 | |

A call that fails returns an error and changes no modelled state, so it is a
stuttering step. Payloads, names and registers are model values. Freed process
structures keep the fields that the code still reads through children.
`syscall_exec` is not registered in `init_int_handler`.

### What the code leaves to its callers

Much of the code trusts its callers, its memory or the order of events. What a
part does not withstand is left out of its passing run, by a restriction that
the constant `Beyond` (`Calls`, `Deaf` and `Perms` in `Frames`) lifts, and that
the head of the module explains. These are restrictions of the model, not
guarantees of the system: some of the events can occur with the programs of the
repository. A terminal, for instance, signals the group of a foreground job that
may have exited (`kill_dead`), may be in `exec()` (`kill_deaf`) or may have
orphans (`kill_loop`). Section 4 shows what happens without each restriction.

## 3. Passing runs

| Run | Bounds | Shows |
|---|---|---|
| `scheduler` | 4 threads, frozen counts to 2 | the list holds exactly the runnable threads (`QueueExact`), no switch to a frozen thread, the list implements `RoundRobin`, no thread starves |
| `threads` | 4 threads, 3 processes, 3 slots, frozen counts to 2, 1 interrupt line | `Consistent`: queue, slots, pids and holders of interrupts agree; a fault stops its process |
| `groups` | 5 threads, 4 processes, 2 slots, no other freezing | the same for signals to a process and its offspring, with dead and changed parents; each member is stopped and gets one handler |
| `connections` | 4 threads, 3 processes, 2 connections | an exit announces each connection, also after others were closed |
| `memory` | 2 processes of 2 pages, 3 frames, an emergency pool | the count of a frame is the number of references to it; a process gains only frames that nobody used, or those of a packet sent to it |
| `heap` | 2 threads, a heap of 4 bytes, pages of 2, requests 0, 1, 3, 9 | blocks partition the heap, lists are exact, `free` accepts what `malloc` returned, live blocks are mapped and large enough |
| `sessions` | programs of 1 and of 2 threads, 2 resources, 2 descriptors, 2 modes | the server's status agrees with the program's table, covers its descriptors, is never closed on the way, and is forgotten after exit |
| `messages` | 3 threads, 3 messages, a child | own replies, exact lists, refinement of `Mailbox`, every call is answered |
| `library` | tree of 7 keys, tables of 4 and of 8 keys, files of 3 bytes, 3 variables, 2 signals in 3 threads, a heap of 41 words, a board of 3 x 3 with 5 group IDs and 5 moves | `Index`, `Table`, `Stdio`, `Exec`, `Signals`, `Slab`, `Goban` against what they stand for |
| `drivers` | 3 processes and 3 bytes each at a pipe; 3 directories, 2 links, 2 clients; 4 sizes of screen; 3 windows | the pipe is a queue whose readers see its end, paths and lists are right, searches end, the screen shows what is printed, lines arrive whole, windows are laid out after each handler |

Why the bounds are enough for the cases that matter: four threads give a queue
with a first, a middle, a last and a removed thread. Three or four pids make the
ring wrap and pids be reused. Signals to a group need a fifth: besides init's
thread, which never ends, a thread each for the sender and another member, and a
handler for each member that is reached. So a group has a member that is found
as a child, and signals go to the sender's own group and to that of a parent, a
child, or a process that has come in the place of either. Frozen counts of 2 distinguish counting from a
flag. Three frames are fewer than two processes ask for, so the list runs empty
and the emergency pool is used up. The heap splits twice, fails on a request
that does not fit, and shares pages between blocks. Two threads in `Session`
suffice for every race between its sections, two resources for holes in its
table. With three messages the list of a port has a first, a middle and a last
node, and a thread can take the middle one. The tree has room for every
rotation. The table of four keys grows, and the hash of its keys is any (up to
their order); the one of eight keys, two of which collide at every size, also
shrinks with both of them in it. Five moves use up the group IDs of the board.
In the windows' part a handler is one step, which the code does not ensure:
`update_screen` waits for a reply (`screen.c:66`) while other threads may come. Each run of `Kernel` turns on the calls its question is
about (`Calls`), since their product is out of reach. Threads and process
structures without a role are symmetric. `View` in `MCKernel` drops what no
later step reads: the rotation of the pid ring, and fields of dead processes
that nothing points to.

**Fairness.** `scheduler`: the timer ticks, which is the hardware's periodic
timer; threads need not do anything. `sessions`, `messages`, `drivers`: each
thread that is in a call, in a handler or waiting goes on, which the scheduler
guarantees (`NoStarvation`; `mwait` polls). A program need not call, write, close
or exit, and a child need not report. `PipeReadsEnd` therefore asks only that a
read ends once nobody can write any more.

## 4. Where the code and what is said of it part

Two runs of `PROJECT.json` end with a violation, and its findings quote the
comment that says otherwise:

- `connection_hole`: a closed descriptor leaves an empty entry in the table of
  connections; the next connection to a resource that is open already takes it,
  and the server is told the status of that entry alone. "The real connection
  will have a status that is a superset of <status>" does not hold.
- `init_fault`: a fault of init, alone in the queue, ends in a panic, although a
  fault is to stop the process and tell it.

Each of the following changes of a configuration ends with a violation as well:
of the property named, with the constant, without the check for deadlock, and for
`Library.cfg` and `Drivers.cfg` with `Chosen` reduced to the part. They show what the restrictions of the
passing runs keep out.

| Configuration | Change | Property | What happens |
|---|---|---|---|
| `KernelGroups` | `Beyond` `kill_dead` | `NeverPanics` | a group signal to a process that is gone follows a null pointer |
| | `kill_loop` | `NeverPanics` | stale parents form a loop, the recursion does not end |
| | `kill_deaf` | `NoThreadLost` | in a group with a process without a handler the sender is queued twice, and a thread is lost |
| `KernelThreads` | `fork_frozen` | `NeverPanics` | a copied frozen thread is queued, the scheduler loops for ever |
| | `wake` | `NoThreadLost`, `FrozenStaysOut` | `wake()` queues a thread twice that is not stopped, and runs one that was stopped twice |
| | `table_full`, 2 slots | `FreedEntirely` | a thread without a slot outlives its process |
| | `pid_full`, 4 processes | `PidsFresh` | a pid in use is handed out |
| | none | `StacksDisjoint` | a message before `exec()` shares the child's stack |
| | none | `ExitKeepsIrqs` | an exit takes an interrupt from its new holder |
| `KernelConnections` | none | `CloseCloses` | the operation is read from the wrong register |
| | `Served = {0, 1}` | `ConnectionsOnce` | a connection is entered again in a free entry before it |
| `Frames` | `Calls` `self` | `RefExact` | a page moved onto itself is freed first |
| | `Perms` with `link` | `RefExact` | `fork()` shares a linked page without a reference |
| | `Calls` `packet` | `RefExact` | `fork()` copies the pointer to a pending packet |
| | `Deaf = {2}` | `RefExact` | the packet for a process without a handler is lost |
| `Heap` | none | `FailsOnlyWhenFull` | blocks are never joined, so that `malloc` fails with enough bytes free |
| `Session` | `Programs <- MCPair` | `Superset` | two threads tell the server in the other order |
| | `MCOne`, `reclose` | `Superset` | a closed descriptor still names its connection |
| | `MCOne`, `forget` | `NothingLeft` | `ropen()` of no resource on a descriptor in use leaves the connection open until the exit |
| | `MCTwo`, `reopen` | `Superset` | a refused reopening drops what the descriptor had |
| | `MCOne`, `garbage`, `Low = 1`, `MaxFd = 3` | `Superset` | the descriptor table grows into memory that is not cleared |
| | `MCOne`, `exit_in_open` | `Forgotten` | the notice of an exit is handled before the open that it overtook |
| `Messages` | none | `OwnReplyAlways` | threads that share a resource take each other's replies |
| | `push_oom` | `TypeOK` | `mqueue_push` without memory keeps the mutex |
| | `EndingSpec` | `Answered` | a server that ends leaves its callers polling |
| `Library` | `between`, `partial` | `StreamExact` | a write between the two sections of `fseek` is misplaced; after a partial write the beginning of the buffer is sent again |
| | `fails`; `grown` | `StreamFits`; `StreamTransparent` | a refused write leaves a full buffer; `SEEK_END` uses the size at opening |
| | `empty` | `StreamTransparent` | the size of a file without data is not initialized, and `SEEK_END` and appending use it |
| | none | `IndexNeverCrash`, `IndexBalanced` | deletions leave stale heights, up to a rotation around a child that is not there |
| | `ids`, 7 moves | `GoGroupsExact` | with all IDs in use the search runs on into `ko_group`, and the next group gets an ID that is not its own |
| | none; 9 moves | `GoLibsExact`; `GoCapturesRight` | liberties are counted wrong, and then stones with liberties are captured |
| | none; `missing`; `refused` and `RefusingSpec` | `ExecNoCrash` | deleting the last variable, or one that does not exist, or going on after a refused `exec()` uses memory that is not there |
| | `backspace`; none | `ExecKeeps`; `ExecThreadSafe` | an argument ends the pack; a variable is replaced under a reader |
| | `again` | `SignalNoSelfWait` | a handler that installs a handler waits for its own thread |
| `Drivers` | none | `PipeEndOfFile` | a read ends early with bytes in the pipe |
| | `Calls` `both` | `FilesNoReplaceAlways`, `FilesListExactAlways` | two clients replace each other's file, or lose an entry of a list |
| | `Calls` `link` | `FilesLinkKept` | making a file where a dangling link is replaces the link |
| | none; `long` | `TermInOrder`; `TermWhole` | lines are read last one first; a long line is read on behind its end |
| | `shrink`, `above`, `narrow`, `return` | `TermShows` | the cursor leaves the screen, or a block stays behind |
| | `drawn` | `TermShows` | a print between the two steps of clearing or resizing leaves a block behind, or is followed by a cursor elsewhere |
| | `typing`; `readers` | `TermWhole` | a key while a line is passed on is lost or passed on with it; two readers share one position in a line |
| | `share`; `flags`, `panel` | `DeskBitmapFits`; `DeskLaidOut` | shared memory has the old size; the tiling is not redone |
| | none | `DeskActiveVisibleAlways` | without tiles a hidden window stays active |
| | 3 movements in `MCDrivers` | `DeskMainChanges` | the key for the main window does not change it |

## 5. Proofs

TLAPS checks every proof; nothing is assumed but the named assumptions on
constants. For each component: what holds for every instance, and the inductive
invariant behind it.

### Scheduler (`RunQueueProofs`)

`QueueIsExact`, `FrozenNeverRuns`, `Refinement` (of the safety part of
`RoundRobin`), `TypeCorrect`, `ImageIsLive`, for every finite set of threads and every bound on the
frozen count. `IInv` is the type, `QueueExact`, `ImageLive` and `KeeperRuns`.
`QueueExact` alone is not inductive: a queue that becomes empty keeps a stale
`in`, and the next insert panics. That init's main thread is always runnable
rules that out; `init_fault` shows what happens when it is not. Lemmas say what
insertion, removal and rotation do to the linked sequence.

### malloc (`HeapProofs`)

`BlocksPartition`, `FreeListsExact`, `LiveBlocksFreeable`, `LiveBlocksMapped`,
`BlocksAligned`, `BlocksFit`, for every size of heap and page and every set of
threads and of requests of 32 bits, as `uintptr_t` has them. `HeapInv` adds to the properties what a thread has in its hands: a
block taken from a list is a free leaf of the level the thread has come to, in
no list and in nobody else's hands, also after the lock is released. `MemInv`
adds that a block begins at a multiple of its size, so that what `free` unmaps
lies inside its block. `BlocksFit` rests on a proof that the five tests of
`ilog2` find the ceiling of the logarithm for every number of 32 bits: after each
test, the number lies between the rest times a power of two and the next multiple
of it.

### Messages (`MessagesProofs`)

`RepliesOwn`, `RepliesOwnEnding` (a server may exit), `ListsHold`, and
`Refinement`: the doubly linked lists of `mqueue.c` implement `Mailbox`, where a
port is a sequence and a take removes the first match. `Inv` says that each
port's list, read from the front, is the sequence of its messages, that a
request or reply is for the thread that waits for it, and that a thread has at
most one message under way. The refinement mapping reads the list.

### Frames (`FramesLemmas`, `FramesProofs`)

`CountsExact` and `ProcessesIsolated`, for any finite sets of processes and
frames and any number of pages, under `Lawful`: no page is mapped onto itself,
no linked pages, no fork with a pending packet, every receiver has a handler.
These are the restrictions of the run; section 4 shows that the count is wrong
without any one of them. A count is the cardinality of a set of places (pages,
directories, entries of packets) and calls change several places in one loop, so
the proof has two layers. `FramesLemmas` has the arithmetic of references: what
one place more or less does to the count, a packet as a sequence of places, and
what each loop of the kernel (`Do`, `Loop`, `Each`) keeps from one index to the
next. `FramesProofs` has the invariant, `Inv`: until the kernel has panicked, the
counts are exact, the list holds the frames without a reference, each once, a
process that is gone has no pages, and only a thread has a packet. Each call is
a loop over pages that keeps "counts of the rest plus own references" exact.

### Signals (last section of `RunQueueProofs`)

`HandlersRunOnce`: for any threads and signals a handler runs at most once for
each time it was installed, also when handlers install handlers
(`"again"`). A handler that has run and is still in the table is that of the
signal whose thread holds the mutex: that is what the invariant adds.
`HandlersKept`: the reset after a handler takes away the handler that was called,
never one that was installed since. `Called` adds that while a thread runs the
handler of a signal, the one in the table for it has been called once. The two
are about `Signals!Once` and `Signals!NotLost`, which the run `library` checks as
`SignalOnce` and `SignalKept`. `Proper` says that the sets of threads
are disjoint and `NULL` is in neither.

### Connections (`SessionLemmas`, `SessionSteps`, `SessionProofs`)

For any threads, resources, modes, access rights, sizes of the tables and any
program:

- `StatusExact`: between calls of a program with one thread the server has noted
  exactly the status that the program's table says, also after refusals and
  their undoing, and whatever is in `Beyond`.
- `StatusCovers`, `NeverClosedOnTheWay`: for a program of one thread that uses
  one resource, the status covers every descriptor, and a reopening never closes
  the connection on its way. They assume `Kept`: none of `reclose`, `reopen`,
  `garbage`, `forget` is lifted. Section 4 shows the first three to be needed, and
  `connection_hole` that one resource is. `forget` only leaves a status that is
  too large; it is excluded because the invariant counts descriptors exactly.

`Inv` follows a call through its phases (`Real`): for every resource but the one
being changed the table and the server agree; while a change is asked for, the
request carries what the table says. `Cover` follows the plan of a call
(`Phase`): the counts of the table's only entry are the numbers of descriptors
with a bit, plus or minus what the rest of the plan will add and take away, also
on the way back after a refusal.

The claims of a section are proved together, as named steps of one lemma, which
exports the claims that later sections use. `SessionLemmas` has the tables and
their counts (`Tables`, `Rows`, `Covering`, `Counts`), what a plan leaves after
each of its changes (`Plans`), what a step does to a call (`Moves`), and the first
steps of a call (`Asking`, `Allocating`, `Reading`). `SessionSteps` has those that
change the table and tell the server (`Starting`, `Altering`, `Connecting`,
`Hearing`, `Finishing`). `SessionProofs` has the server (`Serving`) and puts
the steps together (`Calling`, `Keeps`, `Phases`, `Results`). What they need to know about finite sets is the hypothesis `Counting`;
the lemma `CountingHolds` discharges it from the library of theorems, and the
theorems follow.

### What is only model-checked, and why

- Liveness (`NoStarvation`, `Answered`, `Forgotten`, `PipeReadsEnd`,
  `FilesFindsEnd`), which needs fairness and `ENABLED`.
- `Kernel`: the group signal recurses over children, and the prover does not
  take modules with recursive operators. The same holds for `Index`, `Goban`,
  `Slab`, `Pipe` and `Vfs`.
- `Table`, `Stdio`, `Exec`, `Terminal`, `Windows`: what they compute is a fold over
  a sequence, and what a recursive definition computes for every input needs
  induction over data.

## 6. Not modelled

- Ported programs (`ports/`, Lua among them) and the applications other than
  calico: code of other projects, or programs for people with one thread.
- Device drivers: each request is a sequence of port reads and writes without
  state beyond the device's. The masks of the interrupt controller likewise.
- The vm86 monitor, which interprets machine code; single instructions, boot code,
  page directories and caches of translations.
- ELF loading and the start of the daemons: straight-line code.
- Text, numbers, time and formatting in libc: functions without state that
  outlives a call.
- Users and names of processes, types of robjects, sharing and mapping of files,
  drawing, escape sequences of the terminal.
