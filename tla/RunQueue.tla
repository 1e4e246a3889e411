------------------------------ MODULE RunQueue ------------------------------
(***************************************************************************)
(* The threads of the kernel and its scheduler: kernel/thread/schedule.c   *)
(* with the functions of kernel/thread/thread.c that call it.  Every       *)
(* handler of the kernel runs with interrupts off, so each action is one   *)
(* call.                                                                   *)
(*                                                                         *)
(* The calls are restricted to what the user programs of the repository    *)
(* do (the module Kernel has them all):                                    *)
(*   - the first thread of init never ends, stops or faults: its main()    *)
(*     ends in mwait(PORT_CHILD, 0), which polls, and "for(;;)".  It is    *)
(*     the Keeper, and keeps the queue from ever running empty;            *)
(*   - only a frozen thread is thawed.                                     *)
(***************************************************************************)
EXTENDS Schedule, Sequences, FiniteSets

CONSTANTS Keeper,     \* thread 0 of process 1
          MaxFrozen   \* bound on the frozen count of a thread

ASSUME KeeperAssumption == Keeper \in Thread
ASSUME FiniteAssumption == IsFiniteSet(Thread)
ASSUME FrozenAssumption == MaxFrozen \in Nat \ {0}

VARIABLES queue,    \* schedule_queue and the "next" field of every thread
          frozen,   \* the "frozen" field of every thread
          live,     \* the allocated thread structures
          image     \* the running thread

vars == <<queue, frozen, live, image>>

TypeOK ==
  /\ queue \in Queue
  /\ frozen \in [Thread -> 0..MaxFrozen]
  /\ live \subseteq Thread
  /\ image \in Thread

Init ==
  /\ queue = schedule_insert(EmptyQueue, Keeper)
  /\ frozen = [t \in Thread |-> 0]
  /\ live = {Keeper}
  /\ image = Keeper

-----------------------------------------------------------------------------

(* thread_alloc (heap_alloc clears the block) and schedule_insert, as in   *)
(* thread_send and process_clone; the caller switches to the new thread.   *)
Create(t) ==
  /\ t \notin live
  /\ live' = live \cup {t}
  /\ frozen' = [frozen EXCEPT ![t] = 0]
  /\ queue' = schedule_insert([queue EXCEPT !.next[t] = NULL], t)
  /\ image' = t

(* thread_free of a thread that does not run, as in process_kill.          *)
thread_free(t) ==
  /\ t \in live \ {Keeper, image}
  /\ live' = live \ {t}
  /\ queue' = schedule_remove(queue, t)
  /\ UNCHANGED <<frozen, image>>

thread_exit ==
  /\ image # Keeper
  /\ live' = live \ {image}
  /\ LET s == schedule_next(schedule_remove(queue, image), frozen)
     IN /\ s.thread # NULL     \* else cpu_idle
        /\ queue' = s.queue
        /\ image' = s.thread
  /\ UNCHANGED frozen

(* Mutant of thread_freeze: the thread stays queued.                       *)
thread_freeze_queued(t) ==
  /\ t \in live \ {Keeper}
  /\ frozen[t] < MaxFrozen
  /\ frozen' = [frozen EXCEPT ![t] = @ + 1]
  /\ UNCHANGED <<queue, live, image>>

(* The running thread may freeze itself; it goes on until the next tick.   *)
thread_freeze(t) ==
  /\ t \in live \ {Keeper}
  /\ frozen[t] < MaxFrozen
  /\ queue' = IF frozen[t] = 0 THEN schedule_remove(queue, t) ELSE queue
  /\ frozen' = [frozen EXCEPT ![t] = @ + 1]
  /\ UNCHANGED <<live, image>>

thread_thaw(t) ==
  /\ t \in live
  /\ frozen[t] > 0
  /\ frozen' = [frozen EXCEPT ![t] = @ - 1]
  /\ queue' = IF frozen'[t] = 0 THEN schedule_insert(queue, t) ELSE queue
  /\ UNCHANGED <<live, image>>

(* The timer interrupt, and a send to process 0, which yields.             *)
timer_handler ==
  /\ LET s == schedule_next(queue, frozen)
     IN /\ queue' = s.queue
        /\ image' = IF s.thread = NULL THEN image ELSE s.thread
  /\ UNCHANGED <<frozen, live>>

Running == queue.cpu = "run"

Next ==
  /\ Running
  /\ \/ timer_handler
     \/ thread_exit
     \/ \E t \in Thread : \/ Create(t)
                          \/ thread_free(t)
                          \/ thread_freeze(t)
                          \/ thread_thaw(t)

Spec == Init /\ [][Next]_vars

(* The timer interrupt comes 64 times a second whatever the threads do.    *)
FairSpec == Spec /\ WF_vars(Running /\ timer_handler)

-----------------------------------------------------------------------------

Runnable == {t \in live : frozen[t] = 0}

(* The list of the queue q is the sequence s: it starts at "out", ends at  *)
(* "in" with a null "next", and meets no thread twice.                     *)
Linked(q, s) ==
  /\ s # <<>>
  /\ q.out = s[1]
  /\ q.in = s[Len(s)]
  /\ \A i \in 1..Len(s) - 1 : q.next[s[i]] = s[i + 1]
  /\ q.next[s[Len(s)]] = NULL
  /\ \A i, j \in 1..Len(s) : s[i] = s[j] => i = j

Lines == UNION {[1..n -> Thread] : n \in 1..Cardinality(Thread)}

Elements(s) == {s[i] : i \in 1..Len(s)}

(* The queue is always one proper list, and the threads on it are exactly  *)
(* the allocated threads that are not frozen: no thread is lost or queued  *)
(* twice, no freed thread can be scheduled, and schedule_insert and        *)
(* schedule_remove never meet the state in which they panic.               *)
QueueExact ==
  /\ Running
  /\ \E s \in Lines : Linked(queue, s) /\ Elements(s) = Runnable

(* The thread the processor runs is allocated: no handler returns to a     *)
(* thread structure that was freed (thread_exit frees the one it is given, *)
(* process_kill those of a whole process).                                 *)
ImageLive == image \in live

(* The first thread of init stays runnable, so that the queue never runs   *)
(* empty, a state after which schedule_insert panics.  With it the         *)
(* invariants above are inductive.                                         *)
KeeperRuns == Keeper \in Runnable

IInv == TypeOK /\ QueueExact /\ ImageLive /\ KeeperRuns

(* A thread that is frozen is never switched to: the processor moves to    *)
(* another thread only if that thread is not frozen ("Prevents the given   *)
(* thread from running until it is later thawed").                         *)
FrozenStaysOut == [][image' # image => frozen'[image'] = 0]_vars

(* The line of threads that the pointers of the queue spell.               *)
Order == CHOOSE s \in Lines : Linked(queue, s)

Abstract == INSTANCE RoundRobin WITH order <- Order

(* The linked list with its handlers implements the round robin of the     *)
(* module RoundRobin.                                                      *)
ImplementsRoundRobin == Abstract!Spec

(* No thread starves: one that is runnable runs again, unless it stops     *)
(* being runnable, even when new threads, which run at once, keep coming.  *)
NoStarvation == \A t \in Thread : t \in Runnable ~> (image = t \/ t \notin Runnable)

=============================================================================
