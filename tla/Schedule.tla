------------------------------ MODULE Schedule ------------------------------
(***************************************************************************)
(* The scheduling queue of kernel/thread/schedule.c: a singly linked list  *)
(* of thread structures, entered at "in" and left at "out".  This module   *)
(* holds the three operations of that file as functions of the queue; the  *)
(* modules that own a queue (RunQueue, Kernel) apply them in their         *)
(* actions.  The list is kept as the code keeps it, by pointers, since its *)
(* hazards are pointers that are stale.                                    *)
(***************************************************************************)
EXTENDS Naturals

CONSTANTS Thread,  \* the thread structures of the kernel heap
          NULL     \* the null pointer

ASSUME NullAssumption == NULL \notin Thread

Ptr == Thread \cup {NULL}

(* "cpu" records what became of the processor: it goes on ("run"), it     *)
(* stopped in debug_panic ("panic"), or it can never leave a loop that     *)
(* runs with interrupts disabled ("spin").                                 *)
Queue == [out  : Ptr,
          in   : Ptr,
          next : [Thread -> Ptr],
          cpu  : {"run", "panic", "spin"}]

EmptyQueue == [out  |-> NULL,
               in   |-> NULL,
               next |-> [t \in Thread |-> NULL],
               cpu  |-> "run"]

-----------------------------------------------------------------------------

(* Puts t behind the last thread.  The lines are the same in               *)
(* schedule_insert and schedule_next; "in->next" is written before         *)
(* "t->next", so a thread that already is the last one stays so.           *)
Enqueue(q, t) ==
  IF q.in = NULL
  THEN [q EXCEPT !.out = t, !.in = t, !.next[t] = NULL]
  ELSE [q EXCEPT !.in = t, !.next[q.in] = t, !.next[t] = NULL]

(* Mutant of schedule_insert: the thread is put in front.                  *)
schedule_insert_front(q, t) ==
  IF q.in = NULL THEN Enqueue(q, t) ELSE [q EXCEPT !.out = t, !.next[t] = q.out]

schedule_insert(q, t) ==
  IF q.out = NULL /\ q.in # NULL
  THEN [q EXCEPT !.cpu = "panic"]     \* "scheduler inconsistency"
  ELSE Enqueue(q, t)

(* The threads that a walk from "out" along "next" meets: the members of   *)
(* every set that holds "out" and is closed under "next".                  *)
Reach(q) ==
  {x \in Thread : \A S \in SUBSET Thread :
                     /\ q.out \in S
                     /\ \A y \in S : q.next[y] \in S \cup {NULL}
                     => x \in S}

(* Mutant of schedule_remove: "in" still points to a last thread removed.  *)
schedule_remove_stale_in(q, t) ==
  LET before == {x \in Reach(q) : q.next[x] = t}
      temp   == CHOOSE x \in before : TRUE
  IN IF q.out = t THEN [q EXCEPT !.out = q.next[t]]
     ELSE IF before = {} THEN q
     ELSE [q EXCEPT !.next[temp] = q.next[t], !.next[t] = NULL]

(* The head is cut off without a look at "in" and keeps its own "next";    *)
(* any other thread is searched for, and one that is not found is left.    *)
schedule_remove(q, t) ==
  LET before == {x \in Reach(q) : q.next[x] = t}
      temp   == CHOOSE x \in before : TRUE
  IN IF q.out = NULL THEN [q EXCEPT !.cpu = "panic"]  \* "scheduler empty"
     ELSE IF q.out = t THEN [q EXCEPT !.out = q.next[t]]
     ELSE IF before = {} THEN q
     ELSE [q EXCEPT !.next[temp] = q.next[t],
                    !.next[t]    = NULL,
                    !.in         = IF @ = t THEN temp ELSE @]

(* Mutant of schedule_next: the head stays in front.                       *)
schedule_next_stays(q, frozen) == [queue |-> q, thread |-> q.out]

(* Takes the head to the back and returns it.  The loop never re-reads the *)
(* head: with a frozen thread in front it repeats itself for ever.         *)
schedule_next(q, frozen) ==
  LET thread == q.out
      cut    == [q EXCEPT !.out = q.next[thread],
                          !.in  = IF q.next[thread] = NULL THEN NULL ELSE @]
  IN IF thread = NULL THEN [queue |-> q, thread |-> NULL]
     ELSE IF frozen[thread] = 0
          THEN [queue |-> Enqueue(cut, thread), thread |-> thread]
          ELSE [queue |-> [q EXCEPT !.cpu = "spin"], thread |-> thread]

=============================================================================
