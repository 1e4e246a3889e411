----------------------------- MODULE RoundRobin -----------------------------
(***************************************************************************)
(* What the scheduler of the kernel promises, without its pointers: the    *)
(* runnable threads stand in a line, a thread that becomes runnable joins  *)
(* at the end, one that stops being runnable leaves from where it stands,  *)
(* and each tick of the timer runs the thread in front and sends it to the *)
(* end.  A thread that was just created runs at once, without waiting for  *)
(* its turn.                                                               *)
(***************************************************************************)
EXTENDS Naturals, Sequences

CONSTANTS Thread, Keeper

VARIABLES order,   \* the runnable threads, the next one to run in front
          image    \* the thread the processor runs

abstractVars == <<order, image>>

Member(t) == \E i \in 1..Len(order) : order[i] = t

Init == order = <<Keeper>> /\ image = Keeper

(* A new or a thawed thread joins; only a new one is run at once.          *)
Join(t) ==
  /\ ~Member(t)
  /\ order' = Append(order, t)
  /\ image' \in {image, t}

(* The line s after t has left it, and after its first thread has gone to  *)
(* the end.                                                                *)
Without(s, t) ==
  LET k == CHOOSE i \in 1..Len(s) : s[i] = t
  IN [i \in 1..Len(s) - 1 |-> IF i < k THEN s[i] ELSE s[i + 1]]

Rotate(s) == Append(Tail(s), Head(s))

Leave(t) ==
  /\ Member(t) /\ t # Keeper
  /\ order' = Without(order, t)
  /\ UNCHANGED image

(* The running thread ends; the thread now in front takes the processor.   *)
Exit(t) ==
  /\ t # Keeper /\ image = t
  /\ LET rest == IF Member(t) THEN Without(order, t) ELSE order
     IN order' = Rotate(rest) /\ image' = Head(rest)

Tick ==
  /\ order' = Rotate(order)
  /\ image' = Head(order)

Next == Tick \/ \E t \in Thread : Join(t) \/ Leave(t) \/ Exit(t)

Safety == Init /\ [][Next]_abstractVars

Spec == Safety /\ WF_abstractVars(Tick)

=============================================================================
