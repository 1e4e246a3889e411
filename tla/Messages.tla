------------------------------ MODULE Messages ------------------------------
(***************************************************************************)
(* The messages of a process: libc/ipc (event.c, mqueue.c, mwait.c), with  *)
(* the calls that wait for a reply (rcall() in libc/rhombus/rcall.c; the   *)
(* same shape is in libc/natio) and the handler of the server that sends   *)
(* it (librdi/class_core.c).                                               *)
(*                                                                         *)
(* Each message that the kernel delivers runs in a thread of its own, and  *)
(* so does each request in the server; a step is a section under a mutex   *)
(* or the part of a function between two of them.                          *)
(*                                                                         *)
(* What the code does not withstand is left out, unless named in Beyond:   *)
(*   "event_oom"  on_event gets no memory for a message                    *)
(*   "push_oom"   mqueue_push gets no memory for a node                    *)
(***************************************************************************)
EXTENDS Naturals, Sequences, FiniteSets

CONSTANTS Thread,    \* threads that call and wait
          Msg,       \* messages; as many as can be around at once
          Uses,      \* Uses[t]: the resources that thread t calls
          Child,     \* processes that report to this one at PORT_CHILD
          MaxChild,  \* bound on their messages
          Every,     \* the source zero: any
          None,      \* no message
          Beyond     \* the restrictions that are lifted

ASSUME MessagesAssumption ==
  /\ IsFiniteSet(Msg) /\ None \notin Msg
  /\ \A t \in Thread : Every \notin Uses[t]

VARIABLES msg,    \* msg[m]: where message m is, its port, source, caller
          node,   \* node[m]: the neighbours of its node in the queue
          queue,  \* queue[p]: first and last node of port p, holder of its mutex
          wait    \* wait[t]: what thread t waits for

vars == <<msg, node, queue, wait>>

RP == UNION {Uses[t] : t \in Thread}
Port == {"reply", "child"}

Unused == [at |-> "unused", port |-> "reply", src |-> None, by |-> None]
Alone == [next |-> None, prev |-> None]
Idle(mine) == [port |-> "none", src |-> None, mine |-> mine]

Init ==
  /\ msg = [m \in Msg |-> Unused]
  /\ node = [m \in Msg |-> Alone]
  /\ queue = [p \in Port |-> [front |-> None, back |-> None, mutex |-> None]]
  /\ wait = [t \in Thread |-> Idle(TRUE)]

(* A message that is not in use; which one does not matter.                *)
Fresh == CHOOSE m \in Msg : msg[m].at = "unused"
Room == \E m \in Msg : msg[m].at = "unused"

-----------------------------------------------------------------------------
(* __rcall: the request is sent, and the thread waits for a reply of rp.   *)
rcall(t, rp) ==
  /\ wait[t].port = "none" /\ rp \in Uses[t] /\ Room
  /\ msg' = [msg EXCEPT ![Fresh] = [at |-> "request", port |-> "reply", src |-> rp, by |-> t]]
  /\ wait' = [wait EXCEPT ![t] = [port |-> "reply", src |-> rp, mine |-> TRUE]]
  /\ UNCHANGED <<node, queue>>

(* mwait(PORT_CHILD, source)                                               *)
mwait_child(t, src) ==
  /\ wait[t].port = "none"
  /\ wait' = [wait EXCEPT ![t] = [port |-> "child", src |-> src, mine |-> TRUE]]
  /\ UNCHANGED <<msg, node, queue>>

(* msendb by a child; the kernel starts a thread for the message.          *)
child_sends(c) ==
  /\ Cardinality({m \in Msg : msg[m].at # "unused" /\ msg[m].port = "child"}) < MaxChild
  /\ Room
  /\ msg' = [msg EXCEPT ![Fresh] = [at |-> "arrived", port |-> "child", src |-> c, by |-> None]]
  /\ UNCHANGED <<node, queue, wait>>

(* Mutant of __rcall_handler: no reply is sent.                            *)
__rcall_handler_silent(m) ==
  /\ msg[m].at = "request"
  /\ msg' = [msg EXCEPT ![m].at = "handled"]
  /\ UNCHANGED <<node, queue, wait>>

(* The server replies, with its resource as the source.                    *)
__rcall_handler(m) ==
  /\ msg[m].at = "request"
  /\ msg' = [msg EXCEPT ![m].at = "arrived"]
  /\ UNCHANGED <<node, queue, wait>>

(* The server exits: the requests it has not answered are lost.            *)
server_ends ==
  /\ \E m \in Msg : msg[m].at = "request"
  /\ msg' = [m \in Msg |-> IF msg[m].at = "request" THEN [msg[m] EXCEPT !.at = "lost"] ELSE msg[m]]
  /\ UNCHANGED <<node, queue, wait>>

-----------------------------------------------------------------------------
(* The thread of a message: the ports here have no handler.                *)
on_event(m) ==
  /\ msg[m].at = "arrived"
  /\ \/ msg' = [msg EXCEPT ![m].at = "held"]
     \/ /\ "event_oom" \in Beyond
        /\ msg' = [msg EXCEPT ![m].at = "lost"]
  /\ UNCHANGED <<node, queue, wait>>

mqueue_lock(m) ==
  LET p == msg[m].port
  IN /\ msg[m].at = "held" /\ queue[p].mutex = None
     /\ queue' = [queue EXCEPT ![p].mutex = m]
     /\ msg' = [msg EXCEPT ![m].at = "locked"]
     /\ UNCHANGED <<node, wait>>

(* Queue q and nodes n with m at the end.                                  *)
Linked(q, n, m) ==
  [q |-> [front |-> IF q.front = None THEN m ELSE q.front, back |-> m, mutex |-> None],
   n |-> [k \in Msg |-> IF k = m THEN [next |-> None, prev |-> q.back]
                        ELSE IF k = q.back THEN [n[k] EXCEPT !.next = m] ELSE n[k]]]

(* Without memory for a node it returns with the mutex held.               *)
mqueue_push(m) ==
  LET p == msg[m].port
      r == Linked(queue[p], node, m)
  IN /\ msg[m].at = "locked"
     /\ \/ /\ queue' = [queue EXCEPT ![p] = r.q] /\ node' = r.n
           /\ msg' = [msg EXCEPT ![m].at = "queued"]
        \/ /\ "push_oom" \in Beyond
           /\ msg' = [msg EXCEPT ![m].at = "lost"]
           /\ UNCHANGED <<queue, node>>
     /\ UNCHANGED wait

-----------------------------------------------------------------------------
(* Mutant of Unlinked: the next message keeps its prev pointer.            *)
Unlinked_forward(q, n, m) ==
  [q |-> [front |-> IF n[m].prev = None THEN n[m].next ELSE q.front,
          back  |-> IF n[m].next = None THEN n[m].prev ELSE q.back,
          mutex |-> q.mutex],
   n |-> [k \in Msg |-> CASE k = m         -> Alone
                          [] k = n[m].prev -> [n[k] EXCEPT !.next = n[m].next]
                          [] OTHER         -> n[k]]]

(* Queue q and nodes n without m.                                          *)
Unlinked(q, n, m) ==
  [q |-> [front |-> IF n[m].prev = None THEN n[m].next ELSE q.front,
          back  |-> IF n[m].next = None THEN n[m].prev ELSE q.back,
          mutex |-> q.mutex],
   n |-> [k \in Msg |-> CASE k = m         -> Alone
                          [] k = n[m].prev -> [n[k] EXCEPT !.next = n[m].next]
                          [] k = n[m].next -> [n[k] EXCEPT !.prev = n[m].prev]
                          [] OTHER         -> n[k]]]

Hit(m, src) == src = Every \/ msg[m].src = src

(* The messages that the search in port p looks at: it begins at the front *)
(* and goes on to the next one until the source is right.                  *)
Looked(p, src) ==
  LET Closed == {S \in SUBSET Msg :
                   /\ queue[p].front \in S \cup {None}
                   /\ \A k \in S : ~Hit(k, src) => node[k].next \in S \cup {None}}
  IN {m \in Msg : \A S \in Closed : m \in S}

(* Mutants of Found: the search begins at the back; the source is not      *)
(* looked at.                                                              *)
Found_last(p, src) ==
  {m \in Msg : Hit(m, src) /\ \A S \in SUBSET Msg :
                  /\ queue[p].back \in S \cup {None}
                  /\ \A k \in S : ~Hit(k, src) => node[k].prev \in S \cup {None}
                  => m \in S}

Found_any(p, src) == Looked(p, Every)

(* The first message of the source, if there is one.                       *)
Found(p, src) == {m \in Looked(p, src) : Hit(m, src)}

(* mwait: the thread pulls until it gets a message; the search and the     *)
(* removal are one section.  The caller frees the message.                 *)
mqueue_pull(t) ==
  LET p == wait[t].port
  IN /\ p # "none" /\ queue[p].mutex = None
     /\ \E m \in Found(p, wait[t].src) :
          LET r == Unlinked(queue[p], node, m)
          IN /\ queue' = [queue EXCEPT ![p] = r.q] /\ node' = r.n
             /\ msg' = [msg EXCEPT ![m] = Unused]
             /\ wait' = [wait EXCEPT ![t] = Idle(p = "reply" => msg[m].by = t)]

EventStep(m) == on_event(m) \/ mqueue_lock(m) \/ mqueue_push(m)

Next ==
  \/ \E t \in Thread :
       \/ \E rp \in RP : rcall(t, rp)
       \/ \E src \in Child \cup {Every} : mwait_child(t, src)
       \/ mqueue_pull(t)
  \/ \E c \in Child : child_sends(c)
  \/ \E m \in Msg : __rcall_handler(m) \/ EventStep(m)

Spec == Init /\ [][Next]_vars

(* Every thread runs again and again (the scheduler is round robin), a     *)
(* waiting one included: mwait polls.  Nothing says that a child reports.  *)
FairSpec ==
  /\ Spec
  /\ \A t \in Thread : WF_vars(mqueue_pull(t))
  /\ \A m \in Msg : WF_vars(__rcall_handler(m)) /\ WF_vars(EventStep(m))

(* The same, with a server that may exit.                                  *)
EndingSpec ==
  /\ Init /\ [][Next \/ server_ends]_vars
  /\ \A t \in Thread : WF_vars(mqueue_pull(t))
  /\ \A m \in Msg : WF_vars(__rcall_handler(m)) /\ WF_vars(EventStep(m))

-----------------------------------------------------------------------------
(* Every piece of state has its type, and a held mutex has a holder.       *)
TypeOK ==
  /\ \A m \in Msg :
       /\ msg[m].at \in {"unused", "request", "handled", "arrived", "held", "locked",
                         "queued", "lost"}
       /\ msg[m].port \in Port
       /\ msg[m].at = "locked" => queue[msg[m].port].mutex = m
  /\ node \in [Msg -> [next : Msg \cup {None}, prev : Msg \cup {None}]]
  /\ \A p \in Port : queue[p].mutex \in {m \in Msg : msg[m].at = "locked"} \cup {None}
  /\ \A t \in Thread : wait[t].port \in Port \cup {"none"}

(* The list with the ends q and the nodes n is the sequence w, by the      *)
(* pointers of both directions, and no message is in it twice.             *)
Spells(q, n, w) ==
  /\ q.front = IF w = <<>> THEN None ELSE w[1]
  /\ q.back = IF w = <<>> THEN None ELSE w[Len(w)]
  /\ \A i \in 1..Len(w) :
       /\ n[w[i]].next = IF i = Len(w) THEN None ELSE w[i + 1]
       /\ n[w[i]].prev = IF i = 1 THEN None ELSE w[i - 1]
  /\ \A i, j \in 1..Len(w) : w[i] = w[j] => i = j

Elements(w) == {w[i] : i \in 1..Len(w)}

InPort(p) == {m \in Msg : msg[m].at = "queued" /\ msg[m].port = p}

Lines(p) == [1..Cardinality(InPort(p)) -> InPort(p)]

(* The list of a port is properly linked in both directions and holds      *)
(* exactly the messages that mqueue_push put in and no mqueue_pull took,   *)
(* wherever in the list they are taken from (mqueue.c:81-89, 124-130).     *)
ListExact == \A p \in Port : \E w \in Lines(p) : Spells(queue[p], node, w) /\ Elements(w) = InPort(p)

Letter == [id : Msg, src : RP \cup Child]

Walk(p) == CHOOSE w \in Lines(p) : Spells(queue[p], node, w)

Box ==
  [p \in Port |-> LET w == Walk(p)
                  IN [i \in 1..Len(w) |-> [id |-> w[i], src |-> msg[w[i]].src]]]

M == INSTANCE Mailbox WITH box <- Box

(* The linked lists implement the mailbox: messages are queued in order,   *)
(* none is dropped or doubled by the pointer updates at either end or in   *)
(* the middle, and the taker gets the oldest of its source.                *)
IsMailbox == M!Spec

(* As many replies of a resource are on their way as threads wait for one: *)
(* replies are matched by their source only (rcall.c:62), so a thread may  *)
(* take the reply of another, but it then leaves its own to it.            *)
Owed ==
  \A rp \in RP :
    Cardinality({t \in Thread : wait[t].port = "reply" /\ wait[t].src = rp})
    = Cardinality({m \in Msg : msg[m].at # "unused" /\ msg[m].port = "reply" /\ msg[m].src = rp})

Apart(t) == \A u \in Thread \ {t} : Uses[t] \cap Uses[u] = {}

(* The reply that a thread gets is to its own request, if no other thread  *)
(* calls the same resources.                                               *)
OwnReply == \A t \in Thread : Apart(t) => wait[t].mine

(* Every call returns, unless other threads make calls for ever: those can *)
(* keep the spinning mqueue_push of its reply from the mutex, or take the  *)
(* replies, one after the other, of a resource that they share.            *)
Answered ==
  \A t \in Thread :
    \/ wait[t].port = "reply" ~> wait[t].port = "none"
    \/ []<><<\E u \in Thread \ {t}, rp \in RP : rcall(u, rp)>>_vars

(* Without that condition; see the README.                                 *)
OwnReplyAlways == \A t \in Thread : wait[t].mine

=============================================================================
