-------------------------------- MODULE Pipe --------------------------------
(***************************************************************************)
(* The pipes of driver/pipe, with the request handlers of librdi that call *)
(* it (class_file.c) and the table of open connections of a pipe           *)
(* (robject/robject.c).                                                    *)
(*                                                                         *)
(* Each request runs in a thread of the driver; a step of it is a section  *)
(* under the mutex of the pipe or of the robject.  A process makes one     *)
(* request at a time and closes its connection between two requests.       *)
(***************************************************************************)
EXTENDS Naturals, Sequences, SequencesExt, FiniteSets

CONSTANTS Proc,      \* processes
          Creator,   \* the process that made the pipe
          NULL,
          MaxSize,   \* bound on the bytes of a request
          MaxBytes,  \* bound on the bytes that are written
          MaxOpens   \* bound on the times that connections are opened

VARIABLES next,    \* next[n]: the next pointer of the node of byte n
          front, back,
          status,  \* the table of open connections: status[p]
          opens,   \* how often connections were opened
          req,     \* req[p]: the request of p that the driver works on
          sent,    \* sent[p]: how many bytes p wrote
          got      \* got[p]: the bytes that reads of p took, in order

vars == <<next, front, back, status, opens, req, sent, got>>

Byte == Proc \X (1..MaxBytes)
NoReq == [does |-> "none", left |-> 0, found |-> "none"]

(* pipe_file_cons: the creator may read and write.                         *)
Init ==
  /\ next = [n \in Byte |-> NULL] /\ front = NULL /\ back = NULL
  /\ status = [p \in Proc |-> IF p = Creator THEN {"r", "w"} ELSE {}]
  /\ opens = 0
  /\ req = [p \in Proc |-> NoReq]
  /\ sent = [p \in Proc |-> 0] /\ got = [p \in Proc |-> <<>>]

Idle(p) == req[p].does = "none"

(* A connection is opened with a status, or gets another one.              *)
robject_open(p, st) ==
  /\ Idle(p) /\ status[p] # st /\ opens < MaxOpens
  /\ status' = [status EXCEPT ![p] = st]
  /\ opens' = opens + 1
  /\ UNCHANGED <<next, front, back, req, sent, got>>

robject_close(p) ==
  /\ Idle(p) /\ status[p] # {}
  /\ status' = [status EXCEPT ![p] = {}]
  /\ UNCHANGED <<next, front, back, opens, req, sent, got>>

(* How many connections have a status.                                     *)
robject_count_status(st) == Cardinality({p \in Proc : st \in status[p]})

(* The bytes that writes put into the pipe or still will.                  *)
Written ==
  LET Of(p) == sent[p] + IF req[p].does = "write" THEN req[p].left ELSE 0
      Add(n, p) == n + Of(p)
  IN FoldLeft(Add, 0, SetToSeq(Proc))

(* The handlers look at the status before they call the driver.            *)
__rdi_read(p, size) ==
  /\ Idle(p) /\ "r" \in status[p]
  /\ req' = [req EXCEPT ![p] = [does |-> "read", left |-> size, found |-> "none"]]
  /\ UNCHANGED <<next, front, back, status, opens, sent, got>>

__rdi_write(p, size) ==
  /\ Idle(p) /\ "w" \in status[p] /\ Written + size <= MaxBytes
  /\ req' = [req EXCEPT ![p] = [does |-> "write", left |-> size, found |-> "none"]]
  /\ UNCHANGED <<next, front, back, status, opens, sent, got>>

-----------------------------------------------------------------------------
(* Request r after one more byte.                                          *)
Advanced(r) == IF r.left = 1 THEN NoReq ELSE [r EXCEPT !.left = @ - 1, !.found = "none"]

(* pipe_getc, in the loop of pipe_read.                                    *)
pipe_getc(p) ==
  /\ req[p].does = "read" /\ req[p].found = "none"
  /\ IF front # NULL
     THEN /\ got' = [got EXCEPT ![p] = Append(@, front)]
          /\ front' = next[front] /\ next' = [next EXCEPT ![front] = NULL]
          /\ back' = IF back = front THEN NULL ELSE back
          /\ req' = [req EXCEPT ![p] = Advanced(@)]
     ELSE req' = [req EXCEPT ![p].found = "empty"] /\ UNCHANGED <<next, front, back, got>>
  /\ UNCHANGED <<status, opens, sent>>

(* Mutant of pipe_read: the readers are counted.                           *)
pipe_read_readers(p) ==
  /\ req[p].found = "empty"
  /\ req' = [req EXCEPT ![p] = IF robject_count_status("r") = 0 THEN NoReq
                               ELSE [@ EXCEPT !.found = "none"]]
  /\ UNCHANGED <<next, front, back, status, opens, sent, got>>

(* The pipe was empty: without a writer the read ends with what it has,    *)
(* with one it sleeps and tries again.                                     *)
pipe_read(p) ==
  /\ req[p].found = "empty"
  /\ req' = [req EXCEPT ![p] = IF robject_count_status("w") = 0 THEN NoReq
                               ELSE [@ EXCEPT !.found = "none"]]
  /\ UNCHANGED <<next, front, back, status, opens, sent, got>>

(* Mutant of pipe_putc: the new node becomes the first.                    *)
pipe_putc_first(p) ==
  LET n == <<p, sent[p] + 1>>
  IN /\ req[p].does = "write"
     /\ back' = IF back = NULL THEN n ELSE back
     /\ front' = n /\ next' = [next EXCEPT ![n] = front]
     /\ sent' = [sent EXCEPT ![p] = @ + 1]
     /\ req' = [req EXCEPT ![p] = Advanced(@)]
     /\ UNCHANGED <<status, opens, got>>

(* pipe_putc, in the loop of pipe_write.                                   *)
pipe_putc(p) ==
  LET n == <<p, sent[p] + 1>>
  IN /\ req[p].does = "write"
     /\ back' = n
     /\ IF back = NULL THEN front' = n /\ UNCHANGED next
        ELSE next' = [next EXCEPT ![back] = n] /\ UNCHANGED front
     /\ sent' = [sent EXCEPT ![p] = @ + 1]
     /\ req' = [req EXCEPT ![p] = Advanced(@)]
     /\ UNCHANGED <<status, opens, got>>

Step(p) == pipe_getc(p) \/ pipe_read(p) \/ pipe_putc(p)

Next ==
  \E p \in Proc :
    \/ \E st \in {{"r"}, {"w"}} : robject_open(p, st)
    \/ robject_close(p)
    \/ \E size \in 1..MaxSize : __rdi_read(p, size) \/ __rdi_write(p, size)
    \/ Step(p)

Spec == Init /\ [][Next]_vars

(* The threads of the driver run again and again; nothing says that a      *)
(* process writes, reads or closes.                                        *)
Fairness == \A p \in Proc : WF_vars(Step(p))

FairSpec == Spec /\ Fairness

-----------------------------------------------------------------------------
(* The bytes in the pipe, following the next pointers from front.          *)
RECURSIVE Chain(_, _)
Chain(n, k) == IF n = NULL \/ k = 0 THEN <<>> ELSE <<n>> \o Chain(next[n], k - 1)

Queued == Chain(front, Cardinality(Byte) + 1)

(* Every byte that was written is in the pipe or was read, once, by one    *)
(* reader, whatever readers and writers do at the same time: no node is    *)
(* lost when the pipe runs empty and is filled again (main.c:62, 83).      *)
Conserved ==
  /\ Range(Queued) \cup UNION {Range(got[p]) : p \in Proc} = {n \in Byte : n[2] <= sent[n[1]]}
  /\ \A p, q \in Proc : p # q => Range(got[p]) \cap Range(got[q]) = {}
  /\ \A p \in Proc : Range(got[p]) \cap Range(Queued) = {} /\ Cardinality(Range(got[p])) = Len(got[p])

(* A mailbox of one port whose letters have one source: whatever source a  *)
(* taker names, it gets the oldest letter.                                 *)
Q == INSTANCE Mailbox
       WITH Port <- {"pipe"}, Every <- "any",
            Letter <- {[src |-> "any", id |-> n] : n \in Byte},
            box <- [port \in {"pipe"} |->
                      [i \in DOMAIN Queued |-> [src |-> "any", id |-> Queued[i]]]]

(* The list is a queue: bytes leave it in the order in which they came,    *)
(* whoever wrote them and whoever reads them (main.c:53-92).               *)
IsQueue == Q!Spec

(* A read returns once nobody can write any more, also if the last writer  *)
(* closes its connection while the read waits (main.c:105).                *)
ReadsEnd ==
  \A p \in Proc : req[p].does = "read" /\ robject_count_status("w") = 0
                  ~> req[p].does # "read" \/ robject_count_status("w") # 0

(* A read ends early only if nothing is left to read.  It does not hold:   *)
(* see the README.                                                         *)
EndOfFile ==
  [][\A p \in Proc : (req[p].found = "empty" /\ req'[p].does = "none") => front = NULL]_vars

=============================================================================
