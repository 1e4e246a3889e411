------------------------------ MODULE Session -------------------------------
(***************************************************************************)
(* The connections of a program to the resources of a server: the file     *)
(* descriptors (libc/rhombus/fdtab.c, ropen.c, close.c, dup.c), the table  *)
(* of connections behind them (contab.c), the requests "open" and "close"  *)
(* as the server runs them (librdi/class_core.c, robject/robject.c), and   *)
(* the notices that the kernel sends to the server when the program exits  *)
(* (the module Rtab).                                                      *)
(*                                                                         *)
(* A step is a section under one mutex, a system call, or the part of a    *)
(* handler between two of them.  A connection status is a set of bits.     *)
(*                                                                         *)
(* What the code does not withstand is left out, unless named in Beyond:   *)
(*   "reclose"      close() or ropen() of a descriptor that was closed     *)
(*   "reopen"       a refused ropen() of a descriptor in use               *)
(*   "forget"       ropen() of no resource, RP_NULL, on a descriptor in    *)
(*                  use, whose connection then stays until the exit        *)
(*   "fd_full"      a new descriptor when all are in use                   *)
(*   "garbage"      realloc() in fd_set returns memory that is not zero    *)
(*   "exit_in_open" the program exits while the server runs its "open"     *)
(***************************************************************************)
EXTENDS Integers, Sequences, FiniteSets

CONSTANTS Thread,  \* the threads of the program
          Programs, \* what programs do: the threads that make calls,
                    \* the resources they use and the modes they ask for
          RP,      \* the resources of the server
          Mode,    \* the sets of status bits, STAT_OPEN aside, asked for
          Access,  \* Access[rp]: the bits the user of the program may have
          NULL,    \* RP_NULL
          Low,     \* descriptors below are never chosen by fd_alloc (4)
          MaxFd,   \* descriptors are 0..MaxFd - 1 (4096)
          Grow,    \* entries by which the connection table grows (16)
          MaxRef,  \* bound on the references and the counts of an entry
          Beyond   \* the restrictions that are lifted

ASSUME SessionAssumption ==
  /\ IsFiniteSet(Thread) /\ IsFiniteSet(RP) /\ NULL \notin RP
  /\ Programs \subseteq [threads : SUBSET Thread, rps : SUBSET RP, modes : SUBSET Mode]
  /\ Low \in Nat /\ MaxFd \in Nat /\ MaxRef \in Nat /\ Grow \in Nat \ {0}

VARIABLES program,  \* the program
          live,     \* whether the program runs
          fdtab,    \* the descriptors: a function on 0.._fdtab_size - 1
          contab,   \* the connection table
          call,     \* call[t]: the call that thread t is in
          serve,    \* serve[t]: the request of t, in its thread of the server
          open,     \* open[rp]: the status of the program in open_table
          rtab,     \* the connections of the program in the kernel
          notice,   \* PORT_CLOSE messages on their way to the server
          up        \* whether the server runs

vars == <<program, live, fdtab, contab, call, serve, open, rtab, notice, up>>

INSTANCE Rtab

Bit == {"open"} \cup UNION Mode
Connection(rp) == [a |-> "program", b |-> rp]

-----------------------------------------------------------------------------
(* libc/rhombus/contab.c                                                   *)

NoCount == [b \in Bit |-> 0]
Empty == [rp |-> NULL, refc |-> 0, count |-> NoCount]

Entries(tab, rps) == {i \in DOMAIN tab : tab[i].rp \in rps}

Counted(count, st, n) == [b \in Bit |-> IF b \in st THEN count[b] + n ELSE count[b]]

(* Mutant of _contab_add: an entry that is converted keeps no reference.   *)
_contab_add_lost(tab, rp, st) ==
  LET found == Entries(tab, {NULL, rp})
  IN IF found = {}
     THEN tab \o [i \in 1..Grow |-> Empty]
     ELSE [tab EXCEPT ![Least(found)] =
             [rp |-> rp, refc |-> @.refc + 1, count |-> Counted(@.count, st, 1)]]

(* The search ends at the first entry that is empty or has the resource;   *)
(* without one the table grows and the first of the new entries is used.   *)
_contab_add(tab, rp, st) ==
  LET found == Entries(tab, {NULL, rp})
      used(e) == [rp |-> rp, refc |-> e.refc + 1, count |-> Counted(e.count, st, 1)]
  IN IF found = {}
     THEN tab \o [i \in 1..Grow |-> IF i = 1 THEN used(Empty) ELSE Empty]
     ELSE [tab EXCEPT ![Least(found)] = used(@)]

_contab_del(tab, rp, st) ==
  LET left(e) == [rp |-> rp, refc |-> e.refc - 1, count |-> Counted(e.count, st, -1)]
  IN [tab EXCEPT ![Least(Entries(tab, {rp}))] = IF @.refc <= 1 THEN Empty ELSE left(@)]

_contab_get(tab, rp) ==
  LET found == Entries(tab, {rp})
  IN IF found = {} THEN {} ELSE {b \in Bit : tab[Least(found)].count[b] > 0}

-----------------------------------------------------------------------------
(* libc/rhombus/fdtab.c                                                    *)

Size == Cardinality(DOMAIN fdtab)
fd_rp(fd) == IF fd \in DOMAIN fdtab THEN fdtab[fd].rp ELSE NULL
fd_mode(fd) == IF fd \in DOMAIN fdtab THEN fdtab[fd].mode ELSE {}

(* The descriptor is not reserved: it is free until fd_set.                *)
fd_alloc ==
  LET free == {fd \in Low..Size - 1 : fdtab[fd].rp = NULL}
  IN IF free # {} THEN Least(free) ELSE IF Size < Low THEN Low ELSE Size

(* The loop that clears the table after realloc() starts at fd, so the     *)
(* entries between the old end and fd hold whatever the memory held.       *)
fd_set(fd, rp, mode) ==
  IF fd >= MaxFd THEN UNCHANGED fdtab
  ELSE \E junk \in [rp : IF "garbage" \in Beyond THEN RP \cup {NULL} ELSE {NULL},
                     mode : IF "garbage" \in Beyond THEN {{}, {"open"}} ELSE {{}}] :
         fdtab' = [i \in 0..IF fd < Size THEN Size - 1 ELSE fd |->
                     IF i = fd THEN [rp |-> rp, mode |-> mode]
                     ELSE IF i < Size THEN fdtab[i]
                     ELSE junk]

-----------------------------------------------------------------------------
(* A thread in ropen() or close() has a list of changes to make to the     *)
(* connection table; then it sets the descriptor.  pc is its place:        *)
(*   "alloc", "mode", "rp"  the reads of the descriptor table              *)
(*   "change"               before the section that changes the table      *)
(*   "get"                  before _contab_get                             *)
(*   "connect"              in _rp_connect                                 *)
Out == [pc |-> "out"]
NoRequest == [at |-> "none"]

Init ==
  /\ program \in Programs
  /\ live = TRUE /\ up = TRUE
  /\ fdtab = <<>> /\ contab = <<>> /\ rtab = <<>> /\ notice = <<>>
  /\ call = [t \in Thread |-> Out]
  /\ serve = [t \in Thread |-> NoRequest]
  /\ open = [rp \in RP |-> {}]

server == <<serve, open, rtab, notice, up>>

Calls(t) == t \in program.threads /\ live /\ call[t].pc = "out"

InUse(fd) == fd_rp(fd) # NULL /\ fd_mode(fd) # {}
Closed(fd) == fd_rp(fd) # NULL /\ fd_mode(fd) = {}

Called(t, op, fd, rp, mode) ==
  /\ Calls(t)
  /\ Closed(fd) => "reclose" \in Beyond
  /\ call' = [call EXCEPT ![t] = [pc |-> IF fd < 0 THEN "alloc" ELSE "mode",
                                  op |-> op, fd |-> fd, rp |-> rp, mode |-> mode]]
  /\ UNCHANGED <<program, live, fdtab, contab, server>>

(* The call of ropen(fd, rp, mode); fd is -1 for a new descriptor.         *)
ropen(t, fd, rp, mode) ==
  /\ rp \in program.rps
  /\ \A i \in DOMAIN contab, b \in Bit :
       contab[i].refc < MaxRef /\ contab[i].count[b] \in -1..MaxRef - 1
  /\ InUse(fd) /\ ~mode \subseteq Access[rp] => "reopen" \in Beyond
  /\ fd = -1 /\ fd_alloc + Cardinality(program.threads) > MaxFd => "fd_full" \in Beyond
  /\ Called(t, "ropen", fd, rp, mode \cup {"open"})

(* ropen(fd, RP_NULL, mode), as after a name that was not found: the       *)
(* descriptor is cleared, and a connection it had stays in the table.      *)
ropen_null(t, fd) ==
  /\ Calls(t)
  /\ InUse(fd) => "forget" \in Beyond
  /\ fd_set(fd, NULL, {})
  /\ UNCHANGED <<program, live, contab, call, server>>

(* dup() and dup2(): the resource and the mode are those of a descriptor.  *)
dup2(t, old, fd) == InUse(old) /\ ropen(t, fd, fd_rp(old), fd_mode(old) \ {"open"})

close(t, fd) == Called(t, "close", fd, NULL, {})

ropen_alloc(t) ==
  /\ live /\ call[t].pc = "alloc"
  /\ call' = [call EXCEPT ![t].fd = fd_alloc, ![t].pc = "mode"]
  /\ UNCHANGED <<program, live, fdtab, contab, server>>

read_mode(t) ==
  /\ live /\ call[t].pc = "mode"
  /\ call' = [call EXCEPT ![t] = [pc |-> "rp", op |-> @.op, fd |-> @.fd, rp |-> @.rp,
                                  mode |-> @.mode, old |-> fd_mode(@.fd)]]
  /\ UNCHANGED <<program, live, fdtab, contab, server>>

Add(rp, st) == [op |-> "add", rp |-> rp, st |-> st \cup {"open"}]
Del(rp, st) == [op |-> "del", rp |-> rp, st |-> st \cup {"open"}]

(* A call that makes the changes todo and then sets fd to rp and mode.     *)
Changing(todo, fd, rp, mode) ==
  [pc |-> "change", todo |-> todo, fd |-> fd, rp |-> rp, mode |-> mode, err |-> FALSE]

(* Mutant of ropen_changes: the old connection is closed before the new.   *)
ropen_changes_swapped(c, old) ==
  CASE old = c.rp -> <<Del(c.rp, c.old \ c.mode), Add(c.rp, c.mode)>>
    [] old = NULL -> <<Add(c.rp, c.mode)>>
    [] OTHER      -> <<Del(old, c.old), Add(c.rp, c.mode)>>

ropen_changes(c, old) ==
  CASE old = c.rp -> <<Add(c.rp, c.mode), Del(c.rp, c.old \ c.mode)>>
    [] old = NULL -> <<Add(c.rp, c.mode)>>
    [] OTHER      -> <<Add(c.rp, c.mode), Del(old, c.old)>>

(* close() leaves the descriptor its resource, with the empty mode; it     *)
(* returns at once when there is none.                                     *)
read_rp(t) ==
  /\ live /\ call[t].pc = "rp"
  /\ LET c   == call[t]
         old == fd_rp(c.fd)
     IN call' = [call EXCEPT ![t] =
          CASE c.op = "ropen" -> Changing(ropen_changes(c, old), c.fd, c.rp, c.mode)
            [] c.op = "close" /\ old = NULL -> Out
            [] c.op = "close" /\ old # NULL -> Changing(<<Del(old, c.old)>>, c.fd, old, {})]
  /\ UNCHANGED <<program, live, fdtab, contab, server>>

-----------------------------------------------------------------------------
(* The changes: _contab_add and _contab_del under the mutex, _contab_get   *)
(* under the mutex again, and the request to the server.                   *)

(* A change is done, or undone: ropen goes on with the next one even so.   *)
Next_change(c, err) ==
  [c EXCEPT !.todo = Tail(@), !.err = @ \/ err, !.pc = "change"]

rp_change(t) ==
  /\ live /\ call[t].pc = "change" /\ call[t].todo # <<>>
  /\ LET c == call[t]
         e == Head(c.todo)
     IN IF e.op = "del" /\ Entries(contab, {e.rp}) = {}
        THEN /\ call' = [call EXCEPT ![t] = Next_change(@, TRUE)]
             /\ UNCHANGED contab
        ELSE /\ contab' = IF e.op = "add" THEN _contab_add(contab, e.rp, e.st)
                          ELSE _contab_del(contab, e.rp, e.st)
             /\ call' = [call EXCEPT ![t].pc = "get"]
  /\ UNCHANGED <<program, live, fdtab, server>>

(* The request: _send fails at once when the server is gone, and the       *)
(* change is undone, or done again, by _contab_del.                        *)
Undo(c) == [c EXCEPT !.pc = "change", !.todo = <<Del(Head(@).rp, Head(@).st)>> \o Tail(@),
                     !.err = TRUE]

rp_connect(t) ==
  /\ live /\ call[t].pc = "get"
  /\ LET e == Head(call[t].todo)
     IN IF up
        THEN /\ call' = [call EXCEPT ![t].pc = "connect"]
             /\ serve' = [serve EXCEPT ![t] =
                            [at |-> "start", rp |-> e.rp, st |-> _contab_get(contab, e.rp)]]
        ELSE /\ call' = [call EXCEPT ![t] = Undo(@)]
             /\ UNCHANGED serve
  /\ UNCHANGED <<program, live, fdtab, contab, open, rtab, notice, up>>

(* The reply.                                                              *)
rp_connected(t) ==
  /\ live /\ call[t].pc = "connect" /\ serve[t].at \in {"done", "denied"}
  /\ call' = [call EXCEPT ![t] = IF serve[t].at = "denied" THEN Undo(@)
                                 ELSE Next_change(@, FALSE)]
  /\ serve' = [serve EXCEPT ![t] = NoRequest]
  /\ UNCHANGED <<program, live, fdtab, contab, open, rtab, notice, up>>

(* A call that failed leaves the descriptor as it was.                     *)
finish(t) ==
  /\ live /\ call[t].pc = "change" /\ call[t].todo = <<>>
  /\ LET c == call[t] IN IF c.err THEN UNCHANGED fdtab ELSE fd_set(c.fd, c.rp, c.mode)
  /\ call' = [call EXCEPT ![t] = Out]
  /\ UNCHANGED <<program, live, contab, server>>

-----------------------------------------------------------------------------
(* librdi/class_core.c, with robject.c: the handlers of the server, each   *)
(* in a thread of its own.                                                 *)

(* The kernel knows no connection of a process that is gone.               *)
__open(t) ==
  /\ up /\ serve[t].at = "start" /\ serve[t].st # {}
  /\ IF serve[t].st \ {"open"} \subseteq Access[serve[t].rp]
     THEN /\ serve' = [serve EXCEPT ![t].at = "noted"]
          /\ rtab' = IF live THEN rtab_open(rtab, Connection(serve[t].rp)) ELSE rtab
     ELSE /\ serve' = [serve EXCEPT ![t].at = "denied"]
          /\ UNCHANGED rtab
  /\ UNCHANGED <<program, live, fdtab, contab, call, open, notice, up>>

robject_open(t) ==
  /\ up /\ serve[t].at = "noted"
  /\ open' = [open EXCEPT ![serve[t].rp] = serve[t].st]
  /\ serve' = [serve EXCEPT ![t].at = "done"]
  /\ UNCHANGED <<program, live, fdtab, contab, call, rtab, notice, up>>

(* Mutants of __close: the status is left; no reply is sent.               *)
__close_kept(t) ==
  /\ up /\ serve[t].at = "start" /\ serve[t].st = {}
  /\ serve' = [serve EXCEPT ![t].at = "done"]
  /\ UNCHANGED <<program, live, fdtab, contab, call, open, rtab, notice, up>>

__close(t) ==
  /\ up /\ serve[t].at = "start" /\ serve[t].st = {}
  /\ open' = [open EXCEPT ![serve[t].rp] = {}]
  /\ serve' = [serve EXCEPT ![t].at = "done"]
  /\ UNCHANGED <<program, live, fdtab, contab, call, rtab, notice, up>>

(* Mutant of __close_handler: the message is dropped.                      *)
__close_handler_drop ==
  /\ up /\ notice # <<>>
  /\ notice' = Tail(notice)
  /\ UNCHANGED <<program, live, fdtab, contab, call, serve, open, rtab, up>>

(* The notice of the kernel that the program is gone.                      *)
__close_handler ==
  /\ up /\ notice # <<>>
  /\ open' = [open EXCEPT ![Head(notice)] = {}]
  /\ notice' = Tail(notice)
  /\ UNCHANGED <<program, live, fdtab, contab, call, serve, rtab, up>>

-----------------------------------------------------------------------------
(* The program exits: its threads vanish and the kernel sends a notice for *)
(* each of its connections (process_kill).                                 *)
exit ==
  /\ live
  /\ (\E t \in Thread : serve[t].at \in {"start", "noted"}) => "exit_in_open" \in Beyond
  /\ live' = FALSE
  /\ notice' = notice \o rtab_free(rtab) /\ rtab' = <<>>
  /\ call' = [t \in Thread |-> Out]
  /\ serve' = [t \in Thread |-> IF serve[t].at \in {"start", "noted"} THEN serve[t]
                                ELSE NoRequest]
  /\ fdtab' = <<>> /\ contab' = <<>>
  /\ UNCHANGED <<program, open, up>>

(* The server exits, between two requests: its resources are gone.         *)
server_exit ==
  /\ live /\ up /\ \A t \in Thread : serve[t].at = "none"
  /\ up' = FALSE
  /\ open' = [rp \in RP |-> {}] /\ notice' = <<>>
  /\ UNCHANGED <<program, live, fdtab, contab, call, serve, rtab>>

ThreadStep(t) ==
  \/ ropen_alloc(t) \/ read_mode(t) \/ read_rp(t)
  \/ rp_change(t) \/ rp_connect(t) \/ rp_connected(t) \/ finish(t)

ServerStep(t) == __open(t) \/ robject_open(t) \/ __close(t)

Next ==
  \/ \E t \in Thread :
       \/ \E rp \in RP, mode \in program.modes, fd \in -1..MaxFd - 1 : ropen(t, fd, rp, mode)
       \/ \E old \in 0..MaxFd - 1, fd \in -1..MaxFd - 1 : dup2(t, old, fd)
       \/ \E fd \in 0..MaxFd - 1 : ropen_null(t, fd) \/ close(t, fd)
       \/ ThreadStep(t)
       \/ ServerStep(t)
  \/ __close_handler
  \/ exit
  \/ server_exit

Spec == Init /\ [][Next]_vars

(* The kernel gives each thread its turn, those of the server included.    *)
FairSpec ==
  /\ Spec
  /\ \A t \in Thread : WF_vars(ThreadStep(t)) /\ WF_vars(ServerStep(t))
  /\ WF_vars(__close_handler)

-----------------------------------------------------------------------------
(* Every piece of state has its type: a reference count in the table is    *)
(* positive exactly when the entry has a resource.                         *)
TypeOK ==
  /\ live \in BOOLEAN /\ up \in BOOLEAN
  /\ DOMAIN fdtab = 0..Size - 1 /\ Size <= MaxFd
  /\ \A fd \in DOMAIN fdtab : fdtab[fd].rp \in RP \cup {NULL} /\ fdtab[fd].mode \subseteq Bit
  /\ \A i \in DOMAIN contab :
       /\ contab[i].rp \in RP \cup {NULL}
       /\ contab[i].refc \in 0..MaxRef + Cardinality(Thread)
       /\ contab[i].refc = 0 <=> contab[i].rp = NULL
  /\ open \in [RP -> SUBSET Bit]

Quiet == live /\ up /\ \A t \in Thread : call[t].pc = "out"
OneThread == Cardinality(program.threads) = 1

(* Between the calls of a program with one thread, the status that the     *)
(* server holds for it is the one its connection table says (contab.c:80,  *)
(* 117, 155), also after requests that were refused and undone.            *)
RealExact ==
  Quiet /\ OneThread => \A rp \in RP : open[rp] = _contab_get(contab, rp)

(* "The real connection will have a status that is a superset of <status>  *)
(* until this connection is removed" (contab.c:257-259): between calls,    *)
(* the server grants what any open descriptor stands for.                  *)
Superset ==
  Quiet => \A fd \in DOMAIN fdtab : InUse(fd) => fdtab[fd].mode \subseteq open[fdtab[fd].rp]

(* It does for a program of one thread that uses one resource, so that its *)
(* table has no empty entry before the one in use.                         *)
SupersetOfOne == OneThread /\ Cardinality(program.rps) = 1 => Superset

(* Such a program is connected only as long as it has a descriptor: the    *)
(* last one that is closed takes the status away (fd_set, ropen.c:38).     *)
NothingLeft ==
  Quiet /\ OneThread /\ Cardinality(program.rps) = 1 => \A rp \in RP : open[rp] # {} =>
    \E fd \in DOMAIN fdtab : InUse(fd) /\ fdtab[fd].rp = rp

(* Changing the mode of a descriptor never closes the connection on the    *)
(* way (ropen.c:24, "the connection is never fully closed"): the status    *)
(* is not taken away while a thread is in ropen() on a descriptor that has *)
(* the resource, and it is the only thread.                                *)
NeverFullyClosed ==
  [][ \A rp \in RP :
        (/\ OneThread /\ live /\ live' /\ up'
         /\ Cardinality(program.rps) = 1
         /\ \E t \in Thread : call[t].pc = "connect" /\ call[t].mode # {}
         /\ \E fd \in DOMAIN fdtab : InUse(fd) /\ fdtab[fd].rp = rp)
        => (open[rp] # {} => open'[rp] # {}) ]_vars

(* No interleaving of requests, and no undoing of them, gives the program  *)
(* a status its access does not allow (class_core.c:79).                   *)
Allowed == \A rp \in RP : open[rp] \ {"open"} \subseteq Access[rp]

(* The server holds a status for the program only while the kernel knows   *)
(* the connection or a notice of the exit is on its way (class_core.c:84). *)
Noted ==
  \A rp \in RP : open[rp] # {} =>
    \/ \E i \in DOMAIN rtab : rtab[i] = Connection(rp)
    \/ rp \in {notice[i] : i \in DOMAIN notice}

(* A program that is gone has, in the end, no status in the server.        *)
Forgotten == \A rp \in RP : ~live ~> open[rp] = {}

(* Every call of a program with one thread returns: the undoing of a       *)
(* failed change (contab.c:81, 118, 156, recursive) ends, also when the    *)
(* server is gone.  With two threads it need not: one can go on undoing    *)
(* what the other adds.                                                    *)
CallsReturn == \A t \in Thread : OneThread /\ call[t].pc # "out" ~> call[t].pc = "out"

=============================================================================
