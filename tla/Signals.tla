------------------------------ MODULE Signals -------------------------------
(***************************************************************************)
(* Signals of a process, libc/signal: the table of handlers, and the       *)
(* threads in which signals are handled, one for each signal that comes.   *)
(* A handler runs while its thread holds __sigmutex.                       *)
(*                                                                         *)
(* A handler "plain" returns, "again" installs a handler itself (left out, *)
(* unless "again" is in Beyond); "dfl" ends the process.                   *)
(***************************************************************************)
EXTENDS Naturals, FiniteSets

CONSTANTS Signal,   \* signal numbers whose default handler ends the process
          Thread,   \* threads in which signals are handled
          Program,  \* threads of the program, which install handlers
          MaxSets,  \* bound on the handlers that are installed
          NULL,
          Beyond    \* the restrictions that are lifted

VARIABLES handlerv,  \* __sighandlerv[s]: kind and number of the handler
          mutex,     \* the thread that holds __sigmutex, or NULL
          at,        \* at[t]: what thread t does, and for which signal
          sets,      \* how many handlers were installed
          ran,       \* ran[n]: how often the handler that was installed n-th ran
          ended      \* the process ended

vars == <<handlerv, mutex, at, sets, ran, ended>>

Idle == [does |-> "idle", sig |-> NULL]
Default == [kind |-> "dfl", n |-> 0]
Kinds == {"plain"} \cup (Beyond \cap {"again"})

(* __sig_init                                                              *)
Init ==
  /\ handlerv = [s \in Signal |-> Default] /\ mutex = NULL
  /\ at = [t \in Thread \cup Program |-> Idle]
  /\ sets = 0 /\ ran = [n \in 0..MaxSets |-> 0] /\ ended = FALSE

(* _sigwrap: a signal comes, and its thread waits for the mutex.           *)
_sigwrap(t, s) ==
  /\ ~ended /\ at[t] = Idle
  /\ at' = [at EXCEPT ![t] = [does |-> "raise", sig |-> s]]
  /\ UNCHANGED <<handlerv, mutex, sets, ran, ended>>

(* Mutant of __raise: the handler is called without the mutex.             *)
__raise_unlocked(t) ==
  /\ ~ended /\ at[t].does = "raise" /\ mutex = NULL
  /\ LET h == handlerv[at[t].sig]
     IN /\ ran' = [ran EXCEPT ![h.n] = IF h.n = 0 THEN 0 ELSE @ + 1]
        /\ ended' = (h.kind = "dfl")
        /\ at' = [at EXCEPT ![t].does = IF h.kind = "again" THEN "signal" ELSE "handler"]
  /\ UNCHANGED <<handlerv, mutex, sets>>

(* __raise up to the call of the handler: a handler that ends the process  *)
(* does not return.                                                        *)
__raise(t) ==
  /\ ~ended /\ at[t].does = "raise" /\ mutex = NULL
  /\ mutex' = t
  /\ LET h == handlerv[at[t].sig]
     IN /\ ran' = [ran EXCEPT ![h.n] = IF h.n = 0 THEN 0 ELSE @ + 1]
        /\ ended' = (h.kind = "dfl")
        /\ at' = [at EXCEPT ![t].does = IF h.kind = "again" THEN "signal" ELSE "handler"]
  /\ UNCHANGED <<handlerv, sets>>

(* Mutant of __raise_reset: the handler stays.                             *)
__raise_reset_kept(t) ==
  /\ ~ended /\ at[t].does = "handler"
  /\ mutex' = NULL
  /\ at' = [at EXCEPT ![t] = Idle]
  /\ UNCHANGED <<handlerv, sets, ran, ended>>

(* The handler returned, and is reset to SIG_DFL.                          *)
__raise_reset(t) ==
  /\ ~ended /\ at[t].does = "handler"
  /\ handlerv' = [handlerv EXCEPT ![at[t].sig] = Default]
  /\ mutex' = NULL
  /\ at' = [at EXCEPT ![t] = Idle]
  /\ UNCHANGED <<sets, ran, ended>>

(* signal() is called, by the program or by a handler.                     *)
signal_call(t, s) ==
  /\ ~ended /\ at[t] = Idle
  /\ at' = [at EXCEPT ![t] = [does |-> "signal", sig |-> s]]
  /\ UNCHANGED <<handlerv, mutex, sets, ran, ended>>

signal(t, k) ==
  /\ ~ended /\ at[t].does = "signal" /\ mutex = NULL /\ sets < MaxSets
  /\ sets' = sets + 1
  /\ handlerv' = [handlerv EXCEPT ![at[t].sig] = [kind |-> k, n |-> sets + 1]]
  /\ at' = [at EXCEPT ![t] = Idle]
  /\ UNCHANGED <<mutex, ran, ended>>

Next ==
  \/ \E t \in Thread : (\E s \in Signal : _sigwrap(t, s)) \/ __raise(t) \/ __raise_reset(t)
  \/ \E t \in Program : (\E s \in Signal : signal_call(t, s)) \/ \E k \in Kinds : signal(t, k)

Spec == Init /\ [][Next]_vars

-----------------------------------------------------------------------------
(* "Resets the signal handler to SIG_DFL when the handler completes"       *)
(* (__raise.c:24): an installed handler runs once at most, also if the     *)
(* signal comes again while it runs.                                       *)
Once == \A n \in 1..MaxSets : ran[n] <= 1

(* The reset takes only a handler away that has run: one that the program  *)
(* installs for a signal while the handler of that signal runs is not lost *)
(* to the reset that follows (__raise.c:33-37, signal.c:46).               *)
ResetsOnlyRun ==
  \A s \in Signal : handlerv[s].n > 0 /\ handlerv'[s].n = 0 => ran[handlerv[s].n] = 1

NotLost == [][ResetsOnlyRun]_vars

(* No thread waits for a mutex that it holds itself.  It may: see the      *)
(* README.                                                                 *)
NoSelfWait == mutex # NULL => at[mutex].does = "handler"

=============================================================================
