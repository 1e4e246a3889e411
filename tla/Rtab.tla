-------------------------------- MODULE Rtab --------------------------------
(***************************************************************************)
(* The table of connections of a process: kernel/process/rtab.c.  A table  *)
(* is a sequence of entries [a, b] and of free entries (NULL).  The code   *)
(* grows it by 16 free entries at a time; free entries at the end are left *)
(* out here, since a search that reaches them appends.                     *)
(***************************************************************************)
EXTENDS Naturals, Sequences

CONSTANT NULL

(* Where a search from the start of a table ends.                          *)
Least(S) == CHOOSE i \in S : \A j \in S : i <= j

(* The search ends at the first entry that is free or the same connection. *)
rtab_open(tab, c) ==
  LET found == {i \in DOMAIN tab : tab[i] \in {NULL, c}}
  IN IF found = {} THEN Append(tab, c) ELSE [tab EXCEPT ![Least(found)] = c]

(* The entries that rtab_close takes for the connection c.                 *)
Closes(tab, c) ==
  {i \in DOMAIN tab : /\ tab[i] # NULL
                      /\ tab[i].a = c.a \/ tab[i].b = c.b}

(* Frees one entry; c.b is notified if there was one.                      *)
rtab_close(tab, c) ==
  LET found == Closes(tab, c)
  IN IF found = {} THEN [tab |-> tab, notify |-> <<>>]
     ELSE [tab |-> [tab EXCEPT ![Least(found)] = NULL], notify |-> <<c.b>>]

(* The entries up to i are closed, in order, and the notices are sent in   *)
(* that order.                                                             *)
Freeing(tab, from) ==
  LET freed[i \in 0..Len(tab)] ==
        IF i < from THEN [tab |-> tab, notify |-> <<>>]
        ELSE LET s == freed[i - 1]
                 r == rtab_close(s.tab, s.tab[i])
             IN IF s.tab[i] = NULL THEN s
                ELSE [tab |-> r.tab, notify |-> s.notify \o r.notify]
  IN freed[Len(tab)].notify

(* Mutant of rtab_free: it misses the first entry.                         *)
rtab_free_from_one(tab) == Freeing(tab, 2)

rtab_free(tab) == Freeing(tab, 1)

=============================================================================
