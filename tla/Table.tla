------------------------------- MODULE Table --------------------------------
(***************************************************************************)
(* The hash table of strings that robjects keep their calls, data, open    *)
(* connections and access rights in: libc/struct/table.c.  A slot is the   *)
(* sequence of entries of its chain, the first of which is in the array.   *)
(***************************************************************************)
EXTENDS Naturals, Sequences, SequencesExt, FiniteSets

CONSTANTS Key,      \* strings
          Data,     \* values (not NULL)
          NULL,
          Hashes,   \* the hash functions, each on the keys that are used with it
          MinLog    \* log of the smallest number of slots (6)

VARIABLES table,  \* NULL, or the table: log of its size, load, slots
          hash,   \* the hash function
          dict    \* dict[k]: what was last stored for k

vars == <<table, hash, dict>>

Slots(log) == 0..2^log - 1
_cons(log) == [size |-> log, load |-> 0, slot |-> [i \in Slots(log) |-> <<>>]]

At(t, k) == hash[k] % 2^t.size

(* The places of key k in a chain.                                         *)
Places(chain, k) == {i \in DOMAIN chain : chain[i].key = k}

_add(t, e) ==
  LET i == At(t, e.key)
  IN [t EXCEPT !.slot[i] = Append(@, e), !.load = IF t.slot[i] = <<>> THEN @ + 1 ELSE @]

(* The entries of a table in the order of _iter.                           *)
_iter(t) == FlattenSeq([i \in 1..2^t.size |-> t.slot[i - 1]])

_resize(t, log) == FoldLeft(_add, _cons(log), _iter(t))

_set(t, k, d) ==
  LET i == At(t, k)
      found == Places(t.slot[i], k)
      e == [key |-> k, data |-> d]
  IN [t EXCEPT !.slot[i] = IF found = {} THEN Append(@, e)
                           ELSE [@ EXCEPT ![CHOOSE j \in found : TRUE] = e],
               !.load = IF t.slot[i] = <<>> THEN @ + 1 ELSE @]

(* Mutant of _del: the load goes down for every entry.                     *)
_del_each(t, k) ==
  LET i == At(t, k)
      found == Places(t.slot[i], k)
  IN IF found = {} THEN t
     ELSE [t EXCEPT !.slot[i] = RemoveAt(@, CHOOSE j \in found : TRUE),
                    !.load = IF @ > 0 THEN @ - 1 ELSE 0]

_del(t, k) ==
  LET i == At(t, k)
      found == Places(t.slot[i], k)
  IN IF found = {} THEN t
     ELSE [t EXCEPT !.slot[i] = RemoveAt(@, CHOOSE j \in found : TRUE),
                    !.load = IF Len(t.slot[i]) = 1 THEN @ - 1 ELSE @]

_get(t, k) ==
  LET chain == t.slot[At(t, k)]
      found == Places(chain, k)
  IN IF found = {} THEN NULL ELSE chain[CHOOSE j \in found : \A i \in found : j <= i].data

Init ==
  /\ table = NULL
  /\ hash \in Hashes
  /\ dict = [k \in Key |-> NULL]

(* s_table_set: the table is made when it is first used, doubled above a   *)
(* load of 75% and halved below 12.5%.                                     *)
s_table_set(k, d) ==
  LET t == IF table = NULL THEN _cons(MinLog) ELSE table
      s == _set(t, k, d)
  IN /\ table' = IF s.load > (3 * 2^s.size) \div 4 THEN _resize(s, s.size + 1) ELSE s
     /\ dict' = [dict EXCEPT ![k] = d]
     /\ UNCHANGED hash

s_table_unset(k) ==
  LET t == IF table = NULL THEN _cons(MinLog) ELSE table
      s == _del(t, k)
  IN /\ table' = IF s.size > MinLog /\ s.load < 2^s.size \div 8 THEN _resize(s, s.size - 1) ELSE s
     /\ dict' = [dict EXCEPT ![k] = NULL]
     /\ UNCHANGED hash

s_table_get(k) == IF table = NULL THEN NULL ELSE _get(table, k)

Next == \E k \in DOMAIN hash : s_table_unset(k) \/ \E d \in Data : s_table_set(k, d)

Spec == Init /\ [][Next]_vars

-----------------------------------------------------------------------------
(* The table is a dictionary, whatever keys collide and however often it   *)
(* was resized: s_table_get returns what was last stored.                  *)
Lookup == \A k \in DOMAIN hash : s_table_get(k) = dict[k]

(* s_table_iter calls its function once for each key that is stored.       *)
IterExact ==
  table # NULL =>
    LET all == _iter(table)
    IN /\ {all[i].key : i \in DOMAIN all} = {k \in Key : dict[k] # NULL}
       /\ Len(all) = Cardinality({k \in Key : dict[k] # NULL})

(* The load, which decides on resizing, is the number of slots in use.     *)
LoadExact ==
  table # NULL => table.load = Cardinality({i \in Slots(table.size) : table.slot[i] # <<>>})

=============================================================================
