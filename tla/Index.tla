------------------------------- MODULE Index --------------------------------
(***************************************************************************)
(* The table by which a driver finds its objects: librdi/robject/index.c.  *)
(* Objects with the same hash are in one balanced binary tree; the module  *)
(* is about one such tree.  A tree is NULL or a record; following a NULL   *)
(* pointer ends the driver (Crash).                                        *)
(***************************************************************************)
EXTENDS Integers, FiniteSets

CONSTANTS Key,     \* indices with the same hash
          Object,  \* objects (struct robject)
          NULL,
          Crash,   \* the result of following a NULL pointer
          Plans    \* Plans: the sets of keys that a driver uses, and
                   \* whether it deletes objects

VARIABLES root,  \* the tree
          dict,  \* dict[k]: what was last stored for k
          plan   \* the use that the driver makes of the table

vars == <<root, dict, plan>>

Larger(a, b) == IF a > b THEN a ELSE b

Node(l, r, k, o) == [l |-> l, r |-> r, balance |-> 0, height |-> 0, index |-> k, ro |-> o]
_new_bucket(o, k) == Node(NULL, NULL, k, o)

_update_height_balance(n) ==
  LET hl == IF n.l = NULL THEN 0 ELSE n.l.height + 1
      hr == IF n.r = NULL THEN 0 ELSE n.r.height + 1
  IN [n EXCEPT !.height = Larger(hl, hr), !.balance = hl - hr]

(* The rotation that makes the right child of n the root, and its mirror   *)
(* image; n is updated before the new root.                                *)
RotateLeft(n) ==
  LET down == _update_height_balance([n EXCEPT !.r = n.r.l])
  IN _update_height_balance([n.r EXCEPT !.l = down])

RotateRight(n) ==
  LET down == _update_height_balance([n EXCEPT !.l = n.l.r])
  IN _update_height_balance([n.l EXCEPT !.r = down])

(* The first rotation of a double one: the node that moves down keeps its  *)
(* height and balance, since the node above it is updated twice.           *)
Lifted_right(n) == _update_height_balance([n.l EXCEPT !.r = [n EXCEPT !.l = n.l.r]])
Lifted_left(n)  == _update_height_balance([n.r EXCEPT !.l = [n EXCEPT !.r = n.r.l]])

_tree_balance(n) ==
  CASE n.balance \in -1..1 -> n
    [] n.balance < 0 ->
         IF n.r = NULL THEN Crash
         ELSE IF n.r.balance <= 0 THEN RotateLeft(n)
         ELSE IF n.r.l = NULL THEN Crash
         ELSE RotateLeft([n EXCEPT !.r = Lifted_right(n.r)])
    [] OTHER ->
         IF n.l = NULL THEN Crash
         ELSE IF n.l.balance >= 0 THEN RotateRight(n)
         ELSE IF n.l.r = NULL THEN Crash
         ELSE RotateRight([n EXCEPT !.l = Lifted_left(n.l)])

(* The trees are followed by recursion, as in the code.                    *)
RECURSIVE _tree_get(_, _), _tree_set(_, _, _), _tree_max_index(_), _tree_del(_, _)

_tree_get(n, k) ==
  IF n = NULL THEN NULL
  ELSE IF k = n.index THEN n
  ELSE _tree_get(IF k < n.index THEN n.l ELSE n.r, k)

_tree_set(n, k, o) ==
  IF n = NULL THEN _new_bucket(o, k)
  ELSE IF k = n.index THEN [n EXCEPT !.ro = o]
  ELSE LET down == _tree_set(IF k < n.index THEN n.l ELSE n.r, k, o)
       IN IF down = Crash THEN Crash
          ELSE _tree_balance(_update_height_balance(
                 IF k < n.index THEN [n EXCEPT !.l = down] ELSE [n EXCEPT !.r = down]))

_tree_max_index(n) == IF n.r = NULL THEN n.index ELSE _tree_max_index(n.r)

(* Mutant of _tree_del: the node that takes the place keeps the right      *)
(* subtree only.                                                           *)
_tree_del_short(n, k) ==
  CASE n = NULL -> NULL
    [] n # NULL /\ k < n.index -> [n EXCEPT !.l = _tree_del(@, k)]
    [] n # NULL /\ k > n.index -> [n EXCEPT !.r = _tree_del(@, k)]
    [] OTHER -> IF n.r = NULL THEN n.l ELSE n.r

(* A node with two children is replaced by a new one for the largest index *)
(* on its left.  On the way to the node nothing is updated.                *)
_tree_del(n, k) ==
  IF n = NULL THEN NULL
  ELSE IF k # n.index
  THEN LET down == _tree_del(IF k < n.index THEN n.l ELSE n.r, k)
       IN IF down = Crash THEN Crash
          ELSE IF k < n.index THEN [n EXCEPT !.l = down] ELSE [n EXCEPT !.r = down]
  ELSE IF n.l = NULL THEN n.r
  ELSE IF n.r = NULL THEN n.l
  ELSE LET max  == _tree_max_index(n.l)
           down == _tree_del(n.l, max)
       IN IF down = Crash THEN Crash
          ELSE _tree_balance(_update_height_balance(
                 Node(down, n.r, max, _tree_get(n.l, max).ro)))

Init ==
  /\ root = NULL
  /\ dict = [k \in Key |-> NULL]
  /\ plan \in Plans

(* robject_set with an object, and with NULL.                              *)
robject_set(k, o) ==
  /\ root # Crash /\ k \in plan.keys
  /\ root' = _tree_set(root, k, o)
  /\ dict' = [dict EXCEPT ![k] = o]
  /\ UNCHANGED plan

robject_del(k) ==
  /\ root # Crash /\ k \in plan.keys /\ plan.deletes
  /\ root' = _tree_del(root, k)
  /\ dict' = [dict EXCEPT ![k] = NULL]
  /\ UNCHANGED plan

robject_get(k) == LET n == _tree_get(root, k) IN IF n = NULL THEN NULL ELSE n.ro

Next ==
  \E k \in Key : \/ \E o \in Object : robject_set(k, o)
                 \/ robject_del(k)

Spec == Init /\ [][Next]_vars

-----------------------------------------------------------------------------
RECURSIVE Depth(_), Nodes(_)
Depth(n) == IF n = NULL THEN 0 ELSE 1 + Larger(Depth(n.l), Depth(n.r))
Nodes(n) == IF n = NULL THEN {} ELSE {n} \cup Nodes(n.l) \cup Nodes(n.r)

(* Balancing never follows a NULL pointer, as long as the driver only adds *)
(* and replaces objects: the stored heights may be stale (index.c:67, 91), *)
(* but never by so much.  With deletions they are.                         *)
NoCrash == plan.deletes \/ root # Crash

(* The same with deletions; see the README.                                *)
NeverCrash == root # Crash

(* The tree is a dictionary: a search finds what was last stored, or       *)
(* nothing after a deletion, in every shape rotations and deletions give.  *)
Lookup == root # Crash => \A k \in Key : robject_get(k) = dict[k]

(* "AVL tree implementation" (index.c:27): the depths of the two subtrees  *)
(* of a node differ by at most one.                                        *)
Balanced ==
  root # Crash => \A n \in Nodes(root) : Depth(n.l) - Depth(n.r) \in -1..1

=============================================================================
