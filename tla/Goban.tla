------------------------------- MODULE Goban --------------------------------
(***************************************************************************)
(* The board of the game of Go in apps/calico (goban.c): the stones, and   *)
(* the groups they form, whose size and liberties are kept up to date from *)
(* move to move instead of being counted again.                            *)
(*                                                                         *)
(* The bitmap of group IDs has 64 bits, but is searched for 256: when it   *)
(* is full, the search goes on in the field behind it, which is ko_group,  *)
(* and the move then overwrites the bit that was set there.  Such a move   *)
(* is left out, unless "ids" is in Beyond.                                 *)
(***************************************************************************)
EXTENDS Integers, Sequences, SequencesExt, FiniteSets

CONSTANTS N,        \* the board has N x N points (19)
          Ids,      \* how many group IDs the bitmap has (64)
          MaxMoves, \* bound on the moves of a game
          Beyond    \* the restrictions that are lifted

VARIABLES board,   \* struct goban
          turn,    \* whose move it is
          moves    \* how many moves were made

vars == <<board, turn, moves>>

Point == (0..N - 1) \X (0..N - 1)
Beside(p) == << <<p[1], p[2] + 1>>, <<p[1] + 1, p[2]>>, <<p[1], p[2] - 1>>, <<p[1] - 1, p[2]>> >>

(* Sizes and liberties are kept in a byte.                                 *)
Byte(n) == n % 256

Opponent(c) == IF c = "W" THEN "B" ELSE "W"

goban_get_color(b, p) == IF p \in Point THEN b.color[p] ELSE "O"
goban_get_grpid(b, p) == IF p \in Point THEN b.grpid[p] ELSE 0
goban_group_libs(b, p) == IF b.grpid[p] = 0 THEN 0 ELSE b.group[b.grpid[p]].libs
goban_group_size(b, p) == IF b.grpid[p] = 0 THEN 0 ELSE b.group[b.grpid[p]].size

goban_cons ==
  [color |-> [p \in Point |-> "E"], grpid |-> [p \in Point |-> 0],
   group |-> [g \in 0..2 * Ids - 1 |-> [size |-> 0, libs |-> 0]],
   ids |-> {0}, ko_group |-> 0, caps |-> [c \in {"B", "W"} |-> 0]]

Init == board = goban_cons /\ turn = "B" /\ moves = 0

-----------------------------------------------------------------------------
Full(b) == b.ids = 0..Ids - 1

(* Bit i of the number n.                                                  *)
Bit(n, i) == (n \div 2^i) % 2 = 1

(* The free ID that is lowest is taken.  Behind the bitmap these are bits  *)
(* of ko_group, which as an ID always has a bit that is not set.           *)
_group_new_id(b) ==
  LET free == IF Full(b) THEN {Ids + i : i \in {i \in 0..Ids - 1 : ~Bit(b.ko_group, i)}}
              ELSE (0..Ids - 1) \ b.ids
      g == CHOOSE g \in free : \A f \in free : g <= f
  IN [id |-> g, b |-> IF Full(b) THEN [b EXCEPT !.ko_group = @ + 2^(g - Ids)]
                      ELSE [b EXCEPT !.ids = @ \cup {g}]]

_group_del_id(b, g) ==
  IF g < Ids THEN [b EXCEPT !.ids = @ \ {g}]
  ELSE IF Bit(b.ko_group, g - Ids) THEN [b EXCEPT !.ko_group = @ - 2^(g - Ids)]
  ELSE b

(* Mutant of _group_set_id: the old ID stays in use.                       *)
_group_set_id_kept(b, old, new) ==
  [b EXCEPT !.grpid = [p \in Point |-> IF @[p] = old THEN new ELSE @[p]]]

_group_set_id(b, old, new) ==
  _group_del_id([b EXCEPT !.grpid = [p \in Point |-> IF @[p] = old THEN new ELSE @[p]]], old)

(* One liberty more for the groups beside point p.  A group that is both   *)
(* on the right and on the left gets two: the last comparison of the code  *)
(* is with the first group again.                                          *)
Freed(b, p) ==
  LET g == [i \in 1..4 |-> goban_get_grpid(b, Beside(p)[i])]
      second == IF g[2] = g[1] THEN 0 ELSE g[2]
      third  == IF g[3] \in {g[1], second} THEN 0 ELSE g[3]
      fourth == IF g[4] \in {g[1], third} THEN 0 ELSE g[4]
      More(c, i) == IF i = 0 THEN c ELSE [c EXCEPT !.group[i].libs = Byte(@ + 1)]
  IN FoldLeft(More, b, <<g[1], second, third, fourth>>)

(* The points in the order of the two loops.                               *)
Rows == [i \in 1..N * N |-> <<(i - 1) % N, (i - 1) \div N>>]

_group_clear(b, g) ==
  LET Clear(c, p) == IF c.grpid[p] # g THEN c
                     ELSE Freed([c EXCEPT !.grpid[p] = 0, !.color[p] = "E"], p)
  IN _group_del_id(FoldLeft(Clear, b, Rows), g)

-----------------------------------------------------------------------------
(* goban_check: a stone of color c may be placed on p.  Of the groups that *)
(* the move would capture, the first one decides about ko.                 *)
goban_check(b, p, c) ==
  LET Is(color) == SelectSeq(Beside(p), LAMBDA q : goban_get_color(b, q) = color)
      captures == SelectSeq(Is(Opponent(c)), LAMBDA q : goban_group_libs(b, q) = 1)
      alive    == SelectSeq(Is(c), LAMBDA q : goban_group_libs(b, q) # 1)
  IN /\ goban_get_color(b, p) = "E"
     /\ \/ Is("E") # <<>>
        \/ captures # <<>> /\ goban_get_grpid(b, captures[1]) # b.ko_group
        \/ captures = <<>> /\ alive # <<>>

(* One side after the other, the opponent loses a liberty or its group.    *)
Attacked(b, p, c) ==
  LET Attack(a, q) ==
        IF goban_get_color(a.b, q) # Opponent(c) THEN a
        ELSE IF goban_group_libs(a.b, q) = 1
        THEN [b |-> _group_clear(a.b, a.b.grpid[q]), caps |-> a.caps + goban_group_size(a.b, q)]
        ELSE [a EXCEPT !.b.group[a.b.grpid[q]].libs = Byte(@ - 1)]
  IN FoldLeft(Attack, [b |-> b, caps |-> 0], Beside(p))

(* The groups of the same color beside p become part of group g.           *)
Merged(b, p, c, g) ==
  LET Merge(a, q) ==
        LET other == goban_get_grpid(a.b, q)
        IN IF goban_get_color(a.b, q) # c \/ other = g THEN a
           ELSE [b |-> _group_set_id(a.b, other, g), size |-> a.size + a.b.group[other].size,
                 libs |-> a.libs + a.b.group[other].libs - 1]
  IN FoldLeft(Merge, [b |-> b, size |-> 1, libs |-> 0], Beside(p))

(* The empty points beside p that have no other stone of group g beside.   *)
NewLibs(b, p, g) ==
  Cardinality({q \in ToSet(Beside(p)) :
                 /\ goban_get_color(b, q) = "E"
                 /\ \A r \in ToSet(Beside(q)) \ {p} : goban_get_grpid(b, r) # g})

goban_play(p) ==
  LET c == turn
      a == Attacked(board, p, c)
      new == _group_new_id(a.b)
      g == new.id
      m == Merged(new.b, p, c, g)
  IN /\ moves < MaxMoves /\ goban_check(board, p, c)
     /\ Full(a.b) => "ids" \in Beyond
     /\ board' = [m.b EXCEPT !.color[p] = c, !.grpid[p] = g,
                             !.group[g] = [size |-> Byte(m.size),
                                           libs |-> Byte(m.libs + NewLibs(m.b, p, g))],
                             !.ko_group = IF a.caps = 0 THEN 0 ELSE g,
                             !.caps[c] = @ + a.caps]
     /\ turn' = Opponent(turn) /\ moves' = moves + 1

Next == \E p \in Point : goban_play(p)

Spec == Init /\ [][Next]_vars

-----------------------------------------------------------------------------
Stones == {p \in Point : board.color[p] # "E"}

(* The group of a stone: the stones of its color that can be reached.      *)
RECURSIVE Reach(_)
Reach(s) ==
  LET t == {q \in Stones : \E p \in s : board.color[p] = board.color[q] /\ q \in ToSet(Beside(p))} \cup s
  IN IF t = s THEN s ELSE Reach(t)

Liberties(s) == {q \in Point : board.color[q] = "E" /\ \E p \in s : q \in ToSet(Beside(p))}

(* Two stones have the same ID if and only if they are connected, the size *)
(* that is kept is the number of stones, and the IDs in use are those of   *)
(* groups on the board, as long as the bitmap has an ID for each group     *)
(* (goban.c:194-273, 333-390).                                             *)
GroupsExact ==
  /\ \A p \in Stones : LET s == Reach({p})
                       IN /\ {q \in Stones : board.grpid[q] = board.grpid[p]} = s
                          /\ board.group[board.grpid[p]].size = Cardinality(s)
  /\ board.ids = {0} \cup {board.grpid[p] : p \in Stones}
  /\ \A p \in Point \ Stones : board.grpid[p] = 0

(* Every stone that was played is on the board or was captured by the      *)
(* other side (goban.c:316-325).                                           *)
StonesCounted ==
  moves = Cardinality(Stones) + board.caps["B"] + board.caps["W"]

(* "number of liberties" (calico.h): it is not; see the README.            *)
LibsExact == \A p \in Stones : board.group[board.grpid[p]].libs = Cardinality(Liberties(Reach({p})))

(* Only stones without liberties are captured; see the README.             *)
CapturesRight ==
  [][\A p \in Stones : board'.color[p] = "E" => \A q \in Liberties(Reach({p})) : board'.color[q] # "E"]_vars

=============================================================================
