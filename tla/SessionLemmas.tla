--------------------------- MODULE SessionLemmas ----------------------------
(***************************************************************************)
(* What the proofs about Session rest on: what the functions of the table  *)
(* of connections return, what the entry of a resource covers, the two     *)
(* invariants Inv and Cover, and that a call that begins and reads the     *)
(* descriptor table keeps them.                                            *)
(***************************************************************************)
EXTENDS Session, TLAPS

(* The time, in seconds, that each prover has for a leaf.                  *)
USE ZenonT(4), SMTT(20), ZenonT(30)

(* What the lemmas use of the library: a nonempty set of naturals has a    *)
(* least member, which is the form in which the proofs use induction, and  *)
(* the sizes of finite sets.  SessionProofs shows that it holds; the fewer *)
(* facts are in sight of a proof, the faster it is checked.                *)
LeastNatural == \A S \in SUBSET Nat : S # {} => \E m \in S : \A k \in S : m <= k
IntervalSize ==
  \A a, b \in Int : IsFiniteSet(a..b) /\ Cardinality(a..b) = IF a > b THEN 0 ELSE b - a + 1
SizeNatural == \A S : IsFiniteSet(S) => Cardinality(S) \in Nat
SubsetFinite ==
  \A S : \A T \in SUBSET S :
    IsFiniteSet(S) => IsFiniteSet(T) /\ Cardinality(T) <= Cardinality(S)
EmptySize ==
  Cardinality({}) = 0 /\ \A S : IsFiniteSet(S) => (Cardinality(S) = 0 <=> S = {})
SingletonSize == \A S : IsFiniteSet(S) => (Cardinality(S) = 1 <=> \E x : S = {x})
OneMore ==
  \A S, x : IsFiniteSet(S) =>
    Cardinality(S \cup {x}) = IF x \in S THEN Cardinality(S) ELSE Cardinality(S) + 1
OneLess ==
  \A S, x : IsFiniteSet(S) =>
    /\ IsFiniteSet(S \ {x})
    /\ Cardinality(S \ {x}) = IF x \in S THEN Cardinality(S) - 1 ELSE Cardinality(S)

Counting ==
  /\ LeastNatural /\ IntervalSize /\ SizeNatural /\ SubsetFinite
  /\ EmptySize /\ SingletonSize /\ OneMore /\ OneLess

-----------------------------------------------------------------------------
(* The table of connections.                                               *)

Entry == [rp : RP \cup {NULL}, refc : Int, count : [Bit -> Int]]

(* An entry that is taken, and what it becomes.                            *)
Used(e, rp, st) == [rp |-> rp, refc |-> e.refc + 1, count |-> Counted(e.count, st, 1)]
Left(e, rp, st) ==
  IF e.refc <= 1 THEN Empty
  ELSE [rp |-> rp, refc |-> e.refc - 1, count |-> Counted(e.count, st, -1)]

IsSet(tab, i, e, tab2) == tab2 = [tab EXCEPT ![i] = e]

LeastIsClaim ==
  \A S \in SUBSET Nat :
    /\ S # {}
    => Least(S) \in S

EmptyEntryClaim ==
 Empty \in Entry /\ Empty.rp = NULL /\ Empty.refc = 0
                    /\ \A b \in Bit : Empty.count[b] = 0

CountedTypeClaim ==
  \A count \in [Bit -> Int] :
  \A st :
  \A n \in Int :
    /\ Counted(count, st, n) \in [Bit -> Int]
    /\ \A b \in Bit : Counted(count, st, n)[b] = IF b \in st THEN count[b] + n ELSE count[b]

EntriesInClaim ==
  \A tab \in Seq(Entry) :
  \A S :
    Entries(tab, S) \in SUBSET Nat /\ Entries(tab, S) \subseteq 1..Len(tab)

UsedTypeClaim ==
  \A e \in Entry, rp \in RP :
  \A st :
    Used(e, rp, st) \in Entry /\ Used(e, rp, st).rp = rp

LeftTypeClaim ==
  \A e \in Entry, rp \in RP :
  \A st :
    Left(e, rp, st) \in Entry /\ Left(e, rp, st).rp \in {NULL, rp}

AddIsClaim ==
  \A tab \in Seq(Entry), rp \in RP :
  \A st :
    LET found == Entries(tab, {NULL, rp})
    IN _contab_add(tab, rp, st) =
         IF found = {}
         THEN tab \o [i \in 1..Grow |-> IF i = 1 THEN Used(Empty, rp, st) ELSE Empty]
         ELSE [tab EXCEPT ![Least(found)] = Used(tab[Least(found)], rp, st)]

AddOtherClaim ==
  \A tab \in Seq(Entry), rp \in RP :
  \A st :
    /\ _contab_add(tab, rp, st) \in Seq(Entry)
    /\ \A r \in RP \ {rp} : _contab_get(_contab_add(tab, rp, st), r) = _contab_get(tab, r)

DelIsClaim ==
  \A tab \in Seq(Entry), rp \in RP :
  \A st, i :
    /\ Entries(tab, {rp}) # {}
    /\ i = Least(Entries(tab, {rp}))
    => /\ i \in Entries(tab, {rp}) /\ i \in 1..Len(tab) /\ tab[i] \in Entry /\ tab[i].rp = rp
       /\ IsSet(tab, i, Left(tab[i], rp, st), _contab_del(tab, rp, st))

DelOtherClaim ==
  \A tab \in Seq(Entry), rp \in RP :
  \A st :
    /\ Entries(tab, {rp}) # {}
    => /\ _contab_del(tab, rp, st) \in Seq(Entry)
       /\ \A r \in RP \ {rp} : _contab_get(_contab_del(tab, rp, st), r) = _contab_get(tab, r)

(* What the functions of contab.c return.                                  *)
LEMMA Tables ==
  ASSUME Counting
  PROVE  /\ LeastIsClaim /\ EmptyEntryClaim /\ CountedTypeClaim
         /\ EntriesInClaim /\ UsedTypeClaim /\ LeftTypeClaim /\ AddIsClaim
         /\ AddOtherClaim /\ DelIsClaim /\ DelOtherClaim
<1>LeastIs. LeastIsClaim
    BY DEF LeastIsClaim, Counting, LeastNatural, Least
<1>EmptyEntry. EmptyEntryClaim
    BY DEF EmptyEntryClaim, Empty, Entry, NoCount
<1>CountedType. CountedTypeClaim
    BY SMTT(30) DEF CountedTypeClaim, Counted
<1>EntriesIn. EntriesInClaim
    BY DEF EntriesInClaim, Entries
(* A status is made of the entry of a resource alone.                      *)
<1>GetSame.
    ASSUME NEW tab \in Seq(Entry), NEW tab2 \in Seq(Entry), NEW r,
           Entries(tab2, {r}) = Entries(tab, {r}),
           \A i \in Entries(tab, {r}) : tab2[i].count = tab[i].count
    PROVE  _contab_get(tab2, r) = _contab_get(tab, r)
  <2> USE <1>GetSame
  <2>1. CASE Entries(tab, {r}) = {}
    BY <2>1 DEF _contab_get
  <2>2. CASE Entries(tab, {r}) # {}
    <3>1. Least(Entries(tab, {r})) \in Entries(tab, {r})
      BY <2>2, <1>EntriesIn, <1>LeastIs DEF EntriesInClaim, LeastIsClaim
    <3> QED
      BY <2>2, <3>1 DEF _contab_get
  <2> QED
    BY <2>1, <2>2
<1>UsedType. UsedTypeClaim
    BY <1>CountedType, SMTT(30) DEF UsedTypeClaim, CountedTypeClaim, Used, Entry
<1>LeftType. LeftTypeClaim
  <2> SUFFICES
      ASSUME NEW e \in Entry, NEW rp \in RP, NEW st
      PROVE  Left(e, rp, st) \in Entry /\ Left(e, rp, st).rp \in {NULL, rp}
    BY DEF LeftTypeClaim
  <2>1. Counted(e.count, st, -1) \in [Bit -> Int]
    BY <1>CountedType, SMTT(30) DEF CountedTypeClaim, Entry
  <2>2. e.rp \in RP \cup {NULL} /\ e.refc \in Int
    BY DEF Entry
  <2>3. CASE e.refc <= 1
    BY <2>3, <1>EmptyEntry DEF EmptyEntryClaim, Left
  <2>4. CASE ~(e.refc <= 1)
    BY <2>1, <2>2, <2>4, SMTT(30) DEF Left, Entry
  <2> QED
    BY <2>3, <2>4
(* A change of an entry that is free or of the resource rp leaves the      *)
(* status of any other resource.                                           *)
<1>SetOther.
    ASSUME NEW tab \in Seq(Entry), NEW i \in 1..Len(tab), NEW e \in Entry, NEW rp \in RP,
           tab[i].rp \in {NULL, rp}, e.rp \in {NULL, rp},
           NEW tab2, IsSet(tab, i, e, tab2)
    PROVE  /\ tab2 \in Seq(Entry)
           /\ \A r \in RP \ {rp} : _contab_get(tab2, r) = _contab_get(tab, r)
  <2> USE <1>SetOther
  <2>1. tab2 \in Seq(Entry) /\ Len(tab2) = Len(tab) /\ DOMAIN tab = 1..Len(tab) /\ DOMAIN tab2 = 1..Len(tab)
        /\ tab2[i] = e /\ \A j \in 1..Len(tab) : j # i => tab2[j] = tab[j]
    BY DEF IsSet
  <2>2. ASSUME NEW r \in RP \ {rp}
        PROVE  _contab_get(tab2, r) = _contab_get(tab, r)
    <3>1. r \notin {NULL, rp}
      BY SessionAssumption
    <3>2. Entries(tab2, {r}) = Entries(tab, {r})
      BY <2>1, <3>1 DEF Entries
    <3>3. \A j \in Entries(tab, {r}) : tab2[j].count = tab[j].count
      BY <2>1, <3>1 DEF Entries
    <3> QED
      BY <2>1, <3>2, <3>3, <1>GetSame
  <2> QED
    BY <2>1, <2>2
<1>AddIs. AddIsClaim
  <2> SUFFICES
      ASSUME NEW tab \in Seq(Entry), NEW rp \in RP, NEW st
      PROVE  LET found == Entries(tab, {NULL, rp})
             IN _contab_add(tab, rp, st) =
                  IF found = {}
                  THEN tab \o [i \in 1..Grow |-> IF i = 1 THEN Used(Empty, rp, st) ELSE Empty]
                  ELSE [tab EXCEPT ![Least(found)] = Used(tab[Least(found)], rp, st)]
    BY DEF AddIsClaim
  <2>1. Entries(tab, {NULL, rp}) # {} => Least(Entries(tab, {NULL, rp})) \in 1..Len(tab)
    BY <1>EntriesIn, <1>LeastIs DEF EntriesInClaim, LeastIsClaim
  <2> QED
    BY <2>1 DEF _contab_add, Used
(* The members of a concatenation.                                         *)
<1>Joined.
    ASSUME NEW S, NEW a \in Seq(S), NEW b \in Seq(S)
    PROVE  /\ a \o b \in Seq(S) /\ Len(a \o b) = Len(a) + Len(b)
           /\ \A j \in 1..Len(a) + Len(b) : (a \o b)[j] = IF j <= Len(a) THEN a[j] ELSE b[j - Len(a)]
    BY <1>Joined
<1>AddOther. AddOtherClaim
  <2> SUFFICES
      ASSUME NEW tab \in Seq(Entry), NEW rp \in RP, NEW st
      PROVE  /\ _contab_add(tab, rp, st) \in Seq(Entry)
             /\ \A r \in RP \ {rp} : _contab_get(_contab_add(tab, rp, st), r) = _contab_get(tab, r)
    BY DEF AddOtherClaim
  <2> DEFINE found == Entries(tab, {NULL, rp})
             new == [i \in 1..Grow |-> IF i = 1 THEN Used(Empty, rp, st) ELSE Empty]
  <2>1. CASE found = {}
    <3>1. _contab_add(tab, rp, st) = tab \o new
      BY <2>1, <1>AddIs DEF AddIsClaim
    <3>2. Used(Empty, rp, st) \in Entry /\ Used(Empty, rp, st).rp = rp
      BY <1>EmptyEntry, <1>UsedType DEF EmptyEntryClaim, UsedTypeClaim
    <3>3. new \in Seq(Entry) /\ Len(new) = Grow /\ \A j \in 1..Grow : new[j].rp \in {NULL, rp}
      BY <3>2, <1>EmptyEntry, SessionAssumption, SMTT(30) DEF EmptyEntryClaim
    <3> HIDE DEF new
    <3> DEFINE tab2 == tab \o new
    <3>j. tab2 \in Seq(Entry) /\ Len(tab2) = Len(tab) + Len(new)
          /\ \A j \in 1..Len(tab) + Len(new) : tab2[j] = IF j <= Len(tab) THEN tab[j] ELSE new[j - Len(tab)]
      BY <3>3, <1>Joined, Zenon
    <3>4. tab2 \in Seq(Entry) /\ Len(tab2) = Len(tab) + Grow
          /\ \A j \in 1..Len(tab) + Grow : tab2[j] = IF j <= Len(tab) THEN tab[j] ELSE new[j - Len(tab)]
      BY <3>3, <3>j, Zenon
    <3> HIDE DEF tab2
    <3>5. \A j \in 1..Len(tab2) : j > Len(tab) => tab2[j].rp \in {NULL, rp}
      <4> SUFFICES ASSUME NEW j \in 1..Len(tab2), j > Len(tab) PROVE tab2[j].rp \in {NULL, rp}
        OBVIOUS
      <4>1. Len(tab) \in Nat /\ Grow \in Nat /\ j \in Nat
        BY SessionAssumption, SMTT(30)
      <4>2. j - Len(tab) \in 1..Grow /\ j \in 1..Len(tab) + Grow /\ ~(j <= Len(tab))
        BY <4>1, <3>4
      <4>3. tab2[j] = new[j - Len(tab)]
        BY <4>2, <3>4, Zenon
      <4> QED
        BY <4>2, <4>3, <3>3, Zenon
    <3>6. \A j \in 1..Len(tab) : j \in 1..Len(tab2) /\ tab2[j] = tab[j]
      BY <3>4, SessionAssumption, SMTT(30)
    <3>7. DOMAIN tab = 1..Len(tab) /\ DOMAIN tab2 = 1..Len(tab2) /\ Len(tab) \in Nat /\ Len(tab2) \in Nat
      BY <3>4
    <3>8. ASSUME NEW r \in RP \ {rp}
          PROVE  _contab_get(tab2, r) = _contab_get(tab, r)
      <4>1. r \notin {NULL, rp}
        BY SessionAssumption
      <4>2. Entries(tab2, {r}) = Entries(tab, {r})
        BY <3>5, <3>6, <3>7, <4>1, SMTT(30) DEF Entries
      <4>3. \A j \in Entries(tab, {r}) : tab2[j].count = tab[j].count
        BY <3>6, <3>7 DEF Entries
      <4> QED
        BY <3>4, <4>2, <4>3, <1>GetSame
    <3> QED
      BY <3>1, <3>4, <3>8 DEF tab2
  <2>2. CASE found # {}
    <3> DEFINE i == Least(found)
    <3>1. i \in found /\ found \subseteq 1..Len(tab)
      BY <2>2, <1>EntriesIn, <1>LeastIs DEF EntriesInClaim, LeastIsClaim
    <3>2. tab[i] \in Entry /\ tab[i].rp \in {NULL, rp} /\ i \in 1..Len(tab)
      BY <3>1 DEF Entries
    <3>3. _contab_add(tab, rp, st) = [tab EXCEPT ![i] = Used(tab[i], rp, st)]
      BY <2>2, <1>AddIs, SMTT(30) DEF AddIsClaim
    <3>4. Used(tab[i], rp, st) \in Entry /\ Used(tab[i], rp, st).rp \in {NULL, rp}
      BY <3>2, <1>UsedType DEF UsedTypeClaim
    <3> DEFINE e == Used(tab[i], rp, st)
               tab2 == _contab_add(tab, rp, st)
    <3>5. e \in Entry /\ e.rp \in {NULL, rp} /\ IsSet(tab, i, e, tab2)
      BY <3>3, <3>4 DEF IsSet
    <3> HIDE DEF i, found, e, tab2
    <3>6. /\ tab2 \in Seq(Entry)
          /\ \A r \in RP \ {rp} : _contab_get(tab2, r) = _contab_get(tab, r)
      BY <3>2, <3>5, <1>SetOther, SMTT(30)
    <3> QED
      BY <3>6 DEF tab2
  <2> QED
    BY <2>1, <2>2
<1>DelIs. DelIsClaim
  <2> SUFFICES
      ASSUME NEW tab \in Seq(Entry), NEW rp \in RP, NEW st, Entries(tab, {rp}) # {},
             NEW i, i = Least(Entries(tab, {rp}))
      PROVE  /\ i \in Entries(tab, {rp}) /\ i \in 1..Len(tab) /\ tab[i] \in Entry /\ tab[i].rp = rp
             /\ IsSet(tab, i, Left(tab[i], rp, st), _contab_del(tab, rp, st))
    BY DEF DelIsClaim
  <2>1. i \in Entries(tab, {rp}) /\ i \in 1..Len(tab)
    BY <1>EntriesIn, <1>LeastIs DEF EntriesInClaim, LeastIsClaim
  <2>2. tab[i] \in Entry /\ tab[i].rp = rp
    BY <2>1 DEF Entries
  <2>3. IsSet(tab, i, Left(tab[i], rp, st), _contab_del(tab, rp, st))
    BY <2>1 DEF _contab_del, Left, IsSet
  <2> QED
    BY <2>1, <2>2, <2>3
<1>DelOther. DelOtherClaim
  <2> SUFFICES
      ASSUME NEW tab \in Seq(Entry), NEW rp \in RP, NEW st, Entries(tab, {rp}) # {}
      PROVE  /\ _contab_del(tab, rp, st) \in Seq(Entry)
             /\ \A r \in RP \ {rp} : _contab_get(_contab_del(tab, rp, st), r) = _contab_get(tab, r)
    BY DEF DelOtherClaim
  <2> DEFINE i == Least(Entries(tab, {rp}))
  <2>1. /\ i \in 1..Len(tab) /\ tab[i] \in Entry /\ tab[i].rp = rp
        /\ IsSet(tab, i, Left(tab[i], rp, st), _contab_del(tab, rp, st))
    BY <1>DelIs DEF DelIsClaim
  <2>2. Left(tab[i], rp, st) \in Entry /\ Left(tab[i], rp, st).rp \in {NULL, rp}
    BY <2>1, <1>LeftType DEF LeftTypeClaim
  <2> DEFINE e == Left(tab[i], rp, st)
             tab2 == _contab_del(tab, rp, st)
  <2>3. e \in Entry /\ e.rp \in {NULL, rp} /\ IsSet(tab, i, e, tab2) /\ tab[i].rp \in {NULL, rp}
    BY <2>1, <2>2
  <2> HIDE DEF i, e, tab2
  <2>4. /\ tab2 \in Seq(Entry)
        /\ \A r \in RP \ {rp} : _contab_get(tab2, r) = _contab_get(tab, r)
    BY <2>1, <2>3, <1>SetOther, SMTT(30)
  <2> QED
    BY <2>4 DEF tab2
<1> QED
  BY <1>LeastIs, <1>EmptyEntry, <1>CountedType, <1>EntriesIn, <1>UsedType, <1>LeftType,
     <1>AddIs, <1>AddOther, <1>DelIs, <1>DelOther

-----------------------------------------------------------------------------
(* A program of one thread that uses one resource r.  Its table has one    *)
(* entry that is ever used, the first.                                     *)

Row(tab) == IF tab = <<>> THEN Empty ELSE tab[1]

OneRow(tab, r) ==
  /\ Row(tab).rp \in {r, NULL} /\ (Row(tab).rp = NULL => Row(tab) = Empty)
  /\ \A i \in 1..Len(tab) : i # 1 => tab[i].rp = NULL

RowTypeClaim ==
  \A tab \in Seq(Entry) :
    /\ Row(tab) \in Entry /\ Row(tab).refc \in Int /\ Row(tab).count \in [Bit -> Int]
    /\ tab # <<>> => 1 \in 1..Len(tab) /\ Row(tab) = tab[1]

RowGetClaim ==
  \A r \in RP, tab \in Seq(Entry) :
    /\ OneRow(tab, r)
    => _contab_get(tab, r) = {b \in Bit : Row(tab).count[b] > 0}

RowAddClaim ==
  \A r \in RP, tab \in Seq(Entry) :
  \A st :
    /\ OneRow(tab, r)
    => /\ OneRow(_contab_add(tab, r, st), r)
       /\ Row(_contab_add(tab, r, st)) = Used(Row(tab), r, st)

RowDelClaim ==
  \A r \in RP, tab \in Seq(Entry) :
  \A st :
    /\ OneRow(tab, r)
    /\ Row(tab).rp = r
    => /\ Entries(tab, {r}) # {}
       /\ OneRow(_contab_del(tab, r, st), r)
       /\ Row(_contab_del(tab, r, st)) = Left(Row(tab), r, st)

(* A table that knows one resource only is its first entry.                *)
LEMMA Rows ==
  ASSUME Counting
  PROVE  /\ RowTypeClaim /\ RowGetClaim /\ RowAddClaim /\ RowDelClaim
<1>RowType. RowTypeClaim
  <2> SUFFICES
      ASSUME NEW tab \in Seq(Entry)
      PROVE  /\ Row(tab) \in Entry /\ Row(tab).refc \in Int /\ Row(tab).count \in [Bit -> Int]
             /\ tab # <<>> => 1 \in 1..Len(tab) /\ Row(tab) = tab[1]
    BY DEF RowTypeClaim
  <2>1. Row(tab) \in Entry /\ (tab # <<>> => 1 \in 1..Len(tab) /\ Row(tab) = tab[1])
    BY Tables DEF EmptyEntryClaim, Row
  <2> QED
    BY <2>1 DEF Entry
<1>LeastOne.
    ASSUME NEW S \in SUBSET Nat, 1 \in S, 0 \notin S
    PROVE  Least(S) = 1
  <2> USE <1>LeastOne
  <2> DEFINE i == Least(S)
  <2>1. i \in S /\ \A j \in S : i <= j
    BY DEF Counting, LeastNatural, Least
  <2> HIDE DEF i
  <2>2. i \in Nat /\ i <= 1 /\ i # 0
    BY <2>1
  <2> QED
    BY <2>2 DEF i
<1>RowGet. RowGetClaim
  <2> SUFFICES
      ASSUME NEW r \in RP, NEW tab \in Seq(Entry), OneRow(tab, r)
      PROVE  _contab_get(tab, r) = {b \in Bit : Row(tab).count[b] > 0}
    BY DEF RowGetClaim
  <2>0. r # NULL
    BY SessionAssumption
  <2>1. CASE Row(tab).rp = r
    <3>1. tab # <<>>
      BY <2>0, <2>1, Tables DEF EmptyEntryClaim, Row
    <3>2. 1 \in Entries(tab, {r}) /\ Row(tab) = tab[1]
      BY <2>1, <3>1, <1>RowType, SMTT(30) DEF RowTypeClaim, Entries
    <3>3. Least(Entries(tab, {r})) = 1
      BY <3>2, Tables, <1>LeastOne DEF EntriesInClaim
    <3> QED
      BY <3>2, <3>3 DEF _contab_get
  <2>2. CASE Row(tab).rp = NULL
    <3>1. Entries(tab, {r}) = {}
      BY <2>0, <2>2, <1>RowType, SMTT(30) DEF RowTypeClaim, OneRow, Entries
    <3>2. \A b \in Bit : Row(tab).count[b] = 0
      BY <2>2, Tables DEF EmptyEntryClaim, OneRow
    <3> QED
      BY <3>1, <3>2 DEF _contab_get
  <2> QED
    BY <2>1, <2>2 DEF OneRow
<1>RowSet.
    ASSUME NEW r \in RP, NEW tab \in Seq(Entry), OneRow(tab, r), tab # <<>>,
           NEW e \in Entry, e.rp \in {r, NULL}, e.rp = NULL => e = Empty,
           NEW tab2, IsSet(tab, 1, e, tab2)
    PROVE  OneRow(tab2, r) /\ Row(tab2) = e
  <2> USE <1>RowSet
  <2>1. 1 \in 1..Len(tab)
    BY <1>RowType DEF RowTypeClaim
  <2>2. tab2 \in Seq(Entry) /\ Len(tab2) = Len(tab) /\ tab2[1] = e /\ \A j \in 1..Len(tab) : j # 1 => tab2[j] = tab[j]
    BY <2>1 DEF IsSet
  <2>3. tab2 # <<>>
    BY <2>1, <2>2
  <2>4. Row(tab2) = e
    BY <2>2, <2>3 DEF Row
  <2> QED
    BY <2>2, <2>4 DEF OneRow
<1>RowAdd. RowAddClaim
  <2> SUFFICES
      ASSUME NEW r \in RP, NEW tab \in Seq(Entry), OneRow(tab, r), NEW st
      PROVE  /\ OneRow(_contab_add(tab, r, st), r)
             /\ Row(_contab_add(tab, r, st)) = Used(Row(tab), r, st)
    BY DEF RowAddClaim
  <2> DEFINE found == Entries(tab, {NULL, r})
             new == [i \in 1..Grow |-> IF i = 1 THEN Used(Empty, r, st) ELSE Empty]
             tab2 == _contab_add(tab, r, st)
  <2>1. Used(Row(tab), r, st) \in Entry /\ Used(Row(tab), r, st).rp = r /\ r # NULL
    BY <1>RowType, Tables, SessionAssumption DEF RowTypeClaim, UsedTypeClaim
  <2>2. CASE tab = <<>>
    <3>1. found = {}
      BY <2>2 DEF Entries
    <3>2. tab2 = tab \o new
      BY <3>1, Tables DEF AddIsClaim
    <3>3. Row(tab) = Empty
      BY <2>2 DEF Row
    <3>4. new \in Seq(Entry) /\ new[1] = Used(Empty, r, st) /\ Len(new) = Grow
          /\ \A i \in 1..Grow : i # 1 => new[i] = Empty
      BY <2>1, <3>3, Tables, SessionAssumption, SMTT(30) DEF EmptyEntryClaim
    <3> HIDE DEF new
    <3>5. tab2 = new
      BY <2>2, <3>2, <3>4
    <3>6. new # <<>>
      BY <3>4, SessionAssumption
    <3>7. Row(new) = Used(Empty, r, st)
      BY <3>4, <3>6 DEF Row
    <3>8. OneRow(new, r)
      BY <2>1, <3>3, <3>4, <3>7, Tables DEF EmptyEntryClaim, OneRow
    <3> QED
      BY <3>3, <3>5, <3>7, <3>8
  <2>3. CASE tab # <<>>
    <3>1. 1 \in found
      BY <2>3, <1>RowType, SMTT(30) DEF RowTypeClaim, Entries, OneRow
    <3>2. Least(found) = 1
      BY <3>1, Tables, <1>LeastOne DEF EntriesInClaim
    <3>3. tab2 = [tab EXCEPT ![1] = Used(tab[1], r, st)]
      BY <3>1, <3>2, Tables, SMTT(30) DEF AddIsClaim
    <3>4. IsSet(tab, 1, Used(Row(tab), r, st), tab2)
      BY <2>3, <3>3, <1>RowType DEF RowTypeClaim, IsSet
    <3> HIDE DEF tab2
    <3>5. OneRow(tab2, r) /\ Row(tab2) = Used(Row(tab), r, st)
      BY <2>1, <2>3, <3>4, <1>RowSet
    <3> QED
      BY <3>5 DEF tab2
  <2> QED
    BY <2>2, <2>3
<1>LeftEmpty.
    ASSUME NEW e \in Entry, NEW r \in RP, NEW st, Left(e, r, st).rp = NULL
    PROVE  Left(e, r, st) = Empty
  <2> USE <1>LeftEmpty
  <2>1. r # NULL
    BY SessionAssumption
  <2> QED
    BY <2>1 DEF Left
<1>RowDel. RowDelClaim
  <2> SUFFICES
      ASSUME NEW r \in RP, NEW tab \in Seq(Entry), OneRow(tab, r), Row(tab).rp = r, NEW st
      PROVE  /\ Entries(tab, {r}) # {}
             /\ OneRow(_contab_del(tab, r, st), r)
             /\ Row(_contab_del(tab, r, st)) = Left(Row(tab), r, st)
    BY DEF RowDelClaim
  <2> DEFINE e == Left(Row(tab), r, st)
             tab2 == _contab_del(tab, r, st)
  <2>1. tab # <<>>
    BY Tables, SessionAssumption DEF EmptyEntryClaim, Row
  <2>2. 1 \in Entries(tab, {r}) /\ Row(tab) = tab[1] /\ Row(tab) \in Entry
    BY <2>1, <1>RowType, SMTT(30) DEF RowTypeClaim, Entries
  <2>3. Least(Entries(tab, {r})) = 1
    BY <2>2, Tables, <1>LeastOne DEF EntriesInClaim
  <2>4. IsSet(tab, 1, e, tab2)
    BY <2>2, <2>3, Tables DEF DelIsClaim
  <2>5. e \in Entry /\ e.rp \in {r, NULL} /\ (e.rp = NULL => e = Empty)
    BY <2>2, Tables, <1>LeftEmpty DEF LeftTypeClaim
  <2> HIDE DEF e, tab2
  <2>6. OneRow(tab2, r) /\ Row(tab2) = e
    BY <2>1, <2>4, <2>5, <1>RowSet, SMTT(30)
  <2> QED
    BY <2>2, <2>6 DEF e, tab2
<1> QED
  BY <1>RowType, <1>RowGet, <1>RowAdd, <1>RowDel

-----------------------------------------------------------------------------
(* The entry covers a demand: it has the references, and counts each bit   *)
(* as often as it is asked for.  It may count more, for ropen() counts a   *)
(* bit that a descriptor keeps twice and takes it back once.               *)

Covers(e, D) == e.refc >= D["open"] /\ \A b \in Bit : e.count[b] >= D[b]
Ok(e, A) == \A b \in Bit : e.count[b] > 0 => b \in A \cup {"open"}
Is(b, st) == IF b \in st THEN 1 ELSE 0

(* What the demand loses by a change that takes st from it.                *)
Taken(D, st, D2) == \A b \in Bit : D2[b] <= D[b] - Is(b, st) /\ D2[b] <= D2["open"]

CoverAddClaim ==
  \A e \in Entry, r \in RP :
  \A st :
  \A D \in [Bit -> Int] :
    /\ "open" \in st
    /\ Covers(e, D)
    => Covers(Used(e, r, st), Counted(D, st, 1))

CoverDelClaim ==
  \A e \in Entry, r \in RP :
  \A st :
  \A D, D2 \in [Bit -> Int] :
    /\ "open" \in st
    /\ Covers(e, D)
    /\ Taken(D, st, D2)
    => Covers(Left(e, r, st), D2)

(* No more than the access allows is counted: after a deletion, after an   *)
(* addition of what the access allows, and after an addition is undone.    *)
OkDelClaim ==
  \A e \in Entry, r \in RP :
  \A st, A :
    /\ Ok(e, A)
    => Ok(Left(e, r, st), A)

OkAddClaim ==
  \A e \in Entry, r \in RP :
  \A st, A :
    /\ Ok(e, A)
    /\ st \ {"open"} \subseteq A
    => Ok(Used(e, r, st), A)

OkUndoneClaim ==
  \A e \in Entry, r \in RP :
  \A st, A :
    /\ Ok(e, A)
    => Ok(Left(Used(e, r, st), r, st), A)

CoversLessClaim ==
  \A e \in Entry, D, D2 \in [Bit -> Int] :
    /\ Covers(e, D)
    /\ \A b \in Bit : D2[b] <= D[b]
    => Covers(e, D2)

(* What an entry covers after it was taken and left.                       *)
LEMMA Covering ==
  ASSUME Counting
  PROVE  /\ CoverAddClaim /\ CoverDelClaim /\ OkDelClaim /\ OkAddClaim
         /\ OkUndoneClaim /\ CoversLessClaim
<1>UsedIs.
    ASSUME NEW e \in Entry, NEW r \in RP, NEW st
    PROVE  /\ Used(e, r, st).rp = r /\ Used(e, r, st).refc = e.refc + 1
           /\ \A b \in Bit : Used(e, r, st).count[b] = e.count[b] + Is(b, st)
  <2> USE <1>UsedIs
  <2>1. e.count \in [Bit -> Int] /\ e.refc \in Int
    BY DEF Entry
  <2>2. \A b \in Bit : Counted(e.count, st, 1)[b] = e.count[b] + Is(b, st)
    BY <2>1, Tables, SMTT(30) DEF CountedTypeClaim, Is
  <2> QED
    BY <2>2 DEF Used
<1>LeftIs.
    ASSUME NEW e \in Entry, NEW r \in RP, NEW st
    PROVE  /\ e.refc <= 1 => Left(e, r, st) = Empty
           /\ ~(e.refc <= 1) => /\ Left(e, r, st).refc = e.refc - 1
                                /\ \A b \in Bit : Left(e, r, st).count[b] = e.count[b] - Is(b, st)
  <2> USE <1>LeftIs
  <2>1. e.count \in [Bit -> Int] /\ e.refc \in Int
    BY DEF Entry
  <2>2. -1 \in Int
    OBVIOUS
  <2>3. \A b \in Bit : Counted(e.count, st, -1)[b] = e.count[b] - Is(b, st)
    BY <2>1, <2>2, Tables, SMTT(30) DEF CountedTypeClaim, Is
  <2> QED
    BY <2>3 DEF Left
<1>EntryParts.
    ASSUME NEW e \in Entry
    PROVE  e.refc \in Int /\ \A b \in Bit : e.count[b] \in Int
    BY <1>EntryParts DEF Entry
<1>CoverAdd. CoverAddClaim
  <2> SUFFICES
      ASSUME NEW e \in Entry, NEW r \in RP, NEW st, "open" \in st, NEW D \in [Bit -> Int], Covers(e, D)
      PROVE  Covers(Used(e, r, st), Counted(D, st, 1))
    BY DEF CoverAddClaim
  <2> DEFINE u == Used(e, r, st)
             D2 == Counted(D, st, 1)
  <2>1. "open" \in Bit
    BY DEF Bit
  <2>2. e.refc \in Int /\ \A b \in Bit : e.count[b] \in Int
    BY <1>EntryParts
  <2>3. u.refc = e.refc + 1 /\ \A b \in Bit : u.count[b] = e.count[b] + Is(b, st)
    BY <1>UsedIs, SMTT(30)
  <2>4. \A b \in Bit : D2[b] = D[b] + Is(b, st) /\ D[b] \in Int /\ Is(b, st) \in Int
    BY Tables, SMTT(30) DEF CountedTypeClaim, Is
  <2>5. Is("open", st) = 1
    BY DEF Is
  <2> HIDE DEF u, D2
  <2>6. Covers(u, D2)
    BY <2>1, <2>2, <2>3, <2>4, <2>5 DEF Covers
  <2> QED
    BY <2>6 DEF u, D2
<1>CoverDel. CoverDelClaim
  <2> SUFFICES
      ASSUME NEW e \in Entry, NEW r \in RP, NEW st, "open" \in st, NEW D \in [Bit -> Int], NEW D2 \in [Bit -> Int],
             Covers(e, D), Taken(D, st, D2)
      PROVE  Covers(Left(e, r, st), D2)
    BY DEF CoverDelClaim
  <2> DEFINE u == Left(e, r, st)
  <2>1. "open" \in Bit /\ Is("open", st) = 1 /\ \A b \in Bit : Is(b, st) \in Int /\ D[b] \in Int /\ D2[b] \in Int
    BY DEF Bit, Is
  <2>2. e.refc \in Int /\ \A b \in Bit : e.count[b] \in Int
    BY <1>EntryParts
  <2>3. \A b \in Bit : D2[b] <= D[b] - Is(b, st) /\ D2[b] <= D2["open"]
    BY DEF Taken
  <2>4. e.refc >= D["open"] /\ \A b \in Bit : e.count[b] >= D[b]
    BY DEF Covers
  <2>5. CASE e.refc <= 1
    <3>1. u.refc = 0 /\ \A b \in Bit : u.count[b] = 0
      BY <2>5, <1>LeftIs, Tables DEF EmptyEntryClaim
    <3>2. D2["open"] <= 0
      BY <2>1, <2>2, <2>3, <2>4, <2>5
    <3>3. \A b \in Bit : D2[b] <= 0
      BY <2>1, <2>3, <3>2
    <3> HIDE DEF u
    <3>4. Covers(u, D2)
      BY <2>1, <3>1, <3>2, <3>3 DEF Covers
    <3> QED
      BY <3>4 DEF u
  <2>6. CASE ~(e.refc <= 1)
    <3>1. u.refc = e.refc - 1 /\ \A b \in Bit : u.count[b] = e.count[b] - Is(b, st)
      BY <2>6, <1>LeftIs
    <3> HIDE DEF u
    <3>2. Covers(u, D2)
      BY <2>1, <2>2, <2>3, <2>4, <3>1 DEF Covers
    <3> QED
      BY <3>2 DEF u
  <2> QED
    BY <2>5, <2>6
<1>OkDel. OkDelClaim
  <2> SUFFICES
      ASSUME NEW e \in Entry, NEW r \in RP, NEW st, NEW A, Ok(e, A)
      PROVE  Ok(Left(e, r, st), A)
    BY DEF OkDelClaim
  <2>1. \A b \in Bit : e.count[b] \in Int /\ Is(b, st) \in 0..1
    BY <1>EntryParts DEF Is
  <2>2. \A b \in Bit : Left(e, r, st).count[b] = 0 \/ Left(e, r, st).count[b] = e.count[b] - Is(b, st)
    BY <1>LeftIs, Tables DEF EmptyEntryClaim
  <2> QED
    BY <2>1, <2>2 DEF Ok
<1>OkAdd. OkAddClaim
  <2> SUFFICES
      ASSUME NEW e \in Entry, NEW r \in RP, NEW st, NEW A, Ok(e, A), st \ {"open"} \subseteq A
      PROVE  Ok(Used(e, r, st), A)
    BY DEF OkAddClaim
  <2>1. \A b \in Bit : e.count[b] \in Int /\ (b \notin st => Is(b, st) = 0)
    BY <1>EntryParts DEF Is
  <2>2. \A b \in Bit : Used(e, r, st).count[b] = e.count[b] + Is(b, st)
    BY <1>UsedIs
  <2>3. \A b \in Bit : b \notin st => Used(e, r, st).count[b] = e.count[b]
    BY <2>1, <2>2
  <2> QED
    BY <2>3 DEF Ok
<1>OkUndone. OkUndoneClaim
  <2> SUFFICES
      ASSUME NEW e \in Entry, NEW r \in RP, NEW st, NEW A, Ok(e, A)
      PROVE  Ok(Left(Used(e, r, st), r, st), A)
    BY DEF OkUndoneClaim
  <2> DEFINE u == Used(e, r, st)
  <2>1. u \in Entry /\ \A b \in Bit : u.count[b] = e.count[b] + Is(b, st)
    BY Tables, <1>UsedIs, SMTT(30) DEF UsedTypeClaim
  <2>2. \A b \in Bit : e.count[b] \in Int /\ Is(b, st) \in Int
    BY <1>EntryParts DEF Is
  <2> HIDE DEF u
  <2>3. \A b \in Bit : Left(u, r, st).count[b] = 0 \/ Left(u, r, st).count[b] = u.count[b] - Is(b, st)
    BY <2>1, <1>LeftIs, Tables DEF EmptyEntryClaim
  <2>4. \A b \in Bit : Left(u, r, st).count[b] = 0 \/ Left(u, r, st).count[b] = e.count[b]
    BY <2>1, <2>2, <2>3
  <2>5. Ok(Left(u, r, st), A)
    BY <2>4 DEF Ok
  <2> QED
    BY <2>5 DEF u
<1>CoversLess. CoversLessClaim
  <2> SUFFICES
      ASSUME NEW e \in Entry, NEW D \in [Bit -> Int], NEW D2 \in [Bit -> Int],
             Covers(e, D), \A b \in Bit : D2[b] <= D[b]
      PROVE  Covers(e, D2)
    BY DEF CoversLessClaim
  <2>1. "open" \in Bit /\ e.refc \in Int /\ \A b \in Bit : e.count[b] \in Int
    BY <1>EntryParts DEF Bit
  <2> QED
    BY <2>1 DEF Covers
<1> QED
  BY <1>CoverAdd, <1>CoverDel, <1>OkDel, <1>OkAdd, <1>OkUndone, <1>CoversLess

-----------------------------------------------------------------------------
(* What the descriptors demand: a reference each, and the bits of their    *)
(* modes.                                                                  *)

Descriptor == [rp : RP \cup {NULL}, mode : SUBSET Bit]
TabType(f) == \E n \in Nat : f \in [0..n - 1 -> Descriptor]

Uses(f, b) == {fd \in DOMAIN f : b \in f[fd].mode}
All(f) == [b \in Bit |-> Cardinality(Uses(f, b))]
ModeOf(f, fd) == IF fd \in DOMAIN f THEN f[fd].mode ELSE {}

Files(f, r) ==
  \A fd \in DOMAIN f : /\ f[fd].rp \in {r, NULL} /\ fd < MaxFd
                       /\ f[fd].mode = {} \/ ("open" \in f[fd].mode /\ f[fd].rp = r)

(* The demand while the mode of fd becomes mode: with the new connection   *)
(* added to the old one, and after the old one is removed.                 *)
Both(f, mode) == Counted(All(f), mode, 1)
After(f, fd, mode) == Counted(Counted(All(f), ModeOf(f, fd), -1), mode, 1)

(* fd_set() makes the demand what it was to become.                        *)
Put(f, fd, rp, mode, f2) ==
  LET n == Cardinality(DOMAIN f)
  IN f2 = [i \in 0..IF fd < n THEN n - 1 ELSE fd |->
             IF i = fd THEN [rp |-> rp, mode |-> mode]
             ELSE IF i < n THEN f[i] ELSE [rp |-> NULL, mode |-> {}]]

(* One descriptor is set, and those up to it that are new are empty.       *)
PutOne(f, fd, rp, mode, f2) ==
  /\ fd \in DOMAIN f2 /\ f2[fd].rp = rp /\ f2[fd].mode = mode
  /\ \A i \in DOMAIN f2 : i # fd => \/ i \in DOMAIN f /\ f2[i] = f[i]
                                    \/ i < fd /\ f2[i].rp = NULL /\ f2[i].mode = {}
PutSets(f, fd, mode, f2) ==
  \A b \in Bit : Uses(f2, b) = IF b \in mode THEN Uses(f, b) \cup {fd} ELSE Uses(f, b) \ {fd}

AllTypeClaim ==
  \A f :
    /\ TabType(f)
    => All(f) \in [Bit -> Int] /\ \A b \in Bit : All(f)[b] = Cardinality(Uses(f, b)) /\ All(f)[b] \in Nat

InUseCountsClaim ==
  \A f :
  \A b \in Bit :
  \A fd :
    /\ TabType(f)
    /\ b \in ModeOf(f, fd)
    => All(f)[b] >= 1

BothTypeClaim ==
  \A f, mode :
    /\ TabType(f)
    => /\ Both(f, mode) \in [Bit -> Int]
       /\ \A b \in Bit : Both(f, mode)[b] = All(f)[b] + Is(b, mode) /\ All(f)[b] \in Nat

AfterTypeClaim ==
  \A f, fd, mode :
    /\ TabType(f)
    => /\ After(f, fd, mode) \in [Bit -> Int]
       /\ \A b \in Bit : /\ After(f, fd, mode)[b] = All(f)[b] - Is(b, ModeOf(f, fd)) + Is(b, mode)
                         /\ All(f)[b] \in Nat

(* The second change of ropen(), and the one of close(), takes what the    *)
(* old mode has and the new one has not.                                   *)
TakesOldClaim ==
  \A r, f, fd, mode :
    /\ TabType(f)
    /\ Files(f, r)
    /\ ModeOf(f, fd) # {}
    /\ mode = {} \/ "open" \in mode
    => Taken(Both(f, mode), (ModeOf(f, fd) \ mode) \cup {"open"}, After(f, fd, mode))

TakesNewClaim ==
  \A r, f, mode :
    /\ TabType(f)
    /\ Files(f, r)
    => Taken(Both(f, mode), mode, All(f))

NoneOldClaim ==
  \A f, fd, mode :
    /\ TabType(f)
    /\ ModeOf(f, fd) = {}
    => After(f, fd, mode) = Both(f, mode)

PutCountClaim ==
  \A r, f :
  \A fd \in Nat, mode \in SUBSET Bit :
  \A f2 :
    /\ TabType(f)
    /\ TabType(f2)
    /\ Put(f, fd, r, mode, f2)
    => All(f2) = After(f, fd, mode)

PutFilesClaim ==
  \A r \in RP :
  \A f :
  \A fd \in Nat, mode \in SUBSET Bit :
  \A f2 :
    /\ TabType(f)
    /\ Files(f, r)
    /\ fd < MaxFd
    /\ mode = {} \/ "open" \in mode
    /\ TabType(f2)
    /\ Put(f, fd, r, mode, f2)
    => Files(f2, r)

(* A descriptor that is not in use is cleared: the demand stays.           *)
PutNoneClaim ==
  \A r \in RP :
  \A f :
  \A fd \in Nat :
  \A f2 :
    /\ TabType(f)
    /\ Files(f, r)
    /\ ModeOf(f, fd) = {}
    /\ fd < MaxFd
    /\ TabType(f2)
    /\ Put(f, fd, NULL, {}, f2)
    => Files(f2, r) /\ All(f2) = All(f)

(* How many descriptors use a resource, before and after a change.         *)
LEMMA Counts ==
  ASSUME Counting
  PROVE  /\ AllTypeClaim /\ InUseCountsClaim /\ BothTypeClaim /\ AfterTypeClaim
         /\ TakesOldClaim /\ TakesNewClaim /\ NoneOldClaim /\ PutCountClaim
         /\ PutFilesClaim /\ PutNoneClaim
<1>UsesFinite.
    ASSUME NEW f, TabType(f), NEW b
    PROVE  IsFiniteSet(Uses(f, b)) /\ Cardinality(Uses(f, b)) \in Nat /\ Uses(f, b) \subseteq DOMAIN f
  <2> USE <1>UsesFinite
  <2>1. PICK n \in Nat : f \in [0..n - 1 -> Descriptor]
    BY DEF TabType
  <2>2. IsFiniteSet(DOMAIN f)
    BY <2>1, SMTT(30) DEF Counting, IntervalSize
  <2>3. Uses(f, b) \subseteq DOMAIN f
    BY DEF Uses
  <2> QED
    BY <2>2, <2>3 DEF Counting, SubsetFinite, SizeNatural
<1>AllType. AllTypeClaim
    BY <1>UsesFinite DEF AllTypeClaim, All
(* Every descriptor in use has "open", so no bit is in more of them; and a *)
(* bit that one of them has not is in fewer.                               *)
<1>OpenMost.
    ASSUME NEW r, NEW f, TabType(f), Files(f, r), NEW b \in Bit
    PROVE  All(f)[b] <= All(f)["open"]
  <2> USE <1>OpenMost
  <2>1. "open" \in Bit
    BY DEF Bit
  <2>2. Uses(f, b) \subseteq Uses(f, "open")
    BY DEF Uses, Files
  <2> QED
    BY <2>1, <2>2, <1>UsesFinite, <1>AllType DEF Counting, SubsetFinite, AllTypeClaim
<1>OpenMore.
    ASSUME NEW r, NEW f, TabType(f), Files(f, r), NEW b \in Bit, NEW fd,
           "open" \in ModeOf(f, fd), b \notin ModeOf(f, fd)
    PROVE  All(f)[b] <= All(f)["open"] - 1
  <2> USE <1>OpenMore
  <2>1. "open" \in Bit
    BY DEF Bit
  <2>2. fd \in Uses(f, "open") /\ fd \notin Uses(f, b)
    BY DEF Uses, ModeOf
  <2>3. Uses(f, b) \subseteq Uses(f, "open") \ {fd}
    BY <2>2 DEF Uses, Files
  <2> DEFINE rest == Uses(f, "open") \ {fd}
  <2>4. IsFiniteSet(rest) /\ Cardinality(rest) = Cardinality(Uses(f, "open")) - 1
    BY <2>2, <1>UsesFinite DEF Counting, OneLess
  <2> HIDE DEF rest
  <2>5. Cardinality(Uses(f, b)) <= Cardinality(rest)
    BY <2>3, <2>4 DEF Counting, SubsetFinite, rest
  <2> QED
    BY <2>1, <2>4, <2>5, <1>AllType DEF AllTypeClaim
<1>InUseCounts. InUseCountsClaim
  <2> SUFFICES
      ASSUME NEW f, TabType(f), NEW b \in Bit, NEW fd, b \in ModeOf(f, fd)
      PROVE  All(f)[b] >= 1
    BY DEF InUseCountsClaim
  <2>1. Uses(f, b) # {}
    BY DEF Uses, ModeOf
  <2>2. Cardinality(Uses(f, b)) # 0
    BY <2>1, <1>UsesFinite DEF Counting, EmptySize
  <2> QED
    BY <2>2, <1>AllType DEF AllTypeClaim
<1>BothType. BothTypeClaim
  <2> SUFFICES
      ASSUME NEW f, TabType(f), NEW mode
      PROVE  /\ Both(f, mode) \in [Bit -> Int]
             /\ \A b \in Bit : Both(f, mode)[b] = All(f)[b] + Is(b, mode) /\ All(f)[b] \in Nat
    BY DEF BothTypeClaim
  <2> DEFINE D == All(f)
  <2>1. D \in [Bit -> Int] /\ (\A b \in Bit : D[b] \in Nat) /\ 1 \in Int
    BY <1>AllType DEF AllTypeClaim
  <2>2. Both(f, mode) = Counted(D, mode, 1)
    BY DEF Both
  <2> HIDE DEF D
  <2>3. /\ Counted(D, mode, 1) \in [Bit -> Int]
        /\ \A b \in Bit : Counted(D, mode, 1)[b] = IF b \in mode THEN D[b] + 1 ELSE D[b]
    BY <2>1, Tables, SMTT(30) DEF CountedTypeClaim
  <2>4. \A b \in Bit : Counted(D, mode, 1)[b] = D[b] + Is(b, mode)
    BY <2>1, <2>3, SMTT(30) DEF Is
  <2> QED
    BY <2>1, <2>2, <2>3, <2>4 DEF D
<1>AfterType. AfterTypeClaim
  <2> SUFFICES
      ASSUME NEW f, TabType(f), NEW fd, NEW mode
      PROVE  /\ After(f, fd, mode) \in [Bit -> Int]
             /\ \A b \in Bit : /\ After(f, fd, mode)[b] = All(f)[b] - Is(b, ModeOf(f, fd)) + Is(b, mode)
                               /\ All(f)[b] \in Nat
    BY SMTT(30) DEF AfterTypeClaim
  <2> DEFINE D == All(f)
             m == ModeOf(f, fd)
             D1 == Counted(D, m, -1)
  <2>1. D \in [Bit -> Int] /\ (\A b \in Bit : D[b] \in Nat) /\ 1 \in Int /\ -1 \in Int
    BY <1>AllType DEF AllTypeClaim
  <2>2. After(f, fd, mode) = Counted(D1, mode, 1)
    BY DEF After
  <2> HIDE DEF D, m
  <2>3. D1 \in [Bit -> Int] /\ \A b \in Bit : D1[b] = IF b \in m THEN D[b] + -1 ELSE D[b]
    BY <2>1, Tables, SMTT(30) DEF CountedTypeClaim
  <2> HIDE DEF D1
  <2>4. /\ Counted(D1, mode, 1) \in [Bit -> Int]
        /\ \A b \in Bit : Counted(D1, mode, 1)[b] = IF b \in mode THEN D1[b] + 1 ELSE D1[b]
    BY <2>1, <2>3, Tables, SMTT(30) DEF CountedTypeClaim
  <2>5. \A b \in Bit : Counted(D1, mode, 1)[b] = D[b] - Is(b, m) + Is(b, mode)
    BY <2>1, <2>3, <2>4, SMTT(30) DEF Is
  <2> QED
    BY <2>1, <2>2, <2>4, <2>5 DEF D, m
<1>TakesOld. TakesOldClaim
  <2> SUFFICES
      ASSUME NEW r, NEW f, TabType(f), Files(f, r), NEW fd, NEW mode,
             ModeOf(f, fd) # {}, mode = {} \/ "open" \in mode
      PROVE  Taken(Both(f, mode), (ModeOf(f, fd) \ mode) \cup {"open"}, After(f, fd, mode))
    BY DEF TakesOldClaim
  <2> DEFINE D == All(f)
             m == ModeOf(f, fd)
             st == (m \ mode) \cup {"open"}
             D1 == Both(f, mode)
             D2 == After(f, fd, mode)
  <2>1. "open" \in m /\ "open" \in Bit
    BY DEF ModeOf, Files, Bit
  <2>2. \A b \in Bit : /\ D1[b] = D[b] + Is(b, mode) /\ D2[b] = D[b] - Is(b, m) + Is(b, mode) /\ D[b] \in Nat
    BY <1>BothType, <1>AfterType, SMTT(30) DEF BothTypeClaim, AfterTypeClaim
  <2>3. \A b \in Bit : D[b] <= D["open"] /\ (b \notin m => D[b] <= D["open"] - 1)
    BY <2>1, <1>OpenMost, <1>OpenMore
  <2> HIDE DEF D, D1, D2, m
  <2>4. \A b \in Bit : D2[b] <= D1[b] - Is(b, st)
    BY <2>1, <2>2, SMTT(30) DEF Is
  <2>5. \A b \in Bit : D2[b] <= D2["open"]
    BY <2>1, <2>2, <2>3 DEF Is
  <2> HIDE DEF st
  <2>6. Taken(D1, st, D2)
    BY <2>4, <2>5 DEF Taken
  <2> QED
    BY <2>6 DEF st, D1, D2, m
<1>TakesNew. TakesNewClaim
  <2> SUFFICES
      ASSUME NEW r, NEW f, TabType(f), Files(f, r), NEW mode
      PROVE  Taken(Both(f, mode), mode, All(f))
    BY DEF TakesNewClaim
  <2>1. \A b \in Bit : Both(f, mode)[b] = All(f)[b] + Is(b, mode) /\ All(f)[b] \in Nat
    BY <1>BothType DEF BothTypeClaim
  <2>2. \A b \in Bit : Is(b, mode) \in Int
    BY DEF Is
  <2>3. \A b \in Bit : All(f)[b] <= All(f)["open"]
    BY <1>OpenMost
  <2> QED
    BY <2>1, <2>2, <2>3 DEF Taken
<1>NoneOld. NoneOldClaim
  <2> SUFFICES
      ASSUME NEW f, TabType(f), NEW fd, NEW mode, ModeOf(f, fd) = {}
      PROVE  After(f, fd, mode) = Both(f, mode)
    BY DEF NoneOldClaim
  <2> DEFINE D1 == Both(f, mode)
             D2 == After(f, fd, mode)
             m == ModeOf(f, fd)
  <2>1. \A b \in Bit : Is(b, m) = 0 /\ Is(b, mode) \in Int
    BY DEF Is
  <2>2. D1 \in [Bit -> Int] /\ \A b \in Bit : D1[b] = All(f)[b] + Is(b, mode) /\ All(f)[b] \in Nat
    BY <1>BothType DEF BothTypeClaim
  <2>3. D2 \in [Bit -> Int] /\ \A b \in Bit : D2[b] = All(f)[b] - Is(b, m) + Is(b, mode)
    BY <1>AfterType, SMTT(30) DEF AfterTypeClaim
  <2> HIDE DEF D1, D2, m
  <2>4. \A b \in Bit : D1[b] = D2[b]
    BY <2>1, <2>2, <2>3
  <2>5. D1 = D2
    BY <2>2, <2>3, <2>4
  <2> QED
    BY <2>5 DEF D1, D2
<1>PutUses.
    ASSUME NEW r, NEW f, TabType(f), NEW fd \in Nat, NEW mode, NEW f2, Put(f, fd, r, mode, f2)
    PROVE  PutOne(f, fd, r, mode, f2) /\ PutSets(f, fd, mode, f2)
  <2> USE <1>PutUses
  <2>1. PICK n \in Nat : f \in [0..n - 1 -> Descriptor]
    BY DEF TabType
  <2>2. Cardinality(DOMAIN f) = n /\ DOMAIN f = 0..n - 1
    BY <2>1 DEF Counting, IntervalSize
  <2> DEFINE z == [rp |-> NULL, mode |-> {}]
             d == [rp |-> r, mode |-> mode]
  <2>3. f2 = [i \in 0..IF fd < n THEN n - 1 ELSE fd |-> IF i = fd THEN d ELSE IF i < n THEN f[i] ELSE z]
    BY <2>2 DEF Put
  <2>4. z.rp = NULL /\ z.mode = {} /\ d.rp = r /\ d.mode = mode
    OBVIOUS
  <2> HIDE DEF z, d
  <2>5. fd \in DOMAIN f2 /\ f2[fd] = d
    BY <2>3
  <2>6. \A i \in DOMAIN f2 : i # fd => (i \in DOMAIN f /\ f2[i] = f[i]) \/ (i < fd /\ i \notin DOMAIN f /\ f2[i] = z)
    BY <2>2, <2>3
  <2>7. \A i \in DOMAIN f : i \in DOMAIN f2
    BY <2>2, <2>3
  <2>8. ASSUME NEW b \in Bit
        PROVE  Uses(f2, b) = IF b \in mode THEN Uses(f, b) \cup {fd} ELSE Uses(f, b) \ {fd}
    BY <2>4, <2>5, <2>6, <2>7 DEF Uses
  <2>9. PutOne(f, fd, r, mode, f2)
    BY <2>4, <2>5, <2>6 DEF PutOne
  <2> QED
    BY <2>8, <2>9 DEF PutSets
<1>PutCount. PutCountClaim
  <2> SUFFICES
      ASSUME NEW r, NEW f, TabType(f), NEW fd \in Nat, NEW mode \in SUBSET Bit,
             NEW f2, TabType(f2), Put(f, fd, r, mode, f2)
      PROVE  All(f2) = After(f, fd, mode)
    BY DEF PutCountClaim
  <2> DEFINE m == ModeOf(f, fd)
  <2>0. PutSets(f, fd, mode, f2)
    BY <1>PutUses
  <2>1. ASSUME NEW b \in Bit
        PROVE  All(f2)[b] = All(f)[b] - Is(b, m) + Is(b, mode)
    <3> DEFINE U == Uses(f, b)
               V == U \cup {fd}
               W == U \ {fd}
    <3>1. Uses(f2, b) = IF b \in mode THEN V ELSE W
      BY <2>0 DEF PutSets
    <3>2. IsFiniteSet(U) /\ Cardinality(U) \in Nat
      BY <1>UsesFinite
    <3>3. fd \in U <=> b \in m
      BY DEF Uses, ModeOf
    <3>4. All(f2)[b] = Cardinality(Uses(f2, b)) /\ All(f)[b] = Cardinality(U)
      BY <1>AllType DEF AllTypeClaim
    <3>5. /\ (b \in m => Is(b, m) = 1) /\ (b \notin m => Is(b, m) = 0)
          /\ (b \in mode => Is(b, mode) = 1) /\ (b \notin mode => Is(b, mode) = 0)
      BY DEF Is
    <3>6. Cardinality(V) = IF fd \in U THEN Cardinality(U) ELSE Cardinality(U) + 1
      <4>1. fd \in U => V = U
        OBVIOUS
      <4> QED
        BY <3>2, <4>1 DEF Counting, OneMore
    <3>7. Cardinality(W) = IF fd \in U THEN Cardinality(U) - 1 ELSE Cardinality(U)
      <4>1. fd \notin U => W = U
        OBVIOUS
      <4> QED
        BY <3>2, <4>1 DEF Counting, OneLess
    <3> HIDE DEF U, V, W, m
    <3> QED
      BY <3>1, <3>2, <3>3, <3>4, <3>5, <3>6, <3>7
  <2>2. \A b \in Bit : All(f2)[b] = After(f, fd, mode)[b]
    BY <2>1, <1>AfterType, SMTT(30) DEF AfterTypeClaim
  <2> QED
    BY <2>2, <1>AfterType, <1>AllType DEF AfterTypeClaim, AllTypeClaim
<1>PutFiles. PutFilesClaim
  <2> SUFFICES
      ASSUME NEW r \in RP, NEW f, TabType(f), Files(f, r), NEW fd \in Nat, fd < MaxFd,
             NEW mode \in SUBSET Bit, mode = {} \/ "open" \in mode, NEW f2, TabType(f2), Put(f, fd, r, mode, f2)
      PROVE  Files(f2, r)
    BY DEF PutFilesClaim
  <2>1. PutOne(f, fd, r, mode, f2)
    BY <1>PutUses
  <2>2. \A i \in DOMAIN f2 : i \in Int
    BY SMTT(30) DEF TabType
  <2> QED
    BY <2>1, <2>2, SessionAssumption, SMTT(30) DEF Files, PutOne
<1>PutNone. PutNoneClaim
  <2> SUFFICES
      ASSUME NEW r \in RP, NEW f, TabType(f), Files(f, r), NEW fd \in Nat, ModeOf(f, fd) = {},
             fd < MaxFd, NEW f2, TabType(f2), Put(f, fd, NULL, {}, f2)
      PROVE  Files(f2, r) /\ All(f2) = All(f)
    BY DEF PutNoneClaim
  <2> DEFINE none == {}
             D == All(f)
             D1 == Both(f, none)
  <2>1. none \in SUBSET Bit /\ PutOne(f, fd, NULL, none, f2) /\ \A b \in Bit : Is(b, none) = 0
    BY <1>PutUses DEF Is
  <2>2. \A i \in DOMAIN f2 : i \in Int
    BY SMTT(30) DEF TabType
  <2>3. Files(f2, r)
    BY <2>1, <2>2, SessionAssumption, SMTT(30) DEF Files, PutOne
  <2>4. All(f2) = D1
    BY <2>1, <1>PutCount, <1>NoneOld DEF PutCountClaim, NoneOldClaim
  <2>5. D \in [Bit -> Int] /\ D1 \in [Bit -> Int]
        /\ \A b \in Bit : D1[b] = D[b] + Is(b, none) /\ D[b] \in Nat
    BY <1>AllType, <1>BothType DEF AllTypeClaim, BothTypeClaim
  <2> HIDE DEF D, D1, none
  <2>6. \A b \in Bit : D1[b] = D[b]
    BY <2>1, <2>5
  <2>7. D1 = D
    BY <2>5, <2>6
  <2> QED
    BY <2>3, <2>4, <2>7 DEF D
<1> QED
  BY <1>AllType, <1>InUseCounts, <1>BothType, <1>AfterType, <1>TakesOld, <1>TakesNew,
     <1>NoneOld, <1>PutCount, <1>PutFiles, <1>PutNone

-----------------------------------------------------------------------------
(* The changes that a call has left to make, with the demand that the      *)
(* entry covers before each of them.  The entry never counts more than the *)
(* access allows, except while a connection is added that will be refused. *)

Held(tab, D, r) == Covers(Row(tab), D) /\ Ok(Row(tab), Access[r])
Undoes(tab, D, mode, r) == Covers(Row(tab), D) /\ Ok(Left(Row(tab), r, mode), Access[r])
Keep(tab, f, r) == OneRow(tab, r) /\ Files(f, r)

Old(f, fd, mode, r) == Del(r, ModeOf(f, fd) \ mode)

Plan(todo, mode, fd, tab, f, r) ==
  \/ /\ todo = <<Add(r, mode)>> /\ ModeOf(f, fd) = {} /\ mode # {}
     /\ Held(tab, All(f), r)
  \/ /\ todo = <<Add(r, mode), Old(f, fd, mode, r)>> /\ ModeOf(f, fd) # {} /\ mode # {}
     /\ mode \ {"open"} \subseteq Access[r] /\ Held(tab, All(f), r)
  \/ /\ todo = <<Old(f, fd, mode, r)>> /\ ModeOf(f, fd) # {}
     /\ Held(tab, Both(f, mode), r)
  \/ todo = <<>> /\ Held(tab, After(f, fd, mode), r)

Waits(todo, mode, fd, tab, f, r) ==
  \/ /\ todo = <<Add(r, mode)>> /\ ModeOf(f, fd) = {} /\ mode # {}
     /\ Undoes(tab, Both(f, mode), mode, r)
  \/ /\ todo = <<Add(r, mode), Old(f, fd, mode, r)>> /\ ModeOf(f, fd) # {} /\ mode # {}
     /\ Held(tab, Both(f, mode), r)
  \/ todo = <<Old(f, fd, mode, r)>> /\ Held(tab, After(f, fd, mode), r)

(* The same of a call that has failed.                                     *)
Back(todo, mode, fd, tab, f, r) ==
  \/ /\ todo = <<Del(r, mode)>> /\ ModeOf(f, fd) = {} /\ mode # {}
     /\ Undoes(tab, Both(f, mode), mode, r)
  \/ todo = <<>> /\ Held(tab, All(f), r)

BackWaits(todo, mode, tab, f, r) == todo = <<Del(r, mode)>> /\ mode # {} /\ Held(tab, All(f), r)

(* The change that comes first is made to the entry: none is refused for   *)
(* want of an entry.                                                       *)
Changes_to(e, tab, tab2) ==
  tab2 = IF e.op = "add" THEN _contab_add(tab, e.rp, e.st) ELSE _contab_del(tab, e.rp, e.st)
Found(e, tab) == ~(e.op = "del" /\ Entries(tab, {e.rp}) = {})

PlanChangeClaim ==
  \A r \in RP, tab \in Seq(Entry) :
  \A f, fd, mode, todo, tab2 :
    /\ TabType(f)
    /\ Keep(tab, f, r)
    /\ mode = {} \/ "open" \in mode
    /\ todo # <<>>
    /\ Plan(todo, mode, fd, tab, f, r)
    /\ Changes_to(Head(todo), tab, tab2)
    => /\ Head(todo).rp = r /\ Found(Head(todo), tab)
       /\ Keep(tab2, f, r) /\ Waits(todo, mode, fd, tab2, f, r)

BackChangeClaim ==
  \A r \in RP, tab \in Seq(Entry) :
  \A f, fd, mode, todo, tab2 :
    /\ TabType(f)
    /\ Keep(tab, f, r)
    /\ mode = {} \/ "open" \in mode
    /\ todo # <<>>
    /\ Back(todo, mode, fd, tab, f, r)
    /\ Changes_to(Head(todo), tab, tab2)
    => /\ Head(todo).rp = r /\ Found(Head(todo), tab)
       /\ Keep(tab2, f, r) /\ BackWaits(todo, mode, tab2, f, r)

(* The answer: a request is refused only while an addition can be undone.  *)
PlanDoneClaim ==
  \A r \in RP :
  \A tab, f, fd, mode, todo :
    /\ TabType(f)
    /\ Waits(todo, mode, fd, tab, f, r)
    /\ Ok(Row(tab), Access[r])
    => Plan(Tail(todo), mode, fd, tab, f, r)

PlanDeniedClaim ==
  \A r \in RP :
  \A tab, f, fd, mode, todo :
    /\ mode = {} \/ "open" \in mode
    /\ Waits(todo, mode, fd, tab, f, r)
    /\ ~Ok(Row(tab), Access[r])
    => Back(<<Del(Head(todo).rp, Head(todo).st)>> \o Tail(todo), mode, fd, tab, f, r)

BackDoneClaim ==
  \A r \in RP :
  \A tab, f, fd, mode, todo :
    /\ BackWaits(todo, mode, tab, f, r)
    => Back(Tail(todo), mode, fd, tab, f, r) /\ Ok(Row(tab), Access[r])

(* The status that is asked for is what the access allows.                 *)
OkIsClaim ==
  \A r \in RP, tab \in Seq(Entry) :
  \A A :
    /\ OneRow(tab, r)
    => Ok(Row(tab), A) <=> _contab_get(tab, r) \ {"open"} \subseteq A

(* The end of a call: the descriptor is set, or left as it was.            *)
PlanEndClaim ==
  \A r \in RP :
  \A tab, f, fd, mode :
    /\ Plan(<<>>, mode, fd, tab, f, r)
    => Held(tab, After(f, fd, mode), r)

BackEndClaim ==
  \A r \in RP :
  \A tab, f, fd, mode :
    /\ Back(<<>>, mode, fd, tab, f, r)
    => Held(tab, All(f), r)

WaitHeadClaim ==
  \A r, tab, f, fd, mode, todo :
    /\ mode = {} \/ "open" \in mode
    /\ Waits(todo, mode, fd, tab, f, r) \/ BackWaits(todo, mode, tab, f, r)
    => Head(todo).rp = r

(* The changes that a call has still to make keep the descriptors          *)
(* covered.                                                                *)
LEMMA Plans ==
  ASSUME Counting
  PROVE  /\ PlanChangeClaim /\ BackChangeClaim /\ PlanDoneClaim
         /\ PlanDeniedClaim /\ BackDoneClaim /\ OkIsClaim /\ PlanEndClaim
         /\ BackEndClaim /\ WaitHeadClaim
<1>Lists.
    ASSUME NEW a, NEW b
    PROVE  /\ <<a>> # <<>> /\ <<a, b>> # <<>> /\ Head(<<a>>) = a /\ Head(<<a, b>>) = a
           /\ Tail(<<a>>) = <<>> /\ Tail(<<a, b>>) = <<b>> /\ <<a>> \o <<>> = <<a>>
    BY <1>Lists
(* An entry with a demand is that of the resource.                         *)
<1>RowUsed.
    ASSUME NEW r \in RP, NEW tab \in Seq(Entry), OneRow(tab, r), NEW D \in [Bit -> Int], Covers(Row(tab), D),
           D["open"] >= 1
    PROVE  Row(tab).rp = r
  <2> USE <1>RowUsed
  <2>1. "open" \in Bit
    BY DEF Bit
  <2>2. Row(tab).refc \in Int /\ Row(tab).refc >= D["open"] /\ D["open"] \in Int
    BY <2>1, Rows DEF RowTypeClaim, Covers
  <2>3. Row(tab).refc # 0
    BY <2>2
  <2> QED
    BY <2>3, Tables DEF EmptyEntryClaim, OneRow
<1>AddHolds.
    ASSUME NEW r \in RP, NEW tab \in Seq(Entry), OneRow(tab, r), NEW f, TabType(f), NEW mode, "open" \in mode,
           Held(tab, All(f), r), NEW tab2, tab2 = _contab_add(tab, r, mode)
    PROVE  /\ OneRow(tab2, r) /\ Undoes(tab2, Both(f, mode), mode, r)
           /\ mode \ {"open"} \subseteq Access[r] => Held(tab2, Both(f, mode), r)
  <2> USE <1>AddHolds
  <2>1. OneRow(tab2, r) /\ Row(tab2) = Used(Row(tab), r, mode)
    BY Rows DEF RowAddClaim
  <2>2. Row(tab) \in Entry /\ All(f) \in [Bit -> Int] /\ Covers(Row(tab), All(f)) /\ Ok(Row(tab), Access[r])
    BY Rows, Counts DEF RowTypeClaim, AllTypeClaim, Held
  <2>3. Covers(Row(tab2), Both(f, mode))
    BY <2>1, <2>2, Covering DEF CoverAddClaim, Both
  <2>4. Ok(Left(Row(tab2), r, mode), Access[r])
    BY <2>1, <2>2, Covering DEF OkUndoneClaim
  <2>5. mode \ {"open"} \subseteq Access[r] => Ok(Row(tab2), Access[r])
    BY <2>1, <2>2, Covering, SMTT(30) DEF OkAddClaim
  <2> QED
    BY <2>1, <2>3, <2>4, <2>5 DEF Held, Undoes
<1>OldHolds.
    ASSUME NEW r \in RP, NEW tab \in Seq(Entry), NEW f, TabType(f), Keep(tab, f, r), NEW fd, NEW mode,
           mode = {} \/ "open" \in mode, ModeOf(f, fd) # {}, Held(tab, Both(f, mode), r),
           NEW st, st = (ModeOf(f, fd) \ mode) \cup {"open"}, NEW tab2, tab2 = _contab_del(tab, r, st)
    PROVE  Entries(tab, {r}) # {} /\ OneRow(tab2, r) /\ Held(tab2, After(f, fd, mode), r)
  <2> USE <1>OldHolds
  <2> DEFINE D1 == Both(f, mode)
             D2 == After(f, fd, mode)
  <2>1. OneRow(tab, r) /\ Files(f, r) /\ Covers(Row(tab), D1) /\ Ok(Row(tab), Access[r]) /\ Row(tab) \in Entry
    BY Rows DEF RowTypeClaim, Keep, Held
  <2>2. Taken(D1, st, D2)
    BY <2>1, Counts DEF TakesOldClaim
  <2>3. D1 \in [Bit -> Int] /\ D2 \in [Bit -> Int]
    BY Counts DEF BothTypeClaim, AfterTypeClaim
  <2>4. D1["open"] >= 1
    <3>1. "open" \in ModeOf(f, fd) /\ "open" \in Bit
      BY <2>1 DEF ModeOf, Files, Bit
    <3>2. All(f)["open"] >= 1
      BY <3>1, Counts DEF InUseCountsClaim
    <3>3. D1["open"] = All(f)["open"] + Is("open", mode) /\ All(f)["open"] \in Nat
      BY <3>1, Counts DEF BothTypeClaim
    <3> HIDE DEF D1
    <3> QED
      BY <3>2, <3>3 DEF Is
  <2> HIDE DEF D1, D2
  <2>5. Row(tab).rp = r
    BY <2>1, <2>3, <2>4, <1>RowUsed
  <2>6. Entries(tab, {r}) # {} /\ OneRow(tab2, r) /\ Row(tab2) = Left(Row(tab), r, st)
    BY <2>1, <2>5, Rows DEF RowDelClaim
  <2>7. Covers(Row(tab2), D2)
    BY <2>1, <2>2, <2>3, <2>6, Covering, SMTT(30) DEF CoverDelClaim
  <2>8. Ok(Row(tab2), Access[r])
    BY <2>1, <2>6, Covering DEF OkDelClaim
  <2> QED
    BY <2>6, <2>7, <2>8 DEF Held, D2
<1>BackHolds.
    ASSUME NEW r \in RP, NEW tab \in Seq(Entry), NEW f, TabType(f), Keep(tab, f, r), NEW mode,
           "open" \in mode, Undoes(tab, Both(f, mode), mode, r), NEW tab2, tab2 = _contab_del(tab, r, mode)
    PROVE  Entries(tab, {r}) # {} /\ OneRow(tab2, r) /\ Held(tab2, All(f), r)
  <2> USE <1>BackHolds
  <2> DEFINE D1 == Both(f, mode)
             D2 == All(f)
  <2>1. /\ OneRow(tab, r) /\ Files(f, r) /\ Covers(Row(tab), D1) /\ Row(tab) \in Entry
        /\ Ok(Left(Row(tab), r, mode), Access[r])
    BY Rows DEF RowTypeClaim, Keep, Undoes
  <2>2. Taken(D1, mode, D2)
    BY <2>1, Counts DEF TakesNewClaim
  <2>3. D1 \in [Bit -> Int] /\ D2 \in [Bit -> Int]
    BY Counts DEF BothTypeClaim, AllTypeClaim
  <2>4. D1["open"] >= 1
    <3>1. D1["open"] = D2["open"] + Is("open", mode) /\ D2["open"] \in Nat
      BY Counts DEF BothTypeClaim, Bit
    <3> HIDE DEF D1, D2
    <3> QED
      BY <3>1 DEF Is
  <2> HIDE DEF D1, D2
  <2>5. Row(tab).rp = r
    BY <2>1, <2>3, <2>4, <1>RowUsed
  <2>6. Entries(tab, {r}) # {} /\ OneRow(tab2, r) /\ Row(tab2) = Left(Row(tab), r, mode)
    BY <2>1, <2>5, Rows DEF RowDelClaim
  <2>7. Covers(Row(tab2), D2)
    BY <2>1, <2>2, <2>3, <2>6, Covering, SMTT(30) DEF CoverDelClaim
  <2> QED
    BY <2>1, <2>6, <2>7 DEF Held, D2
<1>NewIs.
    ASSUME NEW r, NEW mode, "open" \in mode
    PROVE  /\ Add(r, mode).op = "add" /\ Add(r, mode).rp = r /\ Add(r, mode).st = mode
           /\ Del(r, mode).op = "del" /\ Del(r, mode).rp = r /\ Del(r, mode).st = mode
           /\ Del(Add(r, mode).rp, Add(r, mode).st) = Del(r, mode)
  <2> USE <1>NewIs
  <2>1. mode \cup {"open"} = mode
    OBVIOUS
  <2> QED
    BY <2>1 DEF Add, Del
<1>OldIs.
    ASSUME NEW f, NEW fd, NEW mode, NEW r
    PROVE  /\ Old(f, fd, mode, r).op = "del" /\ Old(f, fd, mode, r).rp = r
           /\ Old(f, fd, mode, r).st = (ModeOf(f, fd) \ mode) \cup {"open"}
    BY <1>OldIs DEF Old, Del
<1>PlanChange. PlanChangeClaim
  <2> SUFFICES
      ASSUME NEW r \in RP, NEW tab \in Seq(Entry), NEW f, TabType(f), Keep(tab, f, r), NEW fd, NEW mode,
             mode = {} \/ "open" \in mode, NEW todo, todo # <<>>, Plan(todo, mode, fd, tab, f, r),
             NEW tab2, Changes_to(Head(todo), tab, tab2)
      PROVE  /\ Head(todo).rp = r /\ Found(Head(todo), tab)
             /\ Keep(tab2, f, r) /\ Waits(todo, mode, fd, tab2, f, r)
    BY SMTT(30) DEF PlanChangeClaim
  <2> DEFINE a == Add(r, mode)
             d == Old(f, fd, mode, r)
             e == Head(todo)
             m == ModeOf(f, fd)
  <2>1. d.op = "del" /\ d.rp = r /\ d.st = (m \ mode) \cup {"open"}
    BY <1>OldIs, SMTT(30)
  <2>2. "open" \in mode => a.op = "add" /\ a.rp = r /\ a.st = mode
    BY <1>NewIs, SMTT(30)
  <2>3. Files(f, r) /\ OneRow(tab, r)
    BY DEF Keep
  <2>4. CASE todo = <<a>> /\ m = {} /\ mode # {} /\ Held(tab, All(f), r)
    <3>1. e = a /\ "open" \in mode
      BY <2>4, <1>Lists
    <3>2. tab2 = _contab_add(tab, r, mode)
      BY <2>2, <3>1 DEF Changes_to
    <3>3. OneRow(tab2, r) /\ Undoes(tab2, Both(f, mode), mode, r)
      BY <2>3, <2>4, <3>1, <3>2, <1>AddHolds
    <3> QED
      BY <2>2, <2>3, <2>4, <3>1, <3>3 DEF Keep, Waits, Found
  <2>5. CASE /\ todo = <<a, d>> /\ m # {} /\ mode # {}
             /\ mode \ {"open"} \subseteq Access[r] /\ Held(tab, All(f), r)
    <3>1. e = a /\ "open" \in mode
      BY <2>5, <1>Lists
    <3>2. tab2 = _contab_add(tab, r, mode)
      BY <2>2, <3>1 DEF Changes_to
    <3>3. OneRow(tab2, r) /\ Held(tab2, Both(f, mode), r)
      BY <2>3, <2>5, <3>1, <3>2, <1>AddHolds
    <3> QED
      BY <2>2, <2>3, <2>5, <3>1, <3>3 DEF Keep, Waits, Found
  <2>6. CASE todo = <<d>> /\ m # {} /\ Held(tab, Both(f, mode), r)
    <3>1. e = d
      BY <2>6, <1>Lists
    <3>2. tab2 = _contab_del(tab, r, d.st)
      BY <2>1, <3>1 DEF Changes_to
    <3>3. Entries(tab, {r}) # {} /\ OneRow(tab2, r) /\ Held(tab2, After(f, fd, mode), r)
      BY <2>1, <2>6, <3>2, <1>OldHolds
    <3> QED
      BY <2>1, <2>3, <2>6, <3>1, <3>3 DEF Keep, Waits, Found
  <2> QED
    BY <2>4, <2>5, <2>6 DEF Plan
<1>BackChange. BackChangeClaim
  <2> SUFFICES
      ASSUME NEW r \in RP, NEW tab \in Seq(Entry), NEW f, TabType(f), Keep(tab, f, r), NEW fd, NEW mode,
             mode = {} \/ "open" \in mode, NEW todo, todo # <<>>, Back(todo, mode, fd, tab, f, r),
             NEW tab2, Changes_to(Head(todo), tab, tab2)
      PROVE  /\ Head(todo).rp = r /\ Found(Head(todo), tab)
             /\ Keep(tab2, f, r) /\ BackWaits(todo, mode, tab2, f, r)
    BY SMTT(30) DEF BackChangeClaim
  <2> DEFINE d == Del(r, mode)
  <2>1. todo = <<d>> /\ mode # {} /\ Undoes(tab, Both(f, mode), mode, r) /\ "open" \in mode
    BY DEF Back
  <2>2. Head(todo) = d /\ d.op = "del" /\ d.rp = r /\ d.st = mode
    BY <2>1, <1>Lists, <1>NewIs, SMTT(30)
  <2>3. tab2 = _contab_del(tab, r, mode)
    BY <2>2 DEF Changes_to
  <2>4. Entries(tab, {r}) # {} /\ OneRow(tab2, r) /\ Held(tab2, All(f), r)
    BY <2>1, <2>3, <1>BackHolds
  <2> QED
    BY <2>1, <2>2, <2>4 DEF Keep, BackWaits, Found
<1>PlanDone. PlanDoneClaim
  <2> SUFFICES
      ASSUME NEW r \in RP, NEW tab, NEW f, TabType(f), NEW fd, NEW mode, NEW todo,
             Waits(todo, mode, fd, tab, f, r), Ok(Row(tab), Access[r])
      PROVE  Plan(Tail(todo), mode, fd, tab, f, r)
    BY DEF PlanDoneClaim
  <2> DEFINE a == Add(r, mode)
             d == Old(f, fd, mode, r)
             m == ModeOf(f, fd)
  <2>1. CASE todo = <<a>> /\ m = {} /\ Undoes(tab, Both(f, mode), mode, r)
    <3>1. Tail(todo) = <<>> /\ After(f, fd, mode) = Both(f, mode)
      BY <2>1, <1>Lists, Counts DEF NoneOldClaim
    <3> QED
      BY <2>1, <3>1 DEF Plan, Held, Undoes
  <2>2. CASE todo = <<a, d>> /\ m # {} /\ Held(tab, Both(f, mode), r)
    BY <2>2, <1>Lists DEF Plan
  <2>3. CASE todo = <<d>> /\ Held(tab, After(f, fd, mode), r)
    <3>1. Tail(todo) = <<>>
      BY <2>3, <1>Lists
    <3> QED
      BY <2>3, <3>1 DEF Plan
  <2> QED
    BY <2>1, <2>2, <2>3 DEF Waits
<1>PlanDenied. PlanDeniedClaim
  <2> SUFFICES
      ASSUME NEW r \in RP, NEW tab, NEW f, NEW fd, NEW mode, mode = {} \/ "open" \in mode, NEW todo,
             Waits(todo, mode, fd, tab, f, r), ~Ok(Row(tab), Access[r])
      PROVE  Back(<<Del(Head(todo).rp, Head(todo).st)>> \o Tail(todo), mode, fd, tab, f, r)
    BY DEF PlanDeniedClaim
  <2> DEFINE a == Add(r, mode)
  <2>1. todo = <<a>> /\ ModeOf(f, fd) = {} /\ mode # {} /\ Undoes(tab, Both(f, mode), mode, r)
    BY DEF Waits, Held
  <2>2. Del(a.rp, a.st) = Del(r, mode)
    BY <2>1, <1>NewIs, SMTT(30)
  <2>3. Head(todo) = a /\ Tail(todo) = <<>>
    BY <2>1, <1>Lists
  <2>4. <<Del(Head(todo).rp, Head(todo).st)>> \o Tail(todo) = <<Del(r, mode)>>
    BY <2>2, <2>3, <1>Lists
  <2> QED
    BY <2>1, <2>4 DEF Back
<1>BackDone. BackDoneClaim
  <2> SUFFICES
      ASSUME NEW r \in RP, NEW tab, NEW f, NEW fd, NEW mode, NEW todo, BackWaits(todo, mode, tab, f, r)
      PROVE  Back(Tail(todo), mode, fd, tab, f, r) /\ Ok(Row(tab), Access[r])
    BY DEF BackDoneClaim
  <2>1. Tail(todo) = <<>> /\ Held(tab, All(f), r)
    BY <1>Lists DEF BackWaits
  <2> QED
    BY <2>1 DEF Back, Held
<1>OkIs. OkIsClaim
  <2> SUFFICES
      ASSUME NEW r \in RP, NEW tab \in Seq(Entry), OneRow(tab, r), NEW A
      PROVE  Ok(Row(tab), A) <=> _contab_get(tab, r) \ {"open"} \subseteq A
    BY DEF OkIsClaim
  <2>1. _contab_get(tab, r) = {b \in Bit : Row(tab).count[b] > 0}
    BY Rows DEF RowGetClaim
  <2> QED
    BY <2>1 DEF Ok
<1>PlanEnd. PlanEndClaim
    BY <1>Lists, SMTT(30) DEF PlanEndClaim, Plan
<1>BackEnd. BackEndClaim
    BY <1>Lists DEF BackEndClaim, Back
<1>WaitHead. WaitHeadClaim
  <2> SUFFICES
      ASSUME NEW r, NEW tab, NEW f, NEW fd, NEW mode, mode = {} \/ "open" \in mode, NEW todo,
             Waits(todo, mode, fd, tab, f, r) \/ BackWaits(todo, mode, tab, f, r)
      PROVE  Head(todo).rp = r
    BY DEF WaitHeadClaim
  <2> DEFINE a == Add(r, mode)
             d == Old(f, fd, mode, r)
             b == Del(r, mode)
  <2>1. a.rp = r /\ b.rp = r /\ d.rp = r
    BY <1>OldIs, SMTT(30) DEF Add, Del
  <2>2. todo \in {<<a>>, <<a, d>>, <<d>>, <<b>>}
    BY DEF Waits, BackWaits
  <2> HIDE DEF a, b, d
  <2> QED
    BY <2>1, <2>2, <1>Lists, SMTT(30)
<1> QED
  BY <1>PlanChange, <1>BackChange, <1>PlanDone, <1>PlanDenied, <1>BackDone, <1>OkIs,
     <1>PlanEnd, <1>BackEnd, <1>WaitHead

-----------------------------------------------------------------------------
(* The types of the state of a program that runs.                          *)

Change == [op : {"add", "del"}, rp : RP, st : SUBSET Bit]
Asked == [pc : {"alloc", "mode"}, op : {"ropen", "close"}, fd : Int, rp : RP \cup {NULL},
          mode : SUBSET Bit]
Half == [pc : {"rp"}, op : {"ropen", "close"}, fd : Nat, rp : RP \cup {NULL},
         mode : SUBSET Bit, old : SUBSET Bit]
Changes == [pc : {"change", "get", "connect"}, todo : Seq(Change), fd : Nat, rp : RP,
            mode : SUBSET Bit, err : BOOLEAN]
Call == {Out} \cup Asked \cup Half \cup Changes
Request == [at : {"start", "noted", "done", "denied"}, rp : RP, st : SUBSET Bit]

(* A thread and its request: it has one exactly while it waits for it.     *)
Well(c, q) ==
  /\ c \in Call /\ q \in {NoRequest} \cup Request
  /\ c.pc = "mode" => c.fd \in Nat
  /\ c.pc \in {"alloc", "mode", "rp"} /\ c.op = "ropen" => c.rp \in RP
  /\ c.pc \in {"get", "connect"} => c.todo # <<>>
  /\ q.at # "none" <=> c.pc = "connect"
  /\ q.at = "noted" => q.st # {}
  /\ q.at \in {"noted", "done"} => q.st \ {"open"} \subseteq Access[q.rp]
  /\ q.at = "denied" => q.st # {} /\ ~(q.st \ {"open"} \subseteq Access[q.rp])

Types ==
  /\ program \in Programs
  /\ TabType(fdtab) /\ contab \in Seq(Entry) /\ open \in [RP -> SUBSET Bit]
  /\ call \in [Thread -> Call] /\ serve \in [Thread -> {NoRequest} \cup Request]
  /\ \A t \in Thread : Well(call[t], serve[t]) /\ (t \notin program.threads => call[t] = Out)
  /\ notice = <<>>

(* Thread t goes on in its call with c, and its request with q.            *)
Goes(t, c, q) ==
  call' = [call EXCEPT ![t] = c] /\ serve' = [serve EXCEPT ![t] = q]

(* The records of a call as it goes on.                                    *)
Changed(c, pc, todo, err) ==
  [pc |-> pc, todo |-> todo, fd |-> c.fd, rp |-> c.rp, mode |-> c.mode, err |-> err]

-----------------------------------------------------------------------------
(* The steps of a thread, as they change its call and its request.         *)

Same == UNCHANGED <<notice, program, live, up>>

RpNext(k, old) ==
  CASE k.op = "ropen" -> Changing(ropen_changes(k, old), k.fd, k.rp, k.mode)
    [] k.op = "close" /\ old = NULL -> Out
    [] k.op = "close" /\ old # NULL -> Changing(<<Del(old, k.old)>>, k.fd, old, {})

(* The answer to a request takes the change from the list, or undoes it.   *)
Undone(k) == Changed(k, "change", <<Del(Head(k.todo).rp, Head(k.todo).st)>> \o Tail(k.todo), TRUE)
Made(k) == Changed(k, "change", Tail(k.todo), k.err)

(* The steps of the server: they change the request, and the status.       *)
Answer(q, at) == [at |-> at, rp |-> q.rp, st |-> q.st]

-----------------------------------------------------------------------------
(* The status is the one of the table, except for the resource that the    *)
(* thread is changing: before the request of "get" and "connect" is        *)
(* answered, or before a change that was refused is taken back.            *)

Agrees(tab, o, r) == o[r] = _contab_get(tab, r)

Real(c, q, tab, o) ==
  /\ c.pc \in {"out", "alloc", "mode", "rp"} => \A r \in RP : Agrees(tab, o, r)
  /\ c.pc = "change" => \A r \in RP :
       \/ Agrees(tab, o, r)
       \/ /\ c.todo # <<>> /\ r = Head(c.todo).rp
          /\ Head(c.todo).op = "del" /\ Entries(tab, {r}) # {}
  /\ c.pc \in {"get", "connect"} => \A r \in RP \ {Head(c.todo).rp} : Agrees(tab, o, r)
  /\ c.pc = "connect" => /\ q.rp = Head(c.todo).rp /\ q.st = _contab_get(tab, q.rp)
                         /\ q.at = "done" => Agrees(tab, o, q.rp)

One(t) == program.threads = {t}
Inv == live => Types /\ (up => \A t \in Thread : One(t) => Real(call[t], serve[t], contab, open))

-----------------------------------------------------------------------------
(* Where the thread of the program is, and what its table covers.          *)

RpOf(f, fd) == IF fd \in DOMAIN f THEN f[fd].rp ELSE NULL

Aims(op, mode, fd, f, r) ==
  /\ ~(RpOf(f, fd) = r /\ ModeOf(f, fd) = {})
  /\ op = "ropen" /\ ModeOf(f, fd) # {} => mode \ {"open"} \subseteq Access[r]

Phase(c, tab, f, r) ==
  /\ Keep(tab, f, r)
  /\ c.pc \in {"out", "alloc", "mode", "rp"} => Held(tab, All(f), r)
  /\ c.pc \in {"alloc", "mode", "rp"} /\ c.op = "ropen" => c.rp = r /\ "open" \in c.mode
  /\ c.pc \in {"mode", "rp"} => Aims(c.op, c.mode, c.fd, f, r)
  /\ c.pc = "rp" => c.old = ModeOf(f, c.fd)
  /\ c.pc \in {"change", "get", "connect"} => c.rp = r /\ (c.mode = {} \/ "open" \in c.mode)
  /\ c.pc = "change" => /\ c.err => Back(c.todo, c.mode, c.fd, tab, f, r)
                        /\ ~c.err => Plan(c.todo, c.mode, c.fd, tab, f, r)
  /\ c.pc \in {"get", "connect"} => /\ c.err => BackWaits(c.todo, c.mode, tab, f, r)
                                    /\ ~c.err => Waits(c.todo, c.mode, c.fd, tab, f, r)

Cover ==
  live /\ up => \A t \in Thread, r \in RP :
                  One(t) /\ program.rps = {r} => Phase(call[t], contab, fdtab, r)

(* Descriptors that are closed are not given to a call again, no           *)
(* descriptor is opened again with a mode that its resource does not       *)
(* allow, none in use is cleared, and the memory that the descriptor table *)
(* grows into is clear.                                                    *)
Kept == {"reclose", "reopen", "forget", "garbage"} \cap Beyond = {}

(* What a thread is in the middle of, by its place.                        *)
KindsClaim ==
  \A c, q :
    /\ Well(c, q)
    => /\ c.pc = "out" => c = Out /\ q = NoRequest
       /\ c.pc \in {"alloc", "mode"} => c \in Asked /\ q = NoRequest
       /\ c.pc = "rp" => c \in Half /\ q = NoRequest
       /\ c.pc \in {"change", "get"} => c \in Changes /\ q = NoRequest
       /\ c.pc = "connect" => c \in Changes /\ q \in Request
       /\ c.pc \in {"out", "alloc", "mode", "rp", "change", "get", "connect"}
       /\ q.at # "none" => q \in Request /\ c.pc = "connect"

ChangesAreClaim ==
  \A c \in Changes :
    /\ c = Changed(c, c.pc, c.todo, c.err)
    /\ c.todo \in Seq(Change) /\ c.fd \in Nat /\ c.rp \in RP /\ c.mode \in SUBSET Bit /\ c.err \in BOOLEAN

ChangedIsClaim ==
  \A c, pc, todo, err :
    /\ Changed(c, pc, todo, err).pc = pc /\ Changed(c, pc, todo, err).todo = todo
    /\ Changed(c, pc, todo, err).fd = c.fd
    /\ Changed(c, pc, todo, err).rp = c.rp /\ Changed(c, pc, todo, err).mode = c.mode

ChangedErrClaim ==
  \A c, pc, todo, err :
    Changed(c, pc, todo, err).err = err

NextChangeClaim ==
  \A c \in Changes, err \in BOOLEAN :
    Next_change(c, err) = Changed(c, "change", Tail(c.todo), c.err \/ err)

MovedToClaim ==
  \A t \in Thread :
  \A pc :
    /\ call \in [Thread -> Call]
    /\ call[t] \in Changes
    /\ call' = [call EXCEPT ![t].pc = pc]
    => call' = [call EXCEPT ![t] = Changed(call[t], pc, call[t].todo, call[t].err)]

(* The first change of a list, and the rest.                               *)
HeadsClaim ==
  \A todo \in Seq(Change) :
    /\ todo # <<>>
    => Head(todo) \in Change /\ Tail(todo) \in Seq(Change)

MakesClaim ==
  \A rp \in RP, st \in SUBSET Bit :
    /\ Add(rp, st) \in Change /\ Add(rp, st).op = "add" /\ Add(rp, st).rp = rp
    /\ Del(rp, st) \in Change /\ Del(rp, st).op = "del" /\ Del(rp, st).rp = rp
    /\ Add(rp, st).st = st \cup {"open"} /\ Del(rp, st).st = st \cup {"open"}

UndoTodoClaim ==
  \A todo \in Seq(Change) :
    /\ todo # <<>>
    => LET k == <<Del(Head(todo).rp, Head(todo).st)>> \o Tail(todo)
       IN k \in Seq(Change) /\ k # <<>> /\ Head(k) = Del(Head(todo).rp, Head(todo).st) /\ Tail(k) = Tail(todo)

ReadsClaim ==
  \A fd :
    /\ Types
    => fd_rp(fd) \in RP \cup {NULL} /\ fd_mode(fd) \in SUBSET Bit

SizeIsClaim ==
  \A n \in Nat :
    /\ fdtab \in [0..n - 1 -> Descriptor]
    => Size = n

ToChangeClaim ==
  \A k \in Changes, todo \in Seq(Change), err \in BOOLEAN :
    Well(Changed(k, "change", todo, err), NoRequest)

ToFailedClaim ==
  \A k \in Changes, todo \in Seq(Change) :
    Well(Changed(k, "change", todo, TRUE), NoRequest)

LiftedClaim ==
  \A t \in program.threads :
  \A c, q :
    /\ Types
    /\ t \in Thread
    /\ Well(c, q)
    /\ Goes(t, c, q)
    /\ contab' \in Seq(Entry)
    /\ TabType(fdtab')
    /\ open' \in [RP -> SUBSET Bit]
    /\ Same
    /\ up /\ One(t) => Real(c, q, contab', open')
    => Inv' /\ Types' /\ call'[t] = c /\ serve'[t] = q

(* The places a thread steps from, outside of a call or of a change.       *)
PlainlyClaim ==
  \A t \in program.threads :
  \A c :
    /\ Inv
    /\ live
    /\ t \in Thread
    /\ Well(c, NoRequest)
    /\ Goes(t, c, NoRequest)
    /\ Same
    /\ UNCHANGED <<fdtab, contab, open>>
    /\ call[t].pc \in {"out", "alloc", "mode", "rp"}
    /\ c.pc \in {"out", "alloc", "mode", "rp", "change"}
    => Inv' /\ Types' /\ call'[t] = c /\ serve'[t] = NoRequest

InCallClaim ==
  \A t \in Thread :
    /\ Types
    /\ call[t].pc # "out"
    => t \in program.threads

CameClaim ==
  \A t \in Thread :
  \A c, q :
    /\ Types
    /\ Goes(t, c, q)
    => call'[t] = c /\ serve'[t] = q

(* A call that goes on with the changes it has.                            *)
WaitPhaseClaim ==
  \A r \in RP :
  \A tab, f :
  \A k \in Changes, pc \in {"get", "connect"} :
    /\ Keep(tab, f, r)
    /\ k.rp = r
    /\ k.mode = {} \/ "open" \in k.mode
    /\ k.err => BackWaits(k.todo, k.mode, tab, f, r)
    /\ ~k.err => Waits(k.todo, k.mode, k.fd, tab, f, r)
    => Phase(Changed(k, pc, k.todo, k.err), tab, f, r)

(* What all steps of a call have in common.                                *)
LEMMA Moves ==
  ASSUME Counting
  PROVE  /\ KindsClaim /\ ChangesAreClaim /\ ChangedIsClaim /\ ChangedErrClaim
         /\ NextChangeClaim /\ MovedToClaim /\ HeadsClaim /\ MakesClaim
         /\ UndoTodoClaim /\ ReadsClaim /\ SizeIsClaim /\ ToChangeClaim
         /\ ToFailedClaim /\ LiftedClaim /\ PlainlyClaim /\ InCallClaim
         /\ CameClaim /\ WaitPhaseClaim
<1>TypesKept.
    ASSUME Types, NEW t \in program.threads, t \in Thread, NEW c, NEW q, Well(c, q), Goes(t, c, q),
           contab' \in Seq(Entry), TabType(fdtab'), open' \in [RP -> SUBSET Bit],
           UNCHANGED <<notice, program>>
    PROVE  Types' /\ call'[t] = c /\ serve'[t] = q
  <2> USE <1>TypesKept
  <2>1. call' \in [Thread -> Call] /\ serve' \in [Thread -> {NoRequest} \cup Request]
    BY DEF Goes, Types, Well
  <2>2. call'[t] = c /\ serve'[t] = q
    BY DEF Goes, Types
  <2>3. \A s \in Thread : s # t => call'[s] = call[s] /\ serve'[s] = serve[s]
    BY DEF Goes, Types
  <2>4. \A s \in Thread : Well(call'[s], serve'[s]) /\ (s \notin program'.threads => call'[s] = Out)
    BY <2>2, <2>3 DEF Types
  <2> QED
    BY <2>1, <2>2, <2>4 DEF Types
<1>Kinds. KindsClaim
  <2> SUFFICES
      ASSUME NEW c, NEW q, Well(c, q)
      PROVE  /\ c.pc = "out" => c = Out /\ q = NoRequest
             /\ c.pc \in {"alloc", "mode"} => c \in Asked /\ q = NoRequest
             /\ c.pc = "rp" => c \in Half /\ q = NoRequest
             /\ c.pc \in {"change", "get"} => c \in Changes /\ q = NoRequest
             /\ c.pc = "connect" => c \in Changes /\ q \in Request
             /\ c.pc \in {"out", "alloc", "mode", "rp", "change", "get", "connect"}
             /\ q.at # "none" => q \in Request /\ c.pc = "connect"
    BY DEF KindsClaim
  <2>1. c \in Call /\ q \in {NoRequest} \cup Request /\ (q.at # "none" <=> c.pc = "connect")
    BY DEF Well
  <2>2. q \in Request => q.at # "none"
    BY DEF Request
  <2>3. q \notin Request => q = NoRequest /\ q.at = "none"
    BY <2>1 DEF NoRequest
  <2>4. /\ c \in Asked => c.pc \in {"alloc", "mode"}
        /\ c \in Half => c.pc = "rp"
        /\ c \in Changes => c.pc \in {"change", "get", "connect"}
        /\ c = Out => c.pc = "out"
    BY DEF Asked, Half, Changes, Out
  <2> QED
    BY <2>1, <2>2, <2>3, <2>4 DEF Call
<1>ChangesAre. ChangesAreClaim
    BY SMTT(30) DEF ChangesAreClaim, Changes, Changed
<1>ChangedIs. ChangedIsClaim
    BY DEF ChangedIsClaim, Changed
<1>ChangedErr. ChangedErrClaim
    BY DEF ChangedErrClaim, Changed
<1>NextChange. NextChangeClaim
  <2> SUFFICES
      ASSUME NEW c \in Changes, NEW err \in BOOLEAN
      PROVE  Next_change(c, err) = Changed(c, "change", Tail(c.todo), c.err \/ err)
    BY DEF NextChangeClaim
  <2> DEFINE k == Tail(c.todo)
             e == c.err \/ err
             c1 == [c EXCEPT !.todo = k]
             c2 == [c1 EXCEPT !.err = e]
  <2>1. Next_change(c, err) = [c2 EXCEPT !.pc = "change"]
    BY DEF Next_change, Changes
  <2> HIDE DEF k, e
  <2>2. c1 = Changed(c, c.pc, k, c.err)
    BY SMTT(30) DEF Changes, Changed
  <2> HIDE DEF c1
  <2>3. c2 = Changed(c, c.pc, k, e)
    BY <2>2 DEF Changed
  <2> HIDE DEF c2
  <2>4. [c2 EXCEPT !.pc = "change"] = Changed(c, "change", k, e)
    BY <2>3 DEF Changed
  <2> QED
    BY <2>1, <2>4 DEF k, e
<1>MovedTo. MovedToClaim
  <2> SUFFICES
      ASSUME NEW t \in Thread, call \in [Thread -> Call], call[t] \in Changes, NEW pc,
             call' = [call EXCEPT ![t].pc = pc]
      PROVE  call' = [call EXCEPT ![t] = Changed(call[t], pc, call[t].todo, call[t].err)]
    BY DEF MovedToClaim
  <2>1. [call[t] EXCEPT !.pc = pc] = Changed(call[t], pc, call[t].todo, call[t].err)
    BY SMTT(30) DEF Changes, Changed
  <2>2. call' = [call EXCEPT ![t] = [call[t] EXCEPT !.pc = pc]]
    OBVIOUS
  <2> QED
    BY <2>1, <2>2
<1>Heads. HeadsClaim
    BY DEF HeadsClaim
<1>Makes. MakesClaim
    BY DEF MakesClaim, Add, Del, Change, Bit
<1>UndoTodo. UndoTodoClaim
  <2> SUFFICES
      ASSUME NEW todo \in Seq(Change), todo # <<>>
      PROVE  LET k == <<Del(Head(todo).rp, Head(todo).st)>> \o Tail(todo)
             IN k \in Seq(Change) /\ k # <<>> /\ Head(k) = Del(Head(todo).rp, Head(todo).st) /\ Tail(k) = Tail(todo)
    BY DEF UndoTodoClaim
  <2> DEFINE d == Del(Head(todo).rp, Head(todo).st)
             r == Tail(todo)
  <2>1. Head(todo) \in Change /\ r \in Seq(Change)
    BY <1>Heads DEF HeadsClaim
  <2>2. d \in Change
    BY <2>1, <1>Makes, SMTT(30) DEF MakesClaim, Change
  <2> HIDE DEF d, r
  <2>3. <<d>> \o r \in Seq(Change) /\ <<d>> \o r # <<>> /\ Head(<<d>> \o r) = d /\ Tail(<<d>> \o r) = r
    BY <2>1, <2>2
  <2> QED
    BY <2>3 DEF d, r
<1>Reads. ReadsClaim
  <2> SUFFICES
      ASSUME Types, NEW fd
      PROVE  fd_rp(fd) \in RP \cup {NULL} /\ fd_mode(fd) \in SUBSET Bit
    BY DEF ReadsClaim
  <2>1. PICK n \in Nat : fdtab \in [0..n - 1 -> Descriptor]
    BY DEF Types, TabType
  <2>2. DOMAIN fdtab = 0..n - 1 /\ \A i \in 0..n - 1 : fdtab[i].rp \in RP \cup {NULL} /\ fdtab[i].mode \in SUBSET Bit
    BY <2>1 DEF Descriptor
  <2> QED
    BY <2>2 DEF fd_rp, fd_mode
<1>SizeIs. SizeIsClaim
  <2> SUFFICES
      ASSUME NEW n \in Nat, fdtab \in [0..n - 1 -> Descriptor]
      PROVE  Size = n
    BY DEF SizeIsClaim
  <2>1. DOMAIN fdtab = 0..n - 1
    OBVIOUS
  <2>2. Cardinality(0..n - 1) = n
    BY DEF Counting, IntervalSize
  <2> QED
    BY <2>1, <2>2 DEF Size
<1>ToChange. ToChangeClaim
  <2> SUFFICES
      ASSUME NEW k \in Changes, NEW todo \in Seq(Change), NEW err \in BOOLEAN
      PROVE  Well(Changed(k, "change", todo, err), NoRequest)
    BY DEF ToChangeClaim
  <2> DEFINE c == Changed(k, "change", todo, err)
  <2>1. c \in Changes /\ c.pc = "change"
    BY DEF Changed, Changes
  <2> HIDE DEF c
  <2>2. Well(c, NoRequest)
    BY <2>1 DEF Well, Call, NoRequest
  <2> QED
    BY <2>2 DEF c
<1>ToFailed. ToFailedClaim
  <2> SUFFICES
      ASSUME NEW k \in Changes, NEW todo \in Seq(Change)
      PROVE  Well(Changed(k, "change", todo, TRUE), NoRequest)
    BY DEF ToFailedClaim
  <2>1. TRUE \in BOOLEAN
    OBVIOUS
  <2> QED
    BY <2>1, <1>ToChange, Zenon DEF ToChangeClaim
<1>Lifted. LiftedClaim
  <2> SUFFICES
      ASSUME Types, NEW t \in program.threads, t \in Thread, NEW c, NEW q, Well(c, q), Goes(t, c, q),
             contab' \in Seq(Entry), TabType(fdtab'), open' \in [RP -> SUBSET Bit], Same,
             up /\ One(t) => Real(c, q, contab', open')
      PROVE  Inv' /\ Types' /\ call'[t] = c /\ serve'[t] = q
    BY DEF LiftedClaim
  <2>1. Types' /\ call'[t] = c /\ serve'[t] = q
    BY <1>TypesKept DEF Same
  <2>2. ASSUME up', NEW s \in Thread, One(s)'
        PROVE  Real(call'[s], serve'[s], contab', open')
    <3>1. s = t /\ One(t) /\ up
      BY <2>2 DEF One, Same
    <3> QED
      BY <2>1, <3>1
  <2> QED
    BY <2>1, <2>2 DEF Inv
<1>Plainly. PlainlyClaim
  <2> SUFFICES
      ASSUME Inv, live, NEW t \in program.threads, t \in Thread, NEW c, Well(c, NoRequest), Goes(t, c, NoRequest),
             Same, UNCHANGED <<fdtab, contab, open>>,
             call[t].pc \in {"out", "alloc", "mode", "rp"}, c.pc \in {"out", "alloc", "mode", "rp", "change"}
      PROVE  Inv' /\ Types' /\ call'[t] = c /\ serve'[t] = NoRequest
    BY DEF PlainlyClaim
  <2>1. Types /\ contab' \in Seq(Entry) /\ TabType(fdtab') /\ open' \in [RP -> SUBSET Bit]
    BY DEF Inv, Types
  <2>2. ASSUME up, One(t) PROVE Real(c, NoRequest, contab', open')
    <3>1. Real(call[t], serve[t], contab, open)
      BY <2>2 DEF Inv
    <3>2. \A r \in RP : Agrees(contab', open', r)
      BY <3>1 DEF Real
    <3> QED
      BY <3>2 DEF Real
  <2> QED
    BY <2>1, <2>2, <1>Lifted DEF LiftedClaim
<1>InCall. InCallClaim
    BY SMTT(30) DEF InCallClaim, Types, Out
<1>Came. CameClaim
    BY DEF CameClaim, Types, Goes
<1>WaitPhase. WaitPhaseClaim
  <2> SUFFICES
      ASSUME NEW r \in RP, NEW tab, NEW f, Keep(tab, f, r), NEW k \in Changes, k.rp = r,
             k.mode = {} \/ "open" \in k.mode, NEW pc \in {"get", "connect"},
             k.err => BackWaits(k.todo, k.mode, tab, f, r),
             ~k.err => Waits(k.todo, k.mode, k.fd, tab, f, r)
      PROVE  Phase(Changed(k, pc, k.todo, k.err), tab, f, r)
    BY SMTT(30) DEF WaitPhaseClaim
  <2> DEFINE c == Changed(k, pc, k.todo, k.err)
  <2>1. c.pc = pc /\ c.todo = k.todo /\ c.fd = k.fd /\ c.rp = k.rp /\ c.mode = k.mode
    BY <1>ChangedIs, SMTT(30) DEF ChangedIsClaim
  <2>2. c.err = k.err
    BY <1>ChangedErr, SMTT(30) DEF ChangedErrClaim
  <2> HIDE DEF c
  <2>3. Phase(c, tab, f, r)
    BY <2>1, <2>2 DEF Phase
  <2> QED
    BY <2>3 DEF c
<1> QED
  BY <1>Kinds, <1>ChangesAre, <1>ChangedIs, <1>ChangedErr, <1>NextChange, <1>MovedTo, <1>Heads,
     <1>Makes, <1>UndoTodo, <1>Reads, <1>SizeIs, <1>ToChange, <1>ToFailed, <1>Lifted,
     <1>Plainly, <1>InCall, <1>Came, <1>WaitPhase

-----------------------------------------------------------------------------
(* The steps of a call, in their order.                                    *)

(* The calls and the reads that come before the changes.                   *)
AskInvClaim ==
  \A t \in Thread, op \in {"ropen", "close"}, fd \in Int, rp \in RP \cup {NULL}, mode \in SUBSET Bit :
    /\ Inv
    /\ live
    /\ op = "ropen" => rp \in RP
    /\ Called(t, op, fd, rp, mode)
    => Inv'

AskPhaseClaim ==
  \A t \in Thread, r \in RP, op \in {"ropen", "close"}, fd \in Int, rp \in RP \cup {NULL}, mode \in SUBSET Bit :
    /\ Kept
    /\ Types
    /\ Phase(call[t], contab, fdtab, r)
    /\ op = "ropen" => rp \in RP
    /\ Called(t, op, fd, rp, mode)
    /\ op = "ropen" => rp = r /\ "open" \in mode /\ (InUse(fd) => mode \ {"open"} \subseteq Access[r])
    => Phase(call'[t], contab', fdtab', r)

(* A call begins.                                                          *)
LEMMA Asking ==
  ASSUME Counting
  PROVE  /\ AskInvClaim /\ AskPhaseClaim
<1>CalledStep.
    ASSUME Types, NEW t \in Thread, NEW op \in {"ropen", "close"}, NEW fd \in Int, NEW rp \in RP \cup {NULL},
           NEW mode \in SUBSET Bit, op = "ropen" => rp \in RP, Called(t, op, fd, rp, mode)
    PROVE  LET c == [pc |-> IF fd < 0 THEN "alloc" ELSE "mode", op |-> op, fd |-> fd, rp |-> rp, mode |-> mode]
           IN /\ t \in program.threads /\ call[t] = Out /\ serve[t] = NoRequest
              /\ Well(c, NoRequest) /\ Goes(t, c, NoRequest)
              /\ Same /\ UNCHANGED <<fdtab, contab, open>>
  <2> USE <1>CalledStep
  <2> DEFINE c == [pc |-> IF fd < 0 THEN "alloc" ELSE "mode", op |-> op, fd |-> fd, rp |-> rp, mode |-> mode]
  <2>1. /\ t \in program.threads /\ call[t].pc = "out" /\ call' = [call EXCEPT ![t] = c]
        /\ Same /\ UNCHANGED <<fdtab, contab, open, serve>>
    BY DEF Called, Calls, Same, server
  <2>2. call[t] = Out /\ serve[t] = NoRequest
    BY <2>1, Moves DEF KindsClaim, Types
  <2>3. serve' = [serve EXCEPT ![t] = NoRequest]
    BY <2>1, <2>2 DEF Types
  <2>4. c \in Asked
    BY DEF Asked
  <2>5. c.pc \in {"alloc", "mode"} /\ c.rp = rp /\ c.op = op /\ (c.pc = "mode" => c.fd \in Nat)
    OBVIOUS
  <2> HIDE DEF c
  <2>6. Well(c, NoRequest)
    BY <2>4, <2>5 DEF Well, Call, NoRequest
  <2> QED
    BY <2>1, <2>2, <2>3, <2>6 DEF Goes, c
<1>AskInv. AskInvClaim
  <2> SUFFICES
      ASSUME Inv, live, NEW t \in Thread, NEW op \in {"ropen", "close"}, NEW fd \in Int, NEW rp \in RP \cup {NULL},
             NEW mode \in SUBSET Bit, op = "ropen" => rp \in RP, Called(t, op, fd, rp, mode)
      PROVE  Inv'
    BY DEF AskInvClaim
  <2> DEFINE c == [pc |-> IF fd < 0 THEN "alloc" ELSE "mode", op |-> op, fd |-> fd, rp |-> rp, mode |-> mode]
  <2>1. Types
    BY DEF Inv
  <2>2. /\ t \in program.threads /\ call[t] = Out
        /\ Well(c, NoRequest) /\ Goes(t, c, NoRequest)
        /\ Same /\ UNCHANGED <<fdtab, contab, open>>
    BY <2>1, <1>CalledStep
  <2>3. c.pc \in {"alloc", "mode"} /\ call[t].pc = "out"
    BY <2>2 DEF Out
  <2> HIDE DEF c
  <2> QED
    BY <2>2, <2>3, Moves DEF PlainlyClaim
<1>AskPhase. AskPhaseClaim
  <2> SUFFICES
      ASSUME Kept, Types, NEW t \in Thread, NEW r \in RP, Phase(call[t], contab, fdtab, r),
             NEW op \in {"ropen", "close"}, NEW fd \in Int, NEW rp \in RP \cup {NULL},
             NEW mode \in SUBSET Bit, op = "ropen" => rp \in RP, Called(t, op, fd, rp, mode),
             op = "ropen" => rp = r /\ "open" \in mode /\ (InUse(fd) => mode \ {"open"} \subseteq Access[r])
      PROVE  Phase(call'[t], contab', fdtab', r)
    BY SMTT(30) DEF AskPhaseClaim
  <2> DEFINE c == [pc |-> IF fd < 0 THEN "alloc" ELSE "mode", op |-> op, fd |-> fd, rp |-> rp, mode |-> mode]
  <2>1. call'[t] = c /\ call[t].pc = "out" /\ UNCHANGED <<fdtab, contab>>
    BY <1>CalledStep, Moves, SMTT(30) DEF CameClaim, Out
  <2>2. Keep(contab, fdtab, r) /\ Held(contab, All(fdtab), r)
    BY <2>1 DEF Phase
  <2>3. c.pc \in {"alloc", "mode"} /\ c.op = op /\ c.fd = fd /\ c.rp = rp /\ c.mode = mode
    OBVIOUS
  <2>4. ~Closed(fd)
    BY DEF Called, Kept
  <2>5. Aims(op, mode, fd, fdtab, r)
    <3>1. r # NULL
      BY SessionAssumption
    <3>2. RpOf(fdtab, fd) = r => ModeOf(fdtab, fd) # {}
      BY <2>4, <3>1 DEF Closed, fd_rp, fd_mode, RpOf, ModeOf
    <3>3. ModeOf(fdtab, fd) # {} => InUse(fd)
      BY <2>2, <3>1 DEF Keep, Files, InUse, fd_rp, fd_mode, ModeOf
    <3> QED
      BY <3>2, <3>3 DEF Aims
  <2> HIDE DEF c
  <2>6. Phase(c, contab, fdtab, r)
    BY <2>2, <2>3, <2>5 DEF Phase
  <2> QED
    BY <2>1, <2>6
<1> QED
  BY <1>AskInv, <1>AskPhase

AllocInvClaim ==
  \A t \in Thread :
    /\ Inv
    /\ live
    /\ ropen_alloc(t)
    => Inv'

AllocPhaseClaim ==
  \A t \in Thread, r \in RP :
    /\ Types
    /\ Phase(call[t], contab, fdtab, r)
    /\ ropen_alloc(t)
    => Phase(call'[t], contab', fdtab', r)

(* ropen() takes a free descriptor.                                        *)
LEMMA Allocating ==
  ASSUME Counting
  PROVE  /\ AllocInvClaim /\ AllocPhaseClaim
<1>Allocs. ASSUME Types PROVE fd_alloc \in Nat
  <2> USE <1>Allocs
  <2>1. PICK n \in Nat : fdtab \in [0..n - 1 -> Descriptor]
    BY DEF Types, TabType
  <2>2. Size = n
    BY <2>1, Moves DEF SizeIsClaim
  <2> DEFINE free == {fd \in Low..Size - 1 : fdtab[fd].rp = NULL}
  <2>3. free \in SUBSET Nat
    BY <2>2, SessionAssumption, SMTT(30)
  <2>4. free # {} => Least(free) \in free
    BY <2>3, Tables DEF LeastIsClaim
  <2>5. fd_alloc = IF free # {} THEN Least(free) ELSE IF Size < Low THEN Low ELSE Size
    BY DEF fd_alloc
  <2> HIDE DEF free
  <2> QED
    BY <2>2, <2>3, <2>4, <2>5, SessionAssumption
<1>AllocStep.
    ASSUME Types, NEW t \in Thread, ropen_alloc(t)
    PROVE  LET c == [pc |-> "mode", op |-> call[t].op, fd |-> fd_alloc, rp |-> call[t].rp, mode |-> call[t].mode]
           IN /\ call[t].pc = "alloc" /\ call[t] \in Asked /\ serve[t] = NoRequest
              /\ Well(c, NoRequest) /\ Goes(t, c, NoRequest)
              /\ Same /\ UNCHANGED <<fdtab, contab, open>>
  <2> USE <1>AllocStep
  <2> DEFINE c == [pc |-> "mode", op |-> call[t].op, fd |-> fd_alloc, rp |-> call[t].rp, mode |-> call[t].mode]
             a == fd_alloc
  <2>1. /\ call[t].pc = "alloc" /\ call' = [call EXCEPT ![t].fd = a, ![t].pc = "mode"]
        /\ Same /\ UNCHANGED <<fdtab, contab, open, serve>>
    BY DEF ropen_alloc, Same, server
  <2>2. call[t] \in Asked /\ serve[t] = NoRequest /\ Well(call[t], serve[t])
    BY <2>1, Moves DEF KindsClaim, Types
  <2>3. serve' = [serve EXCEPT ![t] = NoRequest]
    BY <2>1, <2>2 DEF Types
  <2>4. a \in Nat
    BY <1>Allocs
  <2> HIDE DEF a
  <2>5. c \in Asked
    BY <2>2, <2>4, SMTT(30) DEF Asked, a
  <2>6. call' = [call EXCEPT ![t] = c]
    <3> DEFINE d == [call[t] EXCEPT !.fd = a]
    <3>1. call' = [call EXCEPT ![t] = [d EXCEPT !.pc = "mode"]]
      BY <2>1 DEF Types
    <3>2. d = [pc |-> call[t].pc, op |-> call[t].op, fd |-> a, rp |-> call[t].rp, mode |-> call[t].mode]
      BY <2>2, SMTT(30) DEF Asked
    <3> HIDE DEF d
    <3>3. [d EXCEPT !.pc = "mode"] = c
      BY <3>2 DEF a
    <3> QED
      BY <3>1, <3>3
  <2>7. c.pc = "mode" /\ c.rp = call[t].rp /\ c.op = call[t].op /\ c.fd \in Nat
    BY <2>4 DEF a
  <2> HIDE DEF c
  <2>8. Well(c, NoRequest)
    BY <2>1, <2>2, <2>5, <2>7 DEF Well, Call, NoRequest
  <2> QED
    BY <2>1, <2>2, <2>3, <2>6, <2>8 DEF Goes, c
<1>AllocInv. AllocInvClaim
  <2> SUFFICES
      ASSUME Inv, live, NEW t \in Thread, ropen_alloc(t)
      PROVE  Inv'
    BY DEF AllocInvClaim
  <2> DEFINE c == [pc |-> "mode", op |-> call[t].op, fd |-> fd_alloc, rp |-> call[t].rp, mode |-> call[t].mode]
  <2>1. Types
    BY DEF Inv
  <2>2. /\ call[t].pc = "alloc" /\ Well(c, NoRequest) /\ Goes(t, c, NoRequest)
        /\ Same /\ UNCHANGED <<fdtab, contab, open>>
    BY <2>1, <1>AllocStep
  <2>3. c.pc = "mode" /\ t \in program.threads
    BY <2>1, <2>2, Moves DEF InCallClaim
  <2> HIDE DEF c
  <2> QED
    BY <2>2, <2>3, Moves DEF PlainlyClaim
<1>AllocFree.
    ASSUME Types
    PROVE  RpOf(fdtab, fd_alloc) = NULL
  <2> USE <1>AllocFree
  <2>1. PICK n \in Nat : fdtab \in [0..n - 1 -> Descriptor]
    BY DEF Types, TabType
  <2>2. Size = n /\ DOMAIN fdtab = 0..n - 1
    BY <2>1, Moves DEF SizeIsClaim
  <2> DEFINE free == {fd \in Low..Size - 1 : fdtab[fd].rp = NULL}
  <2>3. free \in SUBSET Nat
    BY <2>2, SessionAssumption, SMTT(30)
  <2>4. free # {} => Least(free) \in free
    BY <2>3, Tables DEF LeastIsClaim
  <2>5. fd_alloc = IF free # {} THEN Least(free) ELSE IF Size < Low THEN Low ELSE Size
    BY DEF fd_alloc
  <2>6. free # {} => fdtab[Least(free)].rp = NULL
    BY <2>4
  <2> HIDE DEF free
  <2> QED
    BY <2>2, <2>5, <2>6, SessionAssumption, SMTT(30) DEF RpOf
<1>AllocPhase. AllocPhaseClaim
  <2> SUFFICES
      ASSUME Types, NEW t \in Thread, NEW r \in RP, Phase(call[t], contab, fdtab, r), ropen_alloc(t)
      PROVE  Phase(call'[t], contab', fdtab', r)
    BY DEF AllocPhaseClaim
  <2> DEFINE k == call[t]
             c == [pc |-> "mode", op |-> k.op, fd |-> fd_alloc, rp |-> k.rp, mode |-> k.mode]
  <2>1. call'[t] = c /\ k.pc = "alloc" /\ UNCHANGED <<fdtab, contab>>
    BY <1>AllocStep, Moves DEF CameClaim
  <2>2. /\ Keep(contab, fdtab, r) /\ Held(contab, All(fdtab), r)
        /\ k.op = "ropen" => k.rp = r /\ "open" \in k.mode
    BY <2>1 DEF Phase
  <2>3. c.pc = "mode" /\ c.op = k.op /\ c.fd = fd_alloc /\ c.rp = k.rp /\ c.mode = k.mode
    OBVIOUS
  <2>4. Aims(k.op, k.mode, fd_alloc, fdtab, r)
    <3>1. RpOf(fdtab, fd_alloc) = NULL /\ r # NULL
      BY <1>AllocFree, SessionAssumption
    <3>2. ModeOf(fdtab, fd_alloc) = {}
      BY <2>2, <3>1 DEF Keep, Files, RpOf, ModeOf
    <3> QED
      BY <3>1, <3>2 DEF Aims
  <2> HIDE DEF c, k
  <2>5. Phase(c, contab, fdtab, r)
    BY <2>2, <2>3, <2>4 DEF Phase
  <2> QED
    BY <2>1, <2>5
<1> QED
  BY <1>AllocInv, <1>AllocPhase

ModeInvClaim ==
  \A t \in Thread :
    /\ Inv
    /\ live
    /\ read_mode(t)
    => Inv'

ModePhaseClaim ==
  \A t \in Thread, r \in RP :
    /\ Types
    /\ Phase(call[t], contab, fdtab, r)
    /\ read_mode(t)
    => Phase(call'[t], contab', fdtab', r)

(* A call reads the old mode.                                              *)
LEMMA Reading ==
  ASSUME Counting
  PROVE  /\ ModeInvClaim /\ ModePhaseClaim
<1>ModeStep.
    ASSUME Types, NEW t \in Thread, read_mode(t)
    PROVE  LET k == call[t]
               c == [pc |-> "rp", op |-> k.op, fd |-> k.fd, rp |-> k.rp, mode |-> k.mode, old |-> fd_mode(k.fd)]
           IN /\ k.pc = "mode" /\ k \in Asked /\ serve[t] = NoRequest
              /\ Well(c, NoRequest) /\ Goes(t, c, NoRequest)
              /\ Same /\ UNCHANGED <<fdtab, contab, open>>
  <2> USE <1>ModeStep
  <2> DEFINE k == call[t]
             c == [pc |-> "rp", op |-> k.op, fd |-> k.fd, rp |-> k.rp, mode |-> k.mode, old |-> fd_mode(k.fd)]
  <2>1. /\ k.pc = "mode" /\ call' = [call EXCEPT ![t] = c]
        /\ Same /\ UNCHANGED <<fdtab, contab, open, serve>>
    BY DEF read_mode, Same, server, Types
  <2>2. k \in Asked /\ serve[t] = NoRequest /\ Well(k, serve[t])
    BY <2>1, Moves DEF KindsClaim, Types
  <2>3. serve' = [serve EXCEPT ![t] = NoRequest]
    BY <2>1, <2>2 DEF Types
  <2>4. fd_mode(k.fd) \in SUBSET Bit
    BY Moves DEF ReadsClaim
  <2>5. c \in Half
    BY <2>1, <2>2, <2>4 DEF Asked, Half, Well
  <2>6. c.pc = "rp" /\ c.rp = k.rp /\ c.op = k.op
    OBVIOUS
  <2> HIDE DEF c
  <2>7. Well(c, NoRequest)
    BY <2>1, <2>2, <2>5, <2>6 DEF Well, Call, NoRequest
  <2> QED
    BY <2>1, <2>2, <2>3, <2>7 DEF Goes, c
<1>ModeInv. ModeInvClaim
  <2> SUFFICES
      ASSUME Inv, live, NEW t \in Thread, read_mode(t)
      PROVE  Inv'
    BY DEF ModeInvClaim
  <2> DEFINE k == call[t]
             c == [pc |-> "rp", op |-> k.op, fd |-> k.fd, rp |-> k.rp, mode |-> k.mode, old |-> fd_mode(k.fd)]
  <2>1. Types
    BY DEF Inv
  <2>2. /\ k.pc = "mode" /\ Well(c, NoRequest) /\ Goes(t, c, NoRequest)
        /\ Same /\ UNCHANGED <<fdtab, contab, open>>
    BY <2>1, <1>ModeStep
  <2>3. c.pc = "rp" /\ t \in program.threads
    BY <2>1, <2>2, Moves DEF InCallClaim
  <2> HIDE DEF c
  <2> QED
    BY <2>2, <2>3, Moves DEF PlainlyClaim
<1>ModePhase. ModePhaseClaim
  <2> SUFFICES
      ASSUME Types, NEW t \in Thread, NEW r \in RP, Phase(call[t], contab, fdtab, r), read_mode(t)
      PROVE  Phase(call'[t], contab', fdtab', r)
    BY DEF ModePhaseClaim
  <2> DEFINE k == call[t]
             c == [pc |-> "rp", op |-> k.op, fd |-> k.fd, rp |-> k.rp, mode |-> k.mode, old |-> fd_mode(k.fd)]
  <2>1. call'[t] = c /\ k.pc = "mode" /\ UNCHANGED <<fdtab, contab>>
    BY <1>ModeStep, Moves DEF CameClaim
  <2>2. /\ Keep(contab, fdtab, r) /\ Held(contab, All(fdtab), r) /\ Aims(k.op, k.mode, k.fd, fdtab, r)
        /\ k.op = "ropen" => k.rp = r /\ "open" \in k.mode
    BY <2>1 DEF Phase
  <2>3. /\ c.pc = "rp" /\ c.op = k.op /\ c.fd = k.fd /\ c.rp = k.rp /\ c.mode = k.mode
        /\ c.old = ModeOf(fdtab, k.fd)
    BY DEF fd_mode, ModeOf
  <2> HIDE DEF c, k
  <2>4. Phase(c, contab, fdtab, r)
    BY <2>2, <2>3 DEF Phase
  <2> QED
    BY <2>1, <2>4
<1> QED
  BY <1>ModeInv, <1>ModePhase

=============================================================================
