---------------------------- MODULE SessionSteps ----------------------------
(***************************************************************************)
(* The steps of a call that change the table of connections, tell the      *)
(* server, and set the descriptor keep the invariants Inv and Cover.       *)
(***************************************************************************)
EXTENDS SessionLemmas

(* The time, in seconds, that each prover has for a leaf.                  *)
USE ZenonT(4), SMTT(20), ZenonT(30)

RpInvClaim ==
  \A t \in Thread :
    /\ Inv
    /\ live
    /\ read_rp(t)
    => Inv'

RpPhaseClaim ==
  \A t \in Thread, r \in RP :
    /\ Types
    /\ Phase(call[t], contab, fdtab, r)
    /\ read_rp(t)
    => Phase(call'[t], contab', fdtab', r)

(* A call reads the old resource and knows the changes it has to make.     *)
LEMMA Starting ==
  ASSUME Counting
  PROVE  /\ RpInvClaim /\ RpPhaseClaim
<1>ChangingType.
    ASSUME NEW todo \in Seq(Change), NEW fd \in Nat, NEW rp \in RP, NEW mode \in SUBSET Bit
    PROVE  /\ Changing(todo, fd, rp, mode) \in Changes /\ Changing(todo, fd, rp, mode).pc = "change"
           /\ Changing(todo, fd, rp, mode).todo = todo /\ Changing(todo, fd, rp, mode).fd = fd
           /\ Changing(todo, fd, rp, mode).rp = rp /\ Changing(todo, fd, rp, mode).mode = mode
  <2> USE <1>ChangingType
  <2>1. ASSUME NEW y \in BOOLEAN
        PROVE  LET c == [pc |-> "change", todo |-> todo, fd |-> fd, rp |-> rp, mode |-> mode, err |-> y]
               IN c \in Changes /\ c.pc = "change" /\ c.todo = todo /\ c.fd = fd /\ c.rp = rp /\ c.mode = mode
    BY DEF Changes
  <2> QED
    BY <2>1, Zenon DEF Changing
<1>ChangingErr. ASSUME NEW todo, NEW fd, NEW rp, NEW mode PROVE ~Changing(todo, fd, rp, mode).err
    BY <1>ChangingErr DEF Changing
<1>RopenChanges.
    ASSUME NEW k \in Half, k.rp \in RP, NEW old \in RP \cup {NULL}
    PROVE  ropen_changes(k, old) \in Seq(Change) /\ ropen_changes(k, old) # <<>> /\ Head(ropen_changes(k, old)).op = "add"
  <2> USE <1>RopenChanges
  <2>1. k.mode \in SUBSET Bit /\ k.old \in SUBSET Bit
    BY DEF Half
  <2>2. Add(k.rp, k.mode) \in Change /\ Add(k.rp, k.mode).op = "add" /\ Del(k.rp, k.old \ k.mode) \in Change
    BY <2>1, Moves DEF MakesClaim
  <2>3. old # NULL => Del(old, k.old) \in Change
    BY <2>1, Moves DEF MakesClaim
  <2>4. \A a, b \in Change : /\ <<a, b>> \in Seq(Change) /\ <<a, b>> # <<>> /\ Head(<<a, b>>) = a
                             /\ <<a>> \in Seq(Change) /\ <<a>> # <<>> /\ Head(<<a>>) = a
    OBVIOUS
  <2> QED
    BY <2>2, <2>3, <2>4 DEF ropen_changes
<1>RpStep.
    ASSUME Types, NEW t \in Thread, read_rp(t)
    PROVE  LET c == RpNext(call[t], fd_rp(call[t].fd))
           IN /\ call[t].pc = "rp" /\ call[t] \in Half /\ serve[t] = NoRequest
              /\ Well(c, NoRequest) /\ c.pc \in {"out", "change"} /\ Goes(t, c, NoRequest)
              /\ Same /\ UNCHANGED <<fdtab, contab, open>>
  <2> USE <1>RpStep
  <2> DEFINE k == call[t]
             old == fd_rp(k.fd)
             c == RpNext(k, old)
  <2>1. /\ k.pc = "rp" /\ call' = [call EXCEPT ![t] = c]
        /\ Same /\ UNCHANGED <<fdtab, contab, open, serve>>
    BY DEF read_rp, Same, server, RpNext
  <2>2. k \in Half /\ serve[t] = NoRequest /\ Well(k, serve[t])
    BY <2>1, Moves DEF KindsClaim, Types
  <2>3. serve' = [serve EXCEPT ![t] = NoRequest]
    BY <2>1, <2>2 DEF Types
  <2>4. old \in RP \cup {NULL}
    BY Moves DEF ReadsClaim
  <2>5. k.op = "ropen" => k.rp \in RP
    BY <2>1, <2>2 DEF Well
  <2> HIDE DEF k, old
  <2>6. k.fd \in Nat /\ k.mode \in SUBSET Bit /\ k.old \in SUBSET Bit /\ k.op \in {"ropen", "close"}
    BY <2>2 DEF Half
  <2>7. c = Out \/ (c \in Changes /\ c.pc = "change")
    <3>1. CASE k.op = "ropen"
      <4>1. ropen_changes(k, old) \in Seq(Change)
        BY <2>2, <2>4, <2>5, <3>1, <1>RopenChanges
      <4>2. c = Changing(ropen_changes(k, old), k.fd, k.rp, k.mode)
        BY <3>1 DEF RpNext
      <4>3. Changing(ropen_changes(k, old), k.fd, k.rp, k.mode) \in Changes
            /\ Changing(ropen_changes(k, old), k.fd, k.rp, k.mode).pc = "change"
        BY <2>5, <2>6, <3>1, <4>1, <1>ChangingType, SMTT(30)
      <4> QED
        BY <4>2, <4>3
    <3>2. CASE k.op = "close" /\ old = NULL
      BY <3>2 DEF RpNext
    <3>3. CASE k.op = "close" /\ old # NULL
      <4>1. Del(old, k.old) \in Change
        BY <2>4, <2>6, <3>3, Moves DEF MakesClaim
      <4>2. <<Del(old, k.old)>> \in Seq(Change) /\ {} \in SUBSET Bit /\ old \in RP
        BY <2>4, <3>3, <4>1
      <4>3. c = Changing(<<Del(old, k.old)>>, k.fd, old, {})
        BY <3>3 DEF RpNext
      <4>4. Changing(<<Del(old, k.old)>>, k.fd, old, {}) \in Changes
            /\ Changing(<<Del(old, k.old)>>, k.fd, old, {}).pc = "change"
        <5> DEFINE w == <<Del(old, k.old)>>
                   m == {}
        <5>1. w \in Seq(Change) /\ m \in SUBSET Bit
          BY <4>2
        <5> HIDE DEF w, m
        <5>2. Changing(w, k.fd, old, m) \in Changes /\ Changing(w, k.fd, old, m).pc = "change"
          BY <2>6, <4>2, <5>1, <1>ChangingType, SMTT(30)
        <5> QED
          BY <5>2 DEF w, m
      <4> QED
        BY <4>3, <4>4
    <3> QED
      BY <2>6, <3>1, <3>2, <3>3
  <2> HIDE DEF c
  <2>8. Out.pc = "out"
    BY DEF Out
  <2>9. Well(c, NoRequest)
    BY <2>7, <2>8 DEF Well, Call, NoRequest
  <2> QED
    BY <2>1, <2>2, <2>3, <2>7, <2>8, <2>9 DEF Goes, c, k, old
<1>RpInv. RpInvClaim
  <2> SUFFICES
      ASSUME Inv, live, NEW t \in Thread, read_rp(t)
      PROVE  Inv'
    BY DEF RpInvClaim
  <2> DEFINE c == RpNext(call[t], fd_rp(call[t].fd))
  <2>1. Types
    BY DEF Inv
  <2>2. /\ call[t].pc = "rp" /\ Well(c, NoRequest) /\ c.pc \in {"out", "change"} /\ Goes(t, c, NoRequest)
        /\ Same /\ UNCHANGED <<fdtab, contab, open>>
    BY <2>1, <1>RpStep
  <2>3. t \in program.threads
    BY <2>1, <2>2, Moves DEF InCallClaim
  <2> HIDE DEF c
  <2> QED
    BY <2>2, <2>3, Moves DEF PlainlyClaim
<1>BothNone.
    ASSUME NEW f, TabType(f)
    PROVE  Both(f, {}) = All(f)
  <2> USE <1>BothNone
  <2> DEFINE D == All(f)
             none == {}
             D1 == Both(f, none)
  <2>1. D \in [Bit -> Int] /\ D1 \in [Bit -> Int] /\ \A b \in Bit : D1[b] = D[b] + Is(b, none) /\ D[b] \in Nat
    BY Counts DEF AllTypeClaim, BothTypeClaim
  <2>2. \A b \in Bit : Is(b, none) = 0
    BY DEF Is
  <2> HIDE DEF D, D1, none
  <2>3. \A b \in Bit : D1[b] = D[b]
    BY <2>1, <2>2, SMTT(30)
  <2>4. D1 = D
    BY <2>1, <2>3
  <2> QED
    BY <2>4 DEF D, D1, none
(* A call that begins to make its changes.                                 *)
<1>BeginPhase.
    ASSUME NEW r \in RP, NEW tab, NEW f, Keep(tab, f, r), NEW todo \in Seq(Change), NEW fd \in Nat,
           NEW mode \in SUBSET Bit, mode = {} \/ "open" \in mode, Plan(todo, mode, fd, tab, f, r)
    PROVE  Phase(Changing(todo, fd, r, mode), tab, f, r)
  <2> USE <1>BeginPhase
  <2> DEFINE c == Changing(todo, fd, r, mode)
  <2>1. c.pc = "change" /\ c.todo = todo /\ c.fd = fd /\ c.rp = r /\ c.mode = mode
    BY <1>ChangingType, SMTT(30)
  <2>2. ~c.err
    BY <1>ChangingErr
  <2> HIDE DEF c
  <2>3. Phase(c, tab, f, r)
    BY <2>1, <2>2 DEF Phase
  <2> QED
    BY <2>3 DEF c
<1>RpPhase. RpPhaseClaim
  <2> SUFFICES
      ASSUME Types, NEW t \in Thread, NEW r \in RP, Phase(call[t], contab, fdtab, r), read_rp(t)
      PROVE  Phase(call'[t], contab', fdtab', r)
    BY DEF RpPhaseClaim
  <2> DEFINE k == call[t]
             old == fd_rp(k.fd)
             c == RpNext(k, old)
             m == ModeOf(fdtab, k.fd)
  <2>1. call'[t] = c /\ k.pc = "rp" /\ k \in Half /\ UNCHANGED <<fdtab, contab>>
    BY <1>RpStep, Moves DEF CameClaim
  <2>2. /\ Keep(contab, fdtab, r) /\ Held(contab, All(fdtab), r) /\ Aims(k.op, k.mode, k.fd, fdtab, r)
        /\ k.op = "ropen" => k.rp = r /\ "open" \in k.mode
        /\ k.old = m
    BY <2>1 DEF Phase
  <2>3. k.fd \in Nat /\ k.mode \in SUBSET Bit /\ m \in SUBSET Bit /\ k.op \in {"ropen", "close"}
    BY <2>1, <2>2 DEF Half
  <2>4. old = RpOf(fdtab, k.fd) /\ r # NULL
    BY SessionAssumption DEF fd_rp, RpOf
  <2>5. old \in {r, NULL} /\ (old = r => m # {}) /\ (old = NULL => m = {})
    BY <2>2, <2>4, SMTT(30) DEF Keep, Files, RpOf, ModeOf, Aims
  <2>6. TabType(fdtab)
    BY DEF Types
  <2> DEFINE a == Add(r, k.mode)
             d == Old(fdtab, k.fd, k.mode, r)
  <2>7. a \in Change /\ d \in Change /\ d = Del(r, m \ k.mode)
    <3>1. m \ k.mode \in SUBSET Bit
      BY <2>3
    <3> QED
      BY <2>3, <3>1, Moves DEF MakesClaim, Old
  <2>8. CASE k.op = "ropen"
    <3>1. k.rp = r /\ "open" \in k.mode /\ k.mode # {}
      BY <2>2, <2>8
    <3>2. c = Changing(ropen_changes(k, old), k.fd, r, k.mode)
      BY <2>8, <3>1 DEF RpNext
    <3>3. CASE old = r
      <4>1. ropen_changes(k, old) = <<a, d>>
        BY <2>2, <2>4, <2>7, <3>1, <3>3 DEF ropen_changes
      <4>2. k.mode \ {"open"} \subseteq Access[r]
        BY <2>2, <2>5, <2>8, <3>3 DEF Aims
      <4>3. <<a, d>> \in Seq(Change) /\ Plan(<<a, d>>, k.mode, k.fd, contab, fdtab, r)
        BY <2>2, <2>5, <2>7, <3>1, <3>3, <4>2 DEF Plan
      <4> HIDE DEF a, d
      <4> DEFINE l == <<a, d>>
      <4>4. l \in Seq(Change) /\ Plan(l, k.mode, k.fd, contab, fdtab, r)
        BY <4>3
      <4>5. c = Changing(l, k.fd, r, k.mode)
        BY <3>2, <4>1
      <4> HIDE DEF l, k, c, old, m
      <4>6. Phase(Changing(l, k.fd, r, k.mode), contab, fdtab, r)
        BY <2>2, <2>3, <3>1, <4>4, <1>BeginPhase
      <4> QED
        BY <2>1, <4>5, <4>6
    <3>4. CASE old = NULL
      <4>1. ropen_changes(k, old) = <<a>>
        BY <2>4, <3>1, <3>4 DEF ropen_changes
      <4>3. <<a>> \in Seq(Change) /\ Plan(<<a>>, k.mode, k.fd, contab, fdtab, r)
        BY <2>2, <2>5, <2>7, <3>1, <3>4, SMTT(30) DEF Plan
      <4> HIDE DEF a, d
      <4> DEFINE l == <<a>>
      <4>4. l \in Seq(Change) /\ Plan(l, k.mode, k.fd, contab, fdtab, r)
        BY <4>3
      <4>5. c = Changing(l, k.fd, r, k.mode)
        BY <3>2, <4>1
      <4> HIDE DEF l, k, c, old, m
      <4>6. Phase(Changing(l, k.fd, r, k.mode), contab, fdtab, r)
        BY <2>2, <2>3, <3>1, <4>4, <1>BeginPhase
      <4> QED
        BY <2>1, <4>5, <4>6
    <3> QED
      BY <2>5, <3>3, <3>4
  <2>9. CASE k.op = "close" /\ old = NULL
    <3>1. c = Out
      BY <2>9 DEF RpNext
    <3>2. Phase(Out, contab, fdtab, r)
      BY <2>2 DEF Phase, Out
    <3> QED
      BY <2>1, <3>1, <3>2
  <2>10. CASE k.op = "close" /\ old = r
    <3> DEFINE none == {}
               l == <<Del(r, m)>>
               o == Old(fdtab, k.fd, none, r)
    <3>1. c = Changing(l, k.fd, r, none)
      BY <2>2, <2>4, <2>10 DEF RpNext
    <3>2. m \ none = m
      OBVIOUS
    <3>3. o = Del(r, m) /\ Del(r, m) \in Change
      BY <2>3, <3>2, Moves DEF MakesClaim, Old
    <3>4. l = <<o>> /\ l \in Seq(Change)
      BY <3>3
    <3>5. Held(contab, Both(fdtab, none), r)
      BY <2>2, <2>6, <1>BothNone
    <3>6. none \in SUBSET Bit /\ none = {}
      OBVIOUS
    <3> HIDE DEF l, o, none
    <3>7. Plan(l, none, k.fd, contab, fdtab, r)
      BY <2>5, <2>10, <3>4, <3>5 DEF Plan, o
    <3> HIDE DEF k, c, old, m
    <3>8. Phase(Changing(l, k.fd, r, none), contab, fdtab, r)
      BY <2>2, <2>3, <3>4, <3>6, <3>7, <1>BeginPhase
    <3> QED
      BY <2>1, <3>1, <3>8
  <2> QED
    BY <2>3, <2>5, <2>8, <2>9, <2>10
<1> QED
  BY <1>RpInv, <1>RpPhase

ChangeInvClaim ==
  \A t \in Thread :
    /\ Inv
    /\ live
    /\ rp_change(t)
    => Inv'

ChangePhaseClaim ==
  \A t \in Thread, r \in RP :
    /\ Types
    /\ Phase(call[t], contab, fdtab, r)
    /\ rp_change(t)
    => Phase(call'[t], contab', fdtab', r)

(* A change is made to the table.                                          *)
LEMMA Altering ==
  ASSUME Counting
  PROVE  /\ ChangeInvClaim /\ ChangePhaseClaim
<1>ToGet.
    ASSUME NEW k \in Changes, k.todo # <<>>
    PROVE  Well(Changed(k, "get", k.todo, k.err), NoRequest)
  <2> USE <1>ToGet
  <2> DEFINE c == Changed(k, "get", k.todo, k.err)
  <2>1. c \in Changes /\ c.pc = "get" /\ c.todo # <<>>
    BY DEF Changed, Changes
  <2> HIDE DEF c
  <2>2. Well(c, NoRequest)
    BY <2>1 DEF Well, Call, NoRequest
  <2> QED
    BY <2>2 DEF c
(* A change of the table of connections.                                   *)
<1>ChangeStep.
    ASSUME Types, NEW t \in Thread, rp_change(t)
    PROVE  LET k == call[t]
               e == Head(k.todo)
               none == e.op = "del" /\ Entries(contab, {e.rp}) = {}
               c == IF none THEN Changed(k, "change", Tail(k.todo), TRUE)
                    ELSE Changed(k, "get", k.todo, k.err)
           IN /\ k.pc = "change" /\ k \in Changes /\ serve[t] = NoRequest /\ k.todo # <<>> /\ e \in Change
              /\ Well(c, NoRequest) /\ Goes(t, c, NoRequest)
              /\ contab' = IF none THEN contab
                           ELSE IF e.op = "add" THEN _contab_add(contab, e.rp, e.st)
                           ELSE _contab_del(contab, e.rp, e.st)
              /\ contab' \in Seq(Entry)
              /\ \A r \in RP \ {e.rp} : _contab_get(contab', r) = _contab_get(contab, r)
              /\ Same /\ UNCHANGED <<fdtab, open>>
  <2> USE <1>ChangeStep
  <2> DEFINE k == call[t]
             e == Head(k.todo)
             none == e.op = "del" /\ Entries(contab, {e.rp}) = {}
             c1 == Changed(k, "change", Tail(k.todo), TRUE)
             c2 == Changed(k, "get", k.todo, k.err)
  <2>1. k.pc = "change" /\ k.todo # <<>> /\ Same /\ UNCHANGED <<fdtab, open, serve>>
    BY DEF rp_change, Same, server
  <2>2. k \in Changes /\ serve[t] = NoRequest
    BY <2>1, Moves DEF KindsClaim, Types
  <2>3. serve' = [serve EXCEPT ![t] = NoRequest]
    BY <2>1, <2>2 DEF Types
  <2>4. e \in Change /\ Tail(k.todo) \in Seq(Change)
    BY <2>1, <2>2, Moves DEF HeadsClaim, ChangesAreClaim
  <2>5. e.rp \in RP /\ e.op \in {"add", "del"}
    BY <2>4 DEF Change
  <2>6. CASE none
    <3>1. contab' = contab /\ call' = [call EXCEPT ![t] = Next_change(@, TRUE)]
      BY <2>6 DEF rp_change
    <3>2. call' = [call EXCEPT ![t] = Next_change(call[t], TRUE)]
      BY <3>1 DEF Types
    <3>3. TRUE \in BOOLEAN /\ (k.err \/ TRUE) = TRUE
      BY Zenon
    <3>4. Next_change(call[t], TRUE) = Changed(k, "change", Tail(k.todo), k.err \/ TRUE)
      BY <2>2, <3>3, Moves, Zenon DEF NextChangeClaim
    <3>5. Next_change(call[t], TRUE) = c1
      BY <3>3, <3>4, Zenon
    <3>7. Well(c1, NoRequest)
      BY <2>2, <2>4, Moves DEF ToFailedClaim
    <3> HIDE DEF c1
    <3>8. Goes(t, c1, NoRequest)
      BY <2>3, <3>2, <3>5 DEF Goes
    <3>9. contab' \in Seq(Entry) /\ \A r \in RP \ {e.rp} : _contab_get(contab', r) = _contab_get(contab, r)
      BY <3>1 DEF Types
    <3> QED
      BY <2>1, <2>2, <2>4, <2>6, <3>1, <3>7, <3>8, <3>9 DEF c1
  <2>7. CASE ~none
    <3>1. /\ contab' = IF e.op = "add" THEN _contab_add(contab, e.rp, e.st)
                       ELSE _contab_del(contab, e.rp, e.st)
          /\ call' = [call EXCEPT ![t].pc = "get"]
      BY <2>7 DEF rp_change
    <3>2. call' = [call EXCEPT ![t] = c2]
      BY <2>2, <3>1, Moves DEF MovedToClaim, Types
    <3>4. contab' \in Seq(Entry) /\ \A r \in RP \ {e.rp} : _contab_get(contab', r) = _contab_get(contab, r)
      <4>1. contab \in Seq(Entry)
        BY DEF Types
      <4>2. CASE e.op = "add"
        BY <2>5, <3>1, <4>1, <4>2, Tables DEF AddOtherClaim
      <4>3. CASE e.op = "del"
        <5>1. Entries(contab, {e.rp}) # {}
          BY <2>7, <4>3
        <5> QED
          BY <2>5, <3>1, <4>1, <4>3, <5>1, Tables DEF DelOtherClaim
      <4> QED
        BY <2>5, <4>2, <4>3
    <3>5. Well(c2, NoRequest)
      BY <2>1, <2>2, <1>ToGet
    <3> HIDE DEF c2
    <3>6. Goes(t, c2, NoRequest)
      BY <2>3, <3>2 DEF Goes
    <3> QED
      BY <2>1, <2>2, <2>4, <2>7, <3>1, <3>4, <3>5, <3>6 DEF c2
  <2> QED
    BY <2>6, <2>7
<1>ChangeInv. ChangeInvClaim
  <2> SUFFICES
      ASSUME Inv, live, NEW t \in Thread, rp_change(t)
      PROVE  Inv'
    BY DEF ChangeInvClaim
  <2> DEFINE k == call[t]
             e == Head(k.todo)
             none == e.op = "del" /\ Entries(contab, {e.rp}) = {}
             c1 == Changed(k, "change", Tail(k.todo), TRUE)
             c2 == Changed(k, "get", k.todo, k.err)
             c == IF none THEN c1 ELSE c2
  <2>1. Types
    BY DEF Inv
  <2>2. /\ k.pc = "change" /\ k \in Changes /\ k.todo # <<>> /\ e \in Change
        /\ Well(c, NoRequest) /\ Goes(t, c, NoRequest)
        /\ none => contab' = contab
        /\ contab' \in Seq(Entry)
        /\ \A r \in RP \ {e.rp} : _contab_get(contab', r) = _contab_get(contab, r)
        /\ Same /\ UNCHANGED <<fdtab, open>>
    BY <2>1, <1>ChangeStep
  <2>3. t \in program.threads /\ TabType(fdtab') /\ open' \in [RP -> SUBSET Bit]
    BY <2>1, <2>2, Moves DEF InCallClaim, Types
  <2>4. ASSUME up, One(t) PROVE Real(c, NoRequest, contab', open')
    <3>1. Real(k, serve[t], contab, open)
      BY <2>4 DEF Inv
    <3>2. \A r \in RP \ {e.rp} : Agrees(contab, open, r)
      BY <2>2, <3>1 DEF Real
    <3>3. CASE none
      <4>1. \A r \in RP : Agrees(contab, open, r)
        <5>1. Agrees(contab, open, e.rp) \/ e.rp \notin RP
          BY <2>2, <3>1, <3>3 DEF Real
        <5> QED
          BY <3>2, <5>1
      <4>2. \A r \in RP : Agrees(contab', open', r)
        BY <2>2, <3>3, <4>1
      <4>3. c1.pc = "change"
        BY DEF Changed
      <4> HIDE DEF c1
      <4>4. Real(c1, NoRequest, contab', open')
        BY <4>2, <4>3 DEF Real
      <4> QED
        BY <3>3, <4>4
    <3>4. CASE ~none
      <4>1. \A r \in RP \ {e.rp} : Agrees(contab', open', r)
        BY <2>2, <3>2 DEF Agrees
      <4>2. c2.pc = "get" /\ Head(c2.todo) = e
        BY DEF Changed
      <4> HIDE DEF c2
      <4>3. Real(c2, NoRequest, contab', open')
        BY <4>1, <4>2 DEF Real
      <4> QED
        BY <3>4, <4>3
    <3> QED
      BY <3>3, <3>4
  <2> HIDE DEF c
  <2> QED
    BY <2>1, <2>2, <2>3, <2>4, Moves DEF LiftedClaim
<1>ChangePhase. ChangePhaseClaim
  <2> SUFFICES
      ASSUME Types, NEW t \in Thread, NEW r \in RP, Phase(call[t], contab, fdtab, r), rp_change(t)
      PROVE  Phase(call'[t], contab', fdtab', r)
    BY DEF ChangePhaseClaim
  <2> DEFINE k == call[t]
             e == Head(k.todo)
             none == e.op = "del" /\ Entries(contab, {e.rp}) = {}
             c1 == Changed(k, "change", Tail(k.todo), TRUE)
             c2 == Changed(k, "get", k.todo, k.err)
             c == IF none THEN c1 ELSE c2
             tab2 == IF e.op = "add" THEN _contab_add(contab, e.rp, e.st) ELSE _contab_del(contab, e.rp, e.st)
  <2>1. /\ k.pc = "change" /\ k \in Changes /\ k.todo # <<>> /\ Goes(t, c, NoRequest)
        /\ contab' = IF none THEN contab ELSE tab2
        /\ UNCHANGED fdtab
    BY <1>ChangeStep
  <2>2. /\ Keep(contab, fdtab, r) /\ k.rp = r /\ (k.mode = {} \/ "open" \in k.mode)
        /\ k.err => Back(k.todo, k.mode, k.fd, contab, fdtab, r)
        /\ ~k.err => Plan(k.todo, k.mode, k.fd, contab, fdtab, r)
    BY <2>1 DEF Phase
  <2>3. TabType(fdtab) /\ contab \in Seq(Entry)
    BY DEF Types
  <2>4. Changes_to(e, contab, tab2)
    BY DEF Changes_to
  <2> HIDE DEF tab2, k
  <2>5. CASE k.err
    <3>1. Back(k.todo, k.mode, k.fd, contab, fdtab, r)
      BY <2>2, <2>5
    <3>2. Found(e, contab) /\ Keep(tab2, fdtab, r) /\ BackWaits(k.todo, k.mode, tab2, fdtab, r)
      BY <2>1, <2>2, <2>3, <2>4, <3>1, Plans DEF BackChangeClaim
    <3>3. Phase(c2, tab2, fdtab, r)
      BY <2>1, <2>2, <2>5, <3>2, Moves DEF WaitPhaseClaim
    <3>4. c = c2 /\ contab' = tab2
      BY <2>1, <3>2 DEF Found
    <3> HIDE DEF c, c2
    <3> QED
      BY <2>1, <3>3, <3>4, Moves DEF CameClaim, k
  <2>6. CASE ~k.err
    <3>1. Plan(k.todo, k.mode, k.fd, contab, fdtab, r)
      BY <2>2, <2>6
    <3>2. Found(e, contab) /\ Keep(tab2, fdtab, r) /\ Waits(k.todo, k.mode, k.fd, tab2, fdtab, r)
      BY <2>1, <2>2, <2>3, <2>4, <3>1, Plans DEF PlanChangeClaim
    <3>3. Phase(c2, tab2, fdtab, r)
      BY <2>1, <2>2, <2>6, <3>2, Moves DEF WaitPhaseClaim
    <3>4. c = c2 /\ contab' = tab2
      BY <2>1, <3>2 DEF Found
    <3> HIDE DEF c, c2
    <3> QED
      BY <2>1, <3>3, <3>4, Moves DEF CameClaim, k
  <2> QED
    BY <2>5, <2>6
<1> QED
  BY <1>ChangeInv, <1>ChangePhase

UndoneIsClaim ==
  \A k \in Changes :
    /\ k.todo # <<>>
    => Undo(k) = Undone(k) /\ Well(Undone(k), NoRequest)

ConnectInvClaim ==
  \A t \in Thread :
    /\ Inv
    /\ live
    /\ rp_connect(t)
    => Inv'

ConnectPhaseClaim ==
  \A t \in Thread, r \in RP :
    /\ Types
    /\ up
    /\ Phase(call[t], contab, fdtab, r)
    /\ rp_connect(t)
    => Phase(call'[t], contab', fdtab', r)

(* The new status of the resource is sent to the server.                   *)
LEMMA Connecting ==
  ASSUME Counting
  PROVE  /\ UndoneIsClaim /\ ConnectInvClaim /\ ConnectPhaseClaim
<1>UndoIs.
    ASSUME NEW c \in Changes
    PROVE  Undo(c) = Changed(c, "change", <<Del(Head(c.todo).rp, Head(c.todo).st)>> \o Tail(c.todo), TRUE)
  <2> USE <1>UndoIs
  <2> DEFINE k == <<Del(Head(c.todo).rp, Head(c.todo).st)>> \o Tail(c.todo)
             c1 == [c EXCEPT !.pc = "change"]
             c2 == [c1 EXCEPT !.todo = k]
  <2>1. Undo(c) = [c2 EXCEPT !.err = TRUE]
    BY DEF Undo, Changes
  <2> HIDE DEF k
  <2>2. c1 = Changed(c, "change", c.todo, c.err)
    BY SMTT(30) DEF Changes, Changed
  <2> HIDE DEF c1
  <2>3. c2 = Changed(c, "change", k, c.err)
    BY <2>2 DEF Changed
  <2> HIDE DEF c2
  <2>4. \A y : [c2 EXCEPT !.err = y] = Changed(c, "change", k, y)
    BY <2>3 DEF Changed
  <2>5. [c2 EXCEPT !.err = TRUE] = Changed(c, "change", k, TRUE)
    BY <2>4, Zenon
  <2> QED
    BY <2>1, <2>5 DEF k
<1>UndoneIs. UndoneIsClaim
  <2> SUFFICES
      ASSUME NEW k \in Changes, k.todo # <<>>
      PROVE  Undo(k) = Undone(k) /\ Well(Undone(k), NoRequest)
    BY DEF UndoneIsClaim
  <2> DEFINE w == <<Del(Head(k.todo).rp, Head(k.todo).st)>> \o Tail(k.todo)
  <2>1. Undo(k) = Undone(k)
    BY <1>UndoIs DEF Undone
  <2>2. k.todo \in Seq(Change)
    BY Moves DEF ChangesAreClaim
  <2>3. w \in Seq(Change)
    BY <2>2, Moves DEF UndoTodoClaim
  <2> HIDE DEF w
  <2>4. Well(Changed(k, "change", w, TRUE), NoRequest)
    BY <2>3, Moves DEF ToFailedClaim
  <2> QED
    BY <2>1, <2>4 DEF Undone, w
<1>GetType. ASSUME NEW tab, NEW rp PROVE _contab_get(tab, rp) \in SUBSET Bit
    BY <1>GetType DEF _contab_get
<1>ToConnect.
    ASSUME NEW k \in Changes, k.todo # <<>>, NEW q \in Request, q.at = "start"
    PROVE  Well(Changed(k, "connect", k.todo, k.err), q)
  <2> USE <1>ToConnect
  <2> DEFINE c == Changed(k, "connect", k.todo, k.err)
  <2>1. c \in Changes /\ c.pc = "connect" /\ c.todo # <<>>
    BY DEF Changed, Changes
  <2> HIDE DEF c
  <2>2. Well(c, q)
    BY <2>1 DEF Well, Call
  <2> QED
    BY <2>2 DEF c
<1>ConnectStep.
    ASSUME Types, NEW t \in Thread, rp_connect(t)
    PROVE  LET k == call[t]
               q == [at |-> "start", rp |-> Head(k.todo).rp, st |-> _contab_get(contab, Head(k.todo).rp)]
           IN /\ k.pc = "get" /\ k \in Changes /\ serve[t] = NoRequest /\ k.todo # <<>>
              /\ up => Well(Changed(k, "connect", k.todo, k.err), q)
                       /\ Goes(t, Changed(k, "connect", k.todo, k.err), q)
              /\ ~up => Well(Undone(k), NoRequest) /\ Goes(t, Undone(k), NoRequest)
              /\ Same /\ UNCHANGED <<fdtab, contab, open>>
  <2> USE <1>ConnectStep
  <2> DEFINE k == call[t]
             e == Head(k.todo)
             q == [at |-> "start", rp |-> e.rp, st |-> _contab_get(contab, e.rp)]
  <2>1. k.pc = "get" /\ Same /\ UNCHANGED <<fdtab, contab, open>>
    BY DEF rp_connect, Same
  <2>2. k \in Changes /\ serve[t] = NoRequest /\ k.todo # <<>>
    BY <2>1, Moves DEF KindsClaim, Types, Well
  <2>3. e \in Change
    BY <2>2, Moves DEF HeadsClaim, ChangesAreClaim
  <2>4. q \in Request /\ q.at = "start"
    BY <2>3, <1>GetType DEF Request, Change
  <2>5. ASSUME up
        PROVE  Well(Changed(k, "connect", k.todo, k.err), q)
               /\ Goes(t, Changed(k, "connect", k.todo, k.err), q)
    <3>1. call' = [call EXCEPT ![t].pc = "connect"] /\ serve' = [serve EXCEPT ![t] = q]
      BY <2>5 DEF rp_connect
    <3>2. call' = [call EXCEPT ![t] = Changed(k, "connect", k.todo, k.err)]
      BY <2>2, <3>1, Moves DEF MovedToClaim, Types
    <3>3. Well(Changed(k, "connect", k.todo, k.err), q)
      <4> HIDE DEF q
      <4> QED
        BY <2>2, <2>4, <1>ToConnect
    <3> QED
      BY <3>1, <3>2, <3>3 DEF Goes
  <2>6. ASSUME ~up
        PROVE  Well(Undone(k), NoRequest) /\ Goes(t, Undone(k), NoRequest)
    <3>1. call' = [call EXCEPT ![t] = Undo(call[t])] /\ serve' = serve
      BY <2>6 DEF rp_connect, Types
    <3>2. serve' = [serve EXCEPT ![t] = NoRequest]
      BY <2>2, <3>1 DEF Types
    <3> QED
      BY <2>2, <3>1, <3>2, <1>UndoneIs DEF UndoneIsClaim, Goes
  <2> QED
    BY <2>1, <2>2, <2>5, <2>6
<1>ConnectInv. ConnectInvClaim
  <2> SUFFICES
      ASSUME Inv, live, NEW t \in Thread, rp_connect(t)
      PROVE  Inv'
    BY DEF ConnectInvClaim
  <2> DEFINE k == call[t]
             q == [at |-> "start", rp |-> Head(k.todo).rp, st |-> _contab_get(contab, Head(k.todo).rp)]
             c == Changed(k, "connect", k.todo, k.err)
  <2>1. Types
    BY DEF Inv
  <2>2. /\ k.pc = "get" /\ k \in Changes /\ k.todo # <<>>
        /\ up => Well(c, q) /\ Goes(t, c, q)
        /\ ~up => Well(Undone(k), NoRequest) /\ Goes(t, Undone(k), NoRequest)
        /\ Same /\ UNCHANGED <<fdtab, contab, open>>
    BY <2>1, <1>ConnectStep
  <2>3. t \in program.threads /\ contab' \in Seq(Entry) /\ TabType(fdtab') /\ open' \in [RP -> SUBSET Bit]
    BY <2>1, <2>2, Moves DEF InCallClaim, Types
  <2>4. CASE up
    <3>1. ASSUME One(t) PROVE Real(c, q, contab', open')
      <4>1. Real(k, serve[t], contab, open)
        BY <2>4, <3>1 DEF Inv
      <4>2. \A r \in RP \ {Head(k.todo).rp} : Agrees(contab', open', r)
        BY <2>2, <4>1 DEF Real
      <4>3. /\ c.pc = "connect" /\ c.todo = k.todo
            /\ q.rp = Head(k.todo).rp /\ q.st = _contab_get(contab', q.rp) /\ q.at = "start"
        BY <2>2 DEF Changed
      <4> HIDE DEF c, q
      <4> QED
        BY <4>2, <4>3 DEF Real
    <3> HIDE DEF c, q
    <3> QED
      BY <2>1, <2>2, <2>3, <2>4, <3>1, Moves DEF LiftedClaim
  <2>5. CASE ~up
    BY <2>1, <2>2, <2>3, <2>5, Moves DEF LiftedClaim
  <2> QED
    BY <2>4, <2>5
<1>ConnectPhase. ConnectPhaseClaim
  <2> SUFFICES
      ASSUME Types, up, NEW t \in Thread, NEW r \in RP, Phase(call[t], contab, fdtab, r), rp_connect(t)
      PROVE  Phase(call'[t], contab', fdtab', r)
    BY DEF ConnectPhaseClaim
  <2> DEFINE k == call[t]
             q == [at |-> "start", rp |-> Head(k.todo).rp, st |-> _contab_get(contab, Head(k.todo).rp)]
             c == Changed(k, "connect", k.todo, k.err)
  <2>1. k.pc = "get" /\ k \in Changes /\ Goes(t, c, q) /\ UNCHANGED <<fdtab, contab>>
    BY <1>ConnectStep
  <2>2. /\ Keep(contab, fdtab, r) /\ k.rp = r /\ (k.mode = {} \/ "open" \in k.mode)
        /\ k.err => BackWaits(k.todo, k.mode, contab, fdtab, r)
        /\ ~k.err => Waits(k.todo, k.mode, k.fd, contab, fdtab, r)
    BY <2>1 DEF Phase
  <2> HIDE DEF q, k
  <2>3. Phase(c, contab, fdtab, r)
    BY <2>1, <2>2, Moves DEF WaitPhaseClaim
  <2> HIDE DEF c
  <2> QED
    BY <2>1, <2>3, Moves DEF CameClaim, k
<1> QED
  BY <1>UndoneIs, <1>ConnectInv, <1>ConnectPhase

ConnectedInvClaim ==
  \A t \in Thread :
    /\ Inv
    /\ live
    /\ rp_connected(t)
    => Inv'

ConnectedPhaseClaim ==
  \A t \in Thread, r \in RP :
    /\ Types
    /\ Phase(call[t], contab, fdtab, r)
    /\ Real(call[t], serve[t], contab, open)
    /\ rp_connected(t)
    => Phase(call'[t], contab', fdtab', r)

(* The answer of the server arrives.                                       *)
LEMMA Hearing ==
  ASSUME Counting
  PROVE  /\ ConnectedInvClaim /\ ConnectedPhaseClaim
<1>MadeIs.
    ASSUME NEW k \in Changes, k.todo # <<>>
    PROVE  Next_change(k, FALSE) = Made(k) /\ Well(Made(k), NoRequest)
  <2> USE <1>MadeIs
  <2>1. k.todo \in Seq(Change) /\ k.err \in BOOLEAN
    BY Moves DEF ChangesAreClaim
  <2>2. Tail(k.todo) \in Seq(Change)
    BY <2>1, Moves DEF HeadsClaim
  <2>3. FALSE \in BOOLEAN
    OBVIOUS
  <2>4. Next_change(k, FALSE) = Changed(k, "change", Tail(k.todo), k.err \/ FALSE)
    BY <2>3, Moves, Zenon DEF NextChangeClaim
  <2>5. (k.err \/ FALSE) = k.err
    BY <2>1, Zenon
  <2>6. Next_change(k, FALSE) = Made(k)
    BY <2>4, <2>5, Zenon DEF Made
  <2>7. Well(Made(k), NoRequest)
    BY <2>1, <2>2, Moves DEF ToChangeClaim, Made
  <2> QED
    BY <2>6, <2>7
<1>ConnectedStep.
    ASSUME Types, NEW t \in Thread, rp_connected(t)
    PROVE  LET k == call[t]
               c == IF serve[t].at = "denied" THEN Undone(k) ELSE Made(k)
           IN /\ k.pc = "connect" /\ k \in Changes /\ serve[t].at \in {"done", "denied"} /\ serve[t] \in Request
              /\ k.todo # <<>> /\ Well(k, serve[t])
              /\ Well(c, NoRequest) /\ Goes(t, c, NoRequest)
              /\ Same /\ UNCHANGED <<fdtab, contab, open>>
  <2> USE <1>ConnectedStep
  <2> DEFINE k == call[t]
             c == IF serve[t].at = "denied" THEN Undone(k) ELSE Made(k)
  <2>1. /\ k.pc = "connect" /\ serve[t].at \in {"done", "denied"} /\ Same /\ UNCHANGED <<fdtab, contab, open>>
        /\ serve' = [serve EXCEPT ![t] = NoRequest]
        /\ call' = [call EXCEPT ![t] = IF serve[t].at = "denied" THEN Undo(k) ELSE Next_change(k, FALSE)]
    BY DEF rp_connected, Same, Types
  <2>2. k \in Changes /\ k.todo # <<>> /\ serve[t] \in Request /\ Well(k, serve[t])
    BY <2>1, Moves DEF KindsClaim, Types, Well
  <2>3. Undo(k) = Undone(k) /\ Next_change(k, FALSE) = Made(k) /\ Well(Undone(k), NoRequest) /\ Well(Made(k), NoRequest)
    BY <2>2, Connecting, <1>MadeIs DEF UndoneIsClaim
  <2>4. call' = [call EXCEPT ![t] = c] /\ Well(c, NoRequest)
    BY <2>1, <2>3
  <2> QED
    BY <2>1, <2>2, <2>4 DEF Goes
<1>ConnectedInv. ConnectedInvClaim
  <2> SUFFICES
      ASSUME Inv, live, NEW t \in Thread, rp_connected(t)
      PROVE  Inv'
    BY DEF ConnectedInvClaim
  <2> DEFINE k == call[t]
             c == IF serve[t].at = "denied" THEN Undone(k) ELSE Made(k)
             e == Head(k.todo)
  <2>1. Types
    BY DEF Inv
  <2>2. /\ k.pc = "connect" /\ k \in Changes /\ serve[t].at \in {"done", "denied"}
        /\ k.todo # <<>> /\ Well(k, serve[t])
        /\ Well(c, NoRequest) /\ Goes(t, c, NoRequest)
        /\ Same /\ UNCHANGED <<fdtab, contab, open>>
    BY <2>1, <1>ConnectedStep
  <2>3. t \in program.threads /\ contab' \in Seq(Entry) /\ TabType(fdtab') /\ open' \in [RP -> SUBSET Bit]
    BY <2>1, <2>2, Moves DEF InCallClaim, Types
  <2>4. ASSUME up, One(t) PROVE Real(c, NoRequest, contab', open')
    <3>1. Real(k, serve[t], contab, open)
      BY <2>4 DEF Inv
    <3>2. \A r \in RP \ {e.rp} : Agrees(contab', open', r)
      BY <2>2, <3>1 DEF Real
    <3>3. CASE serve[t].at = "done"
      <4>1. Agrees(contab', open', e.rp)
        BY <2>2, <3>1, <3>3 DEF Real
      <4>2. c = Made(k)
        BY <3>3
      <4>3. c.pc = "change"
        BY <4>2 DEF Made, Changed
      <4> HIDE DEF c
      <4> QED
        BY <3>2, <4>1, <4>3 DEF Real
    <3>4. CASE serve[t].at = "denied"
      <4>1. k.todo \in Seq(Change)
        BY <2>2, Moves DEF ChangesAreClaim
      <4> DEFINE w == <<Del(e.rp, e.st)>> \o Tail(k.todo)
      <4>2. c = Changed(k, "change", w, TRUE)
        BY <3>4 DEF Undone
      <4>3. c.pc = "change" /\ c.todo = w
        <5> HIDE DEF c, w
        <5> QED
          BY <4>2 DEF Changed
      <4>4. e \in Change
        BY <2>2, <4>1, Moves DEF HeadsClaim
      <4>5. w # <<>> /\ Head(w) = Del(e.rp, e.st)
        BY <2>2, <4>1, Moves DEF UndoTodoClaim
      <4>6. Head(w).rp = e.rp /\ Head(w).op = "del"
        BY <4>4, <4>5, Moves, SMTT(30) DEF MakesClaim, Change
      <4>7. Entries(contab', {e.rp}) # {}
        <5>1. _contab_get(contab, e.rp) # {}
          BY <2>2, <3>1, <3>4 DEF Real, Well
        <5> QED
          BY <2>2, <5>1 DEF _contab_get
      <4> HIDE DEF c, w
      <4> QED
        BY <3>2, <4>3, <4>5, <4>6, <4>7 DEF Real
    <3> QED
      BY <2>2, <3>3, <3>4
  <2> HIDE DEF c
  <2> QED
    BY <2>1, <2>2, <2>3, <2>4, Moves DEF LiftedClaim
<1>UndoneErr. ASSUME NEW k PROVE Undone(k).err
    BY <1>UndoneErr DEF Undone, Changed
<1>UndoneFields.
    ASSUME NEW k
    PROVE  /\ Undone(k).pc = "change" /\ Undone(k).fd = k.fd /\ Undone(k).rp = k.rp /\ Undone(k).mode = k.mode
           /\ Undone(k).todo = <<Del(Head(k.todo).rp, Head(k.todo).st)>> \o Tail(k.todo)
  <2> USE <1>UndoneFields
  <2> DEFINE w == <<Del(Head(k.todo).rp, Head(k.todo).st)>> \o Tail(k.todo)
  <2>1. Undone(k) = Changed(k, "change", w, TRUE)
    BY DEF Undone
  <2> HIDE DEF w
  <2>2. \A y : LET c == Changed(k, "change", w, y)
               IN c.pc = "change" /\ c.fd = k.fd /\ c.rp = k.rp /\ c.mode = k.mode /\ c.todo = w
    BY DEF Changed
  <2>3. LET c == Changed(k, "change", w, TRUE)
        IN c.pc = "change" /\ c.fd = k.fd /\ c.rp = k.rp /\ c.mode = k.mode /\ c.todo = w
    BY <2>2, Zenon
  <2> QED
    BY <2>1, <2>3, Zenon DEF w
<1>ConnectedPhase. ConnectedPhaseClaim
  <2> SUFFICES
      ASSUME Types, NEW t \in Thread, NEW r \in RP, Phase(call[t], contab, fdtab, r),
             Real(call[t], serve[t], contab, open), rp_connected(t)
      PROVE  Phase(call'[t], contab', fdtab', r)
    BY DEF ConnectedPhaseClaim
  <2> DEFINE k == call[t]
             q == serve[t]
             c == IF q.at = "denied" THEN Undone(k) ELSE Made(k)
  <2>1. /\ k.pc = "connect" /\ k \in Changes /\ q.at \in {"done", "denied"} /\ Well(k, q)
        /\ Goes(t, c, NoRequest) /\ UNCHANGED <<fdtab, contab>>
    BY <1>ConnectedStep
  <2>2. /\ Keep(contab, fdtab, r) /\ k.rp = r /\ (k.mode = {} \/ "open" \in k.mode)
        /\ k.err => BackWaits(k.todo, k.mode, contab, fdtab, r)
        /\ ~k.err => Waits(k.todo, k.mode, k.fd, contab, fdtab, r)
    BY <2>1 DEF Phase
  <2>3. TabType(fdtab) /\ contab \in Seq(Entry)
    BY DEF Types
  <2>4. Head(k.todo).rp = r
    BY <2>2, Plans, SMTT(30) DEF WaitHeadClaim
  <2>5. q.rp = r /\ q.st = _contab_get(contab, r)
    BY <2>1, <2>4 DEF Real
  <2>6. Ok(Row(contab), Access[r]) <=> q.st \ {"open"} \subseteq Access[r]
    BY <2>2, <2>3, <2>5, Plans DEF OkIsClaim, Keep
  <2>7. /\ q.at = "done" => Ok(Row(contab), Access[r])
        /\ q.at = "denied" => ~Ok(Row(contab), Access[r])
    BY <2>1, <2>5, <2>6 DEF Well
  <2> HIDE DEF k, q
  <2>8. CASE q.at = "denied"
    <3>1. ~k.err
      BY <2>2, <2>7, <2>8, Plans DEF BackDoneClaim
    <3>2. Waits(k.todo, k.mode, k.fd, contab, fdtab, r) /\ ~Ok(Row(contab), Access[r])
      BY <2>2, <2>7, <2>8, <3>1
    <3> DEFINE w == <<Del(Head(k.todo).rp, Head(k.todo).st)>> \o Tail(k.todo)
               u == Undone(k)
    <3>3. Back(w, k.mode, k.fd, contab, fdtab, r)
      BY <2>2, <3>2, Plans DEF PlanDeniedClaim
    <3>4. u.pc = "change" /\ u.fd = k.fd /\ u.rp = k.rp /\ u.mode = k.mode /\ u.todo = w
      BY <1>UndoneFields
    <3>5. u.err
      BY <1>UndoneErr
    <3>6. c = u
      BY <2>8
    <3> HIDE DEF c, u, w
    <3>7. Phase(u, contab, fdtab, r)
      BY <2>2, <3>3, <3>4, <3>5 DEF Phase
    <3> QED
      BY <2>1, <3>6, <3>7, Moves DEF CameClaim, k
  <2>9. CASE q.at = "done"
    <3> DEFINE u == Made(k)
    <3>1. u.pc = "change" /\ u.todo = Tail(k.todo) /\ u.fd = k.fd /\ u.rp = k.rp /\ u.mode = k.mode
      BY Moves, SMTT(30) DEF ChangedIsClaim, Made
    <3>2. u.err = k.err
      BY Moves, SMTT(30) DEF ChangedErrClaim, Made
    <3>3. k.err => Back(Tail(k.todo), k.mode, k.fd, contab, fdtab, r)
      BY <2>2, Plans DEF BackDoneClaim
    <3>4. ~k.err => Plan(Tail(k.todo), k.mode, k.fd, contab, fdtab, r)
      BY <2>2, <2>3, <2>7, <2>9, Plans DEF PlanDoneClaim
    <3>5. c = u
      BY <2>9
    <3> HIDE DEF c, u
    <3>6. Phase(u, contab, fdtab, r)
      BY <2>2, <3>1, <3>2, <3>3, <3>4 DEF Phase
    <3> QED
      BY <2>1, <3>5, <3>6, Moves DEF CameClaim, k
  <2> QED
    BY <2>1, <2>8, <2>9
<1> QED
  BY <1>ConnectedInv, <1>ConnectedPhase

FinishInvClaim ==
  \A t \in Thread :
    /\ Inv
    /\ live
    /\ finish(t)
    => Inv'

OutPhaseClaim ==
  \A r, tab, f :
    /\ Keep(tab, f, r)
    /\ Held(tab, All(f), r)
    => Phase(Out, tab, f, r)

FinishPhaseClaim ==
  \A t \in Thread, r \in RP :
    /\ Kept
    /\ Types
    /\ Phase(call[t], contab, fdtab, r)
    /\ finish(t)
    => Phase(call'[t], contab', fdtab', r)

ClearInvClaim ==
  \A t \in Thread, fd \in Nat :
    /\ Inv
    /\ live
    /\ ropen_null(t, fd)
    => Inv'

ClearPhaseClaim ==
  \A t \in Thread, fd \in Nat, r \in RP :
    /\ Kept
    /\ Types
    /\ Phase(call[t], contab, fdtab, r)
    /\ ropen_null(t, fd)
    => Phase(call'[t], contab', fdtab', r)

(* A call that has made its changes sets its descriptor and is over; one   *)
(* that is given no resource only clears its descriptor.                   *)
LEMMA Finishing ==
  ASSUME Counting
  PROVE  /\ FinishInvClaim /\ OutPhaseClaim /\ FinishPhaseClaim
         /\ ClearInvClaim /\ ClearPhaseClaim
<1>SetType.
    ASSUME Types, NEW fd \in Nat, NEW rp \in RP \cup {NULL}, NEW mode \in SUBSET Bit,
           fd_set(fd, rp, mode)
    PROVE  TabType(fdtab')
  <2> USE <1>SetType
  <2>1. PICK n \in Nat : fdtab \in [0..n - 1 -> Descriptor]
    BY DEF Types, TabType
  <2>2. Size = n
    BY <2>1, Moves DEF SizeIsClaim
  <2>3. CASE fd >= MaxFd
    BY <2>3 DEF fd_set, Types
  <2>4. CASE ~(fd >= MaxFd)
    <3> DEFINE J == [rp : IF "garbage" \in Beyond THEN RP \cup {NULL} ELSE {NULL},
                     mode : IF "garbage" \in Beyond THEN {{}, {"open"}} ELSE {{}}]
               m == IF fd < n THEN n ELSE fd + 1
    <3>1. PICK junk \in J : fdtab' = [i \in 0..IF fd < n THEN n - 1 ELSE fd |->
                       IF i = fd THEN [rp |-> rp, mode |-> mode] ELSE IF i < n THEN fdtab[i] ELSE junk]
      BY <2>2, <2>4, SMTT(30) DEF fd_set
    <3>2. junk \in Descriptor
      BY DEF Descriptor, Bit
    <3>3. [rp |-> rp, mode |-> mode] \in Descriptor
      BY DEF Descriptor
    <3> HIDE DEF J
    <3>4. m \in Nat /\ m - 1 = IF fd < n THEN n - 1 ELSE fd
      OBVIOUS
    <3>5. \A i \in 0..m - 1 : i < n => fdtab[i] \in Descriptor
      BY <2>1, SMTT(30)
    <3>6. fdtab' = [i \in 0..m - 1 |->
                       IF i = fd THEN [rp |-> rp, mode |-> mode] ELSE IF i < n THEN fdtab[i] ELSE junk]
      BY <3>1, <3>4
    <3> HIDE DEF m
    <3>7. fdtab' \in [0..m - 1 -> Descriptor]
      BY <3>2, <3>3, <3>5, <3>6
    <3> QED
      BY <3>4, <3>7 DEF TabType
  <2> QED
    BY <2>3, <2>4
<1>FinishStep.
    ASSUME Types, NEW t \in Thread, finish(t)
    PROVE  LET k == call[t]
           IN /\ k.pc = "change" /\ k \in Changes /\ serve[t] = NoRequest /\ k.todo = <<>>
              /\ IF k.err THEN fdtab' = fdtab ELSE fd_set(k.fd, k.rp, k.mode)
              /\ Well(Out, NoRequest) /\ Goes(t, Out, NoRequest) /\ TabType(fdtab')
              /\ Same /\ UNCHANGED <<contab, open>>
  <2> USE <1>FinishStep
  <2> DEFINE k == call[t]
  <2>1. /\ k.pc = "change" /\ k.todo = <<>> /\ Same /\ UNCHANGED <<contab, open, serve>>
        /\ IF k.err THEN fdtab' = fdtab ELSE fd_set(k.fd, k.rp, k.mode)
        /\ call' = [call EXCEPT ![t] = Out]
    BY DEF finish, Same, server
  <2>2. k \in Changes /\ serve[t] = NoRequest
    BY <2>1, Moves DEF KindsClaim, Types
  <2>3. serve' = [serve EXCEPT ![t] = NoRequest]
    BY <2>1, <2>2 DEF Types
  <2>4. Well(Out, NoRequest)
    BY DEF Well, Call, Out, NoRequest
  <2>5. TabType(fdtab')
    <3>1. CASE k.err
      BY <2>1, <3>1 DEF Types
    <3>2. CASE ~k.err
      <4>1. fd_set(k.fd, k.rp, k.mode) /\ k.fd \in Nat /\ k.rp \in RP /\ k.mode \in SUBSET Bit
        BY <2>1, <2>2, <3>2, Moves DEF ChangesAreClaim
      <4> QED
        BY <4>1, <1>SetType
    <3> QED
      BY <3>1, <3>2
  <2> QED
    BY <2>1, <2>2, <2>3, <2>4, <2>5 DEF Goes
<1>FinishInv. FinishInvClaim
  <2> SUFFICES
      ASSUME Inv, live, NEW t \in Thread, finish(t)
      PROVE  Inv'
    BY DEF FinishInvClaim
  <2>1. Types
    BY DEF Inv
  <2>2. /\ call[t].pc = "change" /\ call[t].todo = <<>>
        /\ Well(Out, NoRequest) /\ Goes(t, Out, NoRequest) /\ TabType(fdtab')
        /\ Same /\ UNCHANGED <<contab, open>>
    BY <2>1, <1>FinishStep
  <2>3. t \in program.threads /\ contab' \in Seq(Entry) /\ open' \in [RP -> SUBSET Bit]
    BY <2>1, <2>2, Moves DEF InCallClaim, Types
  <2>4. ASSUME up, One(t) PROVE Real(Out, NoRequest, contab', open')
    <3>1. Real(call[t], serve[t], contab, open)
      BY <2>4 DEF Inv
    <3>2. \A r \in RP : Agrees(contab', open', r)
      BY <2>2, <3>1 DEF Real
    <3> QED
      BY <3>2 DEF Real, Out
  <2> QED
    BY <2>1, <2>2, <2>3, <2>4, Moves DEF LiftedClaim
<1>OutPhase. OutPhaseClaim
    BY DEF OutPhaseClaim, Phase, Out
<1>SetPut.
    ASSUME Kept, NEW fd, NEW rp, NEW mode, fd < MaxFd, fd_set(fd, rp, mode), fd \in Nat
    PROVE  Put(fdtab, fd, rp, mode, fdtab')
  <2> USE <1>SetPut
  <2>1. "garbage" \notin Beyond
    BY DEF Kept
  <2>2. ~(fd >= MaxFd)
    BY SessionAssumption, SMTT(30)
  <2> DEFINE J == [rp : {NULL}, mode : {{}}]
             z == [rp |-> NULL, mode |-> {}]
  <2>3. PICK junk \in J : fdtab' = [i \in 0..IF fd < Size THEN Size - 1 ELSE fd |->
                                     IF i = fd THEN [rp |-> rp, mode |-> mode]
                                     ELSE IF i < Size THEN fdtab[i]
                                     ELSE junk]
    BY <2>1, <2>2 DEF fd_set
  <2>4. junk = z
    OBVIOUS
  <2> QED
    BY <2>3, <2>4 DEF Put, Size
<1>FinishPhase. FinishPhaseClaim
  <2> SUFFICES
      ASSUME Kept, Types, NEW t \in Thread, NEW r \in RP, Phase(call[t], contab, fdtab, r), finish(t)
      PROVE  Phase(call'[t], contab', fdtab', r)
    BY DEF FinishPhaseClaim
  <2> DEFINE k == call[t]
             f2 == fdtab'
  <2>1. /\ k.pc = "change" /\ k \in Changes /\ k.todo = <<>>
        /\ IF k.err THEN fdtab' = fdtab ELSE fd_set(k.fd, k.rp, k.mode)
        /\ Goes(t, Out, NoRequest) /\ TabType(fdtab') /\ UNCHANGED contab
    BY <1>FinishStep
  <2>2. /\ Keep(contab, fdtab, r) /\ k.rp = r /\ (k.mode = {} \/ "open" \in k.mode)
        /\ k.err => Back(k.todo, k.mode, k.fd, contab, fdtab, r)
        /\ ~k.err => Plan(k.todo, k.mode, k.fd, contab, fdtab, r)
    BY <2>1 DEF Phase
  <2>3. TabType(fdtab) /\ contab \in Seq(Entry) /\ k.fd \in Nat /\ k.mode \in SUBSET Bit
    BY <2>1 DEF Types, Changes
  <2>4. call'[t] = Out /\ contab' = contab
    BY <2>1, Moves DEF CameClaim
  <2>5. Keep(contab, fdtab', r) /\ Held(contab, All(fdtab'), r)
    <3>1. CASE k.err
      <4>1. Back(<<>>, k.mode, k.fd, contab, fdtab, r)
        BY <2>1, <2>2, <3>1
      <4>2. Held(contab, All(fdtab), r)
        BY <4>1, Plans DEF BackEndClaim
      <4>3. fdtab' = fdtab
        BY <2>1, <3>1
      <4> QED
        BY <2>2, <4>2, <4>3
    <3>2. CASE ~k.err
      <4>1. Plan(<<>>, k.mode, k.fd, contab, fdtab, r)
        BY <2>1, <2>2, <3>2
      <4>2. Held(contab, After(fdtab, k.fd, k.mode), r)
        BY <4>1, Plans DEF PlanEndClaim
      <4>3. fd_set(k.fd, r, k.mode)
        BY <2>1, <2>2, <3>2
      <4> HIDE DEF k
      <4>4. CASE k.fd >= MaxFd
        <5>1. fdtab' = fdtab
          BY <4>3, <4>4 DEF fd_set
        <5>2. k.fd \notin DOMAIN fdtab
          BY <2>2, <2>3, <4>4, SessionAssumption, SMTT(30) DEF Keep, Files
        <5>3. After(fdtab, k.fd, k.mode) = Both(fdtab, k.mode)
          BY <2>3, <5>2, Counts DEF NoneOldClaim, ModeOf
        <5> DEFINE D == All(fdtab)
                   D1 == Both(fdtab, k.mode)
        <5>4. D \in [Bit -> Int] /\ D1 \in [Bit -> Int] /\ \A b \in Bit : D1[b] = D[b] + Is(b, k.mode)
          BY <2>3, Counts DEF AllTypeClaim, BothTypeClaim
        <5>5. \A b \in Bit : Is(b, k.mode) \in Nat
          BY DEF Is
        <5>6. Row(contab) \in Entry /\ Covers(Row(contab), D1) /\ Ok(Row(contab), Access[r])
          BY <2>3, <4>2, <5>3, Rows DEF RowTypeClaim, Held
        <5> HIDE DEF D, D1
        <5>7. \A b \in Bit : D[b] <= D1[b]
          BY <5>4, <5>5
        <5>8. Covers(Row(contab), D)
          BY <5>4, <5>6, <5>7, Covering DEF CoversLessClaim
        <5> QED
          BY <2>2, <5>1, <5>6, <5>8 DEF D, Held
      <4>5. CASE k.fd < MaxFd
        <5>1. Put(fdtab, k.fd, r, k.mode, f2)
          BY <2>3, <4>3, <4>5, <1>SetPut
        <5>2. TabType(f2) /\ Files(fdtab, r)
          BY <2>1, <2>2 DEF Keep
        <5> HIDE DEF f2
        <5>3. All(f2) = After(fdtab, k.fd, k.mode)
          BY <2>3, <5>1, <5>2, Counts DEF PutCountClaim
        <5>4. Files(f2, r)
          BY <2>2, <2>3, <4>5, <5>1, <5>2, Counts DEF PutFilesClaim
        <5> QED
          BY <2>2, <4>2, <5>3, <5>4 DEF Keep, f2
      <4> QED
        BY <2>3, <4>4, <4>5, SessionAssumption, SMTT(30)
    <3> QED
      BY <3>1, <3>2
  <2> HIDE DEF f2
  <2>6. Phase(Out, contab, fdtab', r)
    BY <2>5, <1>OutPhase DEF OutPhaseClaim
  <2> QED
    BY <2>4, <2>6
<1>ClearStep.
    ASSUME Types, NEW t \in Thread, NEW fd \in Nat, ropen_null(t, fd)
    PROVE  /\ t \in program.threads /\ call[t] = Out /\ serve[t] = NoRequest
           /\ fd_set(fd, NULL, {}) /\ (InUse(fd) => "forget" \in Beyond)
           /\ Well(Out, NoRequest) /\ Goes(t, Out, NoRequest) /\ TabType(fdtab')
           /\ Same /\ UNCHANGED <<contab, open>>
  <2> USE <1>ClearStep
  <2> DEFINE none == {}
  <2>1. /\ t \in program.threads /\ call[t].pc = "out" /\ fd_set(fd, NULL, none)
        /\ InUse(fd) => "forget" \in Beyond
        /\ Same /\ UNCHANGED <<contab, open, call, serve>>
    BY DEF ropen_null, Calls, Same, server
  <2>2. call[t] = Out /\ serve[t] = NoRequest /\ Well(Out, NoRequest)
    BY <2>1, Moves DEF KindsClaim, Types
  <2>3. Goes(t, Out, NoRequest)
    BY <2>1, <2>2 DEF Goes, Types
  <2>4. none \in SUBSET Bit /\ NULL \in RP \cup {NULL}
    OBVIOUS
  <2> HIDE DEF none
  <2>5. TabType(fdtab')
    BY <2>1, <2>4, <1>SetType
  <2> QED
    BY <2>1, <2>2, <2>3, <2>5 DEF none
<1>ClearInv. ClearInvClaim
  <2> SUFFICES
      ASSUME Inv, live, NEW t \in Thread, NEW fd \in Nat, ropen_null(t, fd)
      PROVE  Inv'
    BY DEF ClearInvClaim
  <2>1. Types
    BY DEF Inv
  <2>2. /\ t \in program.threads /\ call[t] = Out
        /\ Well(Out, NoRequest) /\ Goes(t, Out, NoRequest) /\ TabType(fdtab')
        /\ Same /\ UNCHANGED <<contab, open>>
    BY <2>1, <1>ClearStep
  <2>3. contab' \in Seq(Entry) /\ open' \in [RP -> SUBSET Bit]
    BY <2>1, <2>2 DEF Types
  <2>4. ASSUME up, One(t) PROVE Real(Out, NoRequest, contab', open')
    <3>1. Real(call[t], serve[t], contab, open)
      BY <2>4 DEF Inv
    <3>2. \A r \in RP : Agrees(contab', open', r)
      BY <2>2, <3>1 DEF Real, Out
    <3> QED
      BY <3>2 DEF Real, Out
  <2> QED
    BY <2>1, <2>2, <2>3, <2>4, Moves DEF LiftedClaim
<1>ClearPhase. ClearPhaseClaim
  <2> SUFFICES
      ASSUME Kept, Types, NEW t \in Thread, NEW fd \in Nat, NEW r \in RP,
             Phase(call[t], contab, fdtab, r), ropen_null(t, fd)
      PROVE  Phase(call'[t], contab', fdtab', r)
    BY DEF ClearPhaseClaim
  <2> DEFINE f2 == fdtab'
  <2>1. /\ call[t] = Out /\ fd_set(fd, NULL, {}) /\ ~InUse(fd)
        /\ Goes(t, Out, NoRequest) /\ TabType(f2) /\ UNCHANGED contab
    BY <1>ClearStep DEF Kept
  <2>2. Keep(contab, fdtab, r) /\ Held(contab, All(fdtab), r)
    BY <2>1 DEF Phase, Out
  <2>3. TabType(fdtab) /\ r # NULL /\ MaxFd \in Nat
    BY SessionAssumption DEF Types
  <2>4. ModeOf(fdtab, fd) = {}
    BY <2>1, <2>2, <2>3 DEF Keep, Files, InUse, fd_rp, fd_mode, ModeOf
  <2>5. Keep(contab, f2, r) /\ Held(contab, All(f2), r)
    <3>1. CASE fd >= MaxFd
      <4>1. fdtab' = fdtab
        BY <2>1, <3>1 DEF fd_set
      <4> QED
        BY <2>2, <4>1
    <3>2. CASE fd < MaxFd
      <4>1. Put(fdtab, fd, NULL, {}, f2)
        BY <2>1, <3>2, <1>SetPut
      <4> HIDE DEF f2
      <4>2. Files(f2, r) /\ All(f2) = All(fdtab)
        BY <2>1, <2>2, <2>3, <2>4, <3>2, <4>1, Counts DEF Keep, PutNoneClaim
      <4> QED
        BY <2>2, <4>2 DEF Keep
    <3> QED
      BY <2>3, <3>1, <3>2
  <2>6. call'[t] = Out /\ contab' = contab
    BY <2>1, Moves DEF CameClaim
  <2> QED
    BY <2>5, <2>6, <1>OutPhase DEF OutPhaseClaim
<1> QED
  BY <1>FinishInv, <1>OutPhase, <1>FinishPhase, <1>ClearInv, <1>ClearPhase

=============================================================================
