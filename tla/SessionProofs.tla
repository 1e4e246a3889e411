--------------------------- MODULE SessionProofs ----------------------------
(***************************************************************************)
(* For any number of resources, descriptors and references: what the       *)
(* server holds for a program of one thread is what its table of           *)
(* connections says; if the program uses one resource, it covers what the  *)
(* descriptors stand for, and is never taken away while one of them is in  *)
(* use.                                                                    *)
(***************************************************************************)
EXTENDS SessionSteps

(* The time, in seconds, that each prover has for a leaf.                  *)
USE ZenonT(4), SMTT(20), ZenonT(30)

OpenInvClaim ==
  \A t \in Thread :
    /\ Inv
    /\ live
    /\ __open(t)
    => Inv'

DoneStepClaim ==
  \A t \in Thread :
    /\ Types
    /\ robject_open(t) \/ __close(t)
    => /\ call[t].pc = "connect" /\ call[t] \in Changes /\ serve[t] \in Request /\ t \in program.threads
       /\ Well(call[t], Answer(serve[t], "done")) /\ Goes(t, call[t], Answer(serve[t], "done"))
       /\ Same /\ UNCHANGED <<fdtab, contab>>
       /\ open' = [open EXCEPT ![serve[t].rp] = serve[t].st] /\ open' \in [RP -> SUBSET Bit]
       /\ robject_open(t) => serve[t].st # {}

DoneInvClaim ==
  \A t \in Thread :
    /\ Inv
    /\ live
    /\ robject_open(t) \/ __close(t)
    => Inv'

AnswerPhaseClaim ==
  \A t \in Thread, r \in RP :
    /\ Types
    /\ Phase(call[t], contab, fdtab, r)
    /\ ServerStep(t)
    => Phase(call'[t], contab', fdtab', r)

(* The server notes the new status and grants or denies it.                *)
LEMMA Serving ==
  ASSUME Counting
  PROVE  /\ OpenInvClaim /\ DoneStepClaim /\ DoneInvClaim /\ AnswerPhaseClaim
<1>Answered.
    ASSUME Types, NEW t \in Thread, serve[t].at # "none", NEW a \in {"noted", "done", "denied"},
           serve' = [serve EXCEPT ![t].at = a], call' = call,
           a = "noted" => serve[t].st # {},
           a \in {"noted", "done"} => serve[t].st \ {"open"} \subseteq Access[serve[t].rp],
           a = "denied" => serve[t].st # {} /\ ~(serve[t].st \ {"open"} \subseteq Access[serve[t].rp])
    PROVE  /\ call[t].pc = "connect" /\ call[t] \in Changes /\ serve[t] \in Request /\ t \in program.threads
           /\ Well(call[t], Answer(serve[t], a)) /\ Goes(t, call[t], Answer(serve[t], a))
  <2> USE <1>Answered
  <2> DEFINE q == Answer(serve[t], a)
  <2>1. call[t].pc = "connect" /\ call[t] \in Changes /\ serve[t] \in Request /\ Well(call[t], serve[t])
    BY Moves DEF KindsClaim, Types
  <2>2. t \in program.threads
    BY <2>1, SMTT(30) DEF Types, Out
  <2>3. [serve[t] EXCEPT !.at = a] = q /\ q \in Request /\ q.at = a /\ q.rp = serve[t].rp /\ q.st = serve[t].st
    BY <2>1, SMTT(30) DEF Request, Answer
  <2>4. serve' = [serve EXCEPT ![t] = [serve[t] EXCEPT !.at = a]]
    BY DEF Types
  <2>5. call' = [call EXCEPT ![t] = call[t]]
    BY DEF Types
  <2> HIDE DEF q
  <2>6. Well(call[t], q)
    BY <2>1, <2>3 DEF Well
  <2>7. Goes(t, call[t], q)
    BY <2>3, <2>4, <2>5 DEF Goes
  <2> QED
    BY <2>1, <2>2, <2>6, <2>7 DEF q
<1>OpenStep.
    ASSUME Types, NEW t \in Thread, __open(t)
    PROVE  \E a \in {"noted", "denied"} :
             /\ call[t].pc = "connect" /\ call[t] \in Changes /\ serve[t] \in Request /\ t \in program.threads
             /\ Well(call[t], Answer(serve[t], a)) /\ Goes(t, call[t], Answer(serve[t], a))
             /\ Same /\ UNCHANGED <<fdtab, contab, open>>
  <2> USE <1>OpenStep
  <2>1. /\ serve[t].at = "start" /\ serve[t].st # {}
        /\ Same /\ call' = call /\ UNCHANGED <<fdtab, contab, open>>
    BY DEF __open, Same
  <2>2. CASE serve[t].st \ {"open"} \subseteq Access[serve[t].rp]
    <3> DEFINE a == "noted"
    <3>1. a \in {"noted", "done", "denied"} /\ a = "noted" /\ serve' = [serve EXCEPT ![t].at = a] /\ a # "denied"
      BY <2>2 DEF __open
    <3> HIDE DEF a
    <3>2. /\ call[t].pc = "connect" /\ call[t] \in Changes /\ serve[t] \in Request /\ t \in program.threads
          /\ Well(call[t], Answer(serve[t], a)) /\ Goes(t, call[t], Answer(serve[t], a))
      BY <2>1, <2>2, <3>1, <1>Answered
    <3> QED
      BY <2>1, <3>1, <3>2
  <2>3. CASE ~(serve[t].st \ {"open"} \subseteq Access[serve[t].rp])
    <3> DEFINE a == "denied"
    <3>1. a \in {"noted", "done", "denied"} /\ a = "denied" /\ serve' = [serve EXCEPT ![t].at = a] /\ a \notin {"noted", "done"}
      BY <2>3 DEF __open
    <3> HIDE DEF a
    <3>2. /\ call[t].pc = "connect" /\ call[t] \in Changes /\ serve[t] \in Request /\ t \in program.threads
          /\ Well(call[t], Answer(serve[t], a)) /\ Goes(t, call[t], Answer(serve[t], a))
      BY <2>1, <2>3, <3>1, <1>Answered
    <3> QED
      BY <2>1, <3>1, <3>2
  <2> QED
    BY <2>2, <2>3
<1>DoneStep. DoneStepClaim
  <2> SUFFICES
      ASSUME Types, NEW t \in Thread, robject_open(t) \/ __close(t)
      PROVE  /\ call[t].pc = "connect" /\ call[t] \in Changes /\ serve[t] \in Request /\ t \in program.threads
             /\ Well(call[t], Answer(serve[t], "done")) /\ Goes(t, call[t], Answer(serve[t], "done"))
             /\ Same /\ UNCHANGED <<fdtab, contab>>
             /\ open' = [open EXCEPT ![serve[t].rp] = serve[t].st] /\ open' \in [RP -> SUBSET Bit]
             /\ robject_open(t) => serve[t].st # {}
    BY DEF DoneStepClaim
  <2>1. /\ serve[t].at # "none"
        /\ Same /\ call' = call /\ UNCHANGED <<fdtab, contab>> /\ serve' = [serve EXCEPT ![t].at = "done"]
        /\ open' = [open EXCEPT ![serve[t].rp] = serve[t].st]
    BY DEF robject_open, __close, Same
  <2>2. Well(call[t], serve[t])
    BY DEF Types
  <2>3. serve[t].st \ {"open"} \subseteq Access[serve[t].rp] /\ (robject_open(t) => serve[t].st # {})
    BY <2>2 DEF robject_open, __close, Well
  <2> DEFINE a == "done"
  <2>4. a \in {"noted", "done", "denied"} /\ a = "done" /\ serve' = [serve EXCEPT ![t].at = a] /\ a \notin {"noted", "denied"}
    BY <2>1
  <2> HIDE DEF a
  <2>5. /\ call[t].pc = "connect" /\ call[t] \in Changes /\ serve[t] \in Request /\ t \in program.threads
        /\ Well(call[t], Answer(serve[t], a)) /\ Goes(t, call[t], Answer(serve[t], a))
    BY <2>1, <2>3, <2>4, <1>Answered
  <2>6. open' \in [RP -> SUBSET Bit]
    BY <2>1, <2>5 DEF Types, Request
  <2> QED
    BY <2>1, <2>3, <2>4, <2>5, <2>6
<1>OpenInv. OpenInvClaim
  <2> SUFFICES
      ASSUME Inv, live, NEW t \in Thread, __open(t)
      PROVE  Inv'
    BY DEF OpenInvClaim
  <2>1. Types
    BY DEF Inv
  <2>2. PICK a \in {"noted", "denied"} :
          /\ call[t].pc = "connect" /\ t \in program.threads
          /\ Well(call[t], Answer(serve[t], a)) /\ Goes(t, call[t], Answer(serve[t], a))
          /\ Same /\ UNCHANGED <<fdtab, contab, open>>
    BY <2>1, <1>OpenStep
  <2>3. contab' \in Seq(Entry) /\ TabType(fdtab') /\ open' \in [RP -> SUBSET Bit]
    BY <2>1, <2>2 DEF Types
  <2>4. ASSUME up, One(t) PROVE Real(call[t], Answer(serve[t], a), contab', open')
    <3>1. Real(call[t], serve[t], contab, open)
      BY <2>4 DEF Inv
    <3>2. a # "done"
      OBVIOUS
    <3> QED
      BY <2>2, <3>1, <3>2 DEF Real, Answer
  <2> QED
    BY <2>1, <2>2, <2>3, <2>4, Moves DEF LiftedClaim
<1>DoneInv. DoneInvClaim
  <2> SUFFICES
      ASSUME Inv, live, NEW t \in Thread, robject_open(t) \/ __close(t)
      PROVE  Inv'
    BY DEF DoneInvClaim
  <2> DEFINE q == Answer(serve[t], "done")
  <2>1. Types
    BY DEF Inv
  <2>2. /\ call[t].pc = "connect" /\ t \in program.threads /\ serve[t] \in Request
        /\ Well(call[t], q) /\ Goes(t, call[t], q)
        /\ Same /\ UNCHANGED <<fdtab, contab>>
        /\ open' = [open EXCEPT ![serve[t].rp] = serve[t].st] /\ open' \in [RP -> SUBSET Bit]
    BY <2>1, <1>DoneStep DEF DoneStepClaim
  <2>3. contab' \in Seq(Entry) /\ TabType(fdtab') /\ open \in [RP -> SUBSET Bit] /\ serve[t].rp \in RP
    BY <2>1, <2>2 DEF Types, Request
  <2>4. ASSUME up, One(t) PROVE Real(call[t], q, contab', open')
    <3>1. Real(call[t], serve[t], contab, open)
      BY <2>4 DEF Inv
    <3>2. q.rp = serve[t].rp /\ q.st = serve[t].st /\ q.at = "done"
      BY DEF Answer
    <3>3. /\ serve[t].rp = Head(call[t].todo).rp /\ serve[t].st = _contab_get(contab, serve[t].rp)
          /\ \A r \in RP \ {Head(call[t].todo).rp} : Agrees(contab, open, r)
      BY <2>2, <3>1 DEF Real
    <3>4. Agrees(contab', open', q.rp)
      BY <2>2, <2>3, <3>2, <3>3 DEF Agrees
    <3>5. \A r \in RP \ {Head(call[t].todo).rp} : Agrees(contab', open', r)
      BY <2>2, <2>3, <3>3 DEF Agrees
    <3> HIDE DEF q
    <3> QED
      BY <2>2, <3>2, <3>3, <3>4, <3>5 DEF Real
  <2> HIDE DEF q
  <2> QED
    BY <2>1, <2>2, <2>3, <2>4, Moves DEF LiftedClaim
<1>AnswerPhase. AnswerPhaseClaim
  <2> SUFFICES
      ASSUME Types, NEW t \in Thread, NEW r \in RP, Phase(call[t], contab, fdtab, r), ServerStep(t)
      PROVE  Phase(call'[t], contab', fdtab', r)
    BY DEF AnswerPhaseClaim
  <2>1. call'[t] = call[t] /\ contab' = contab /\ fdtab' = fdtab
    BY DEF ServerStep, __open, robject_open, __close
  <2> QED
    BY <2>1
<1> QED
  BY <1>OpenInv, <1>DoneStep, <1>DoneInv, <1>AnswerPhase

(* What a call asks for: ropen(), dup2() and close() are all Called.       *)
RopenAsksClaim ==
  \A t \in Thread, fd \in -1..MaxFd - 1, rp \in RP, mode \in SUBSET Bit :
    /\ Types
    /\ ropen(t, fd, rp, mode)
    => mode \cup {"open"} \in SUBSET Bit /\ fd \in Int /\ Called(t, "ropen", fd, rp, mode \cup {"open"})

DupAsksClaim ==
  \A t \in Thread, old \in 0..MaxFd - 1, fd \in -1..MaxFd - 1 :
    /\ Types
    /\ dup2(t, old, fd)
    => /\ fd_rp(old) \in RP /\ fd_mode(old) \ {"open"} \in SUBSET Bit
       /\ ropen(t, fd, fd_rp(old), fd_mode(old) \ {"open"})

ModesClaim ==
  \A mode \in program.modes :
    /\ Types
    => mode \in SUBSET Bit

RopenPhaseClaim ==
  \A t \in Thread, r, rp \in RP, mode \in SUBSET Bit, fd \in -1..MaxFd - 1 :
    /\ Kept
    /\ Types
    /\ program.rps = {r}
    /\ Phase(call[t], contab, fdtab, r)
    /\ ropen(t, fd, rp, mode)
    => Phase(call'[t], contab', fdtab', r)

ClosePhaseClaim ==
  \A t \in Thread, r \in RP, fd \in 0..MaxFd - 1 :
    /\ Kept
    /\ Types
    /\ Phase(call[t], contab, fdtab, r)
    /\ close(t, fd)
    => Phase(call'[t], contab', fdtab', r)

(* The calls of the program.                                               *)
LEMMA Calling ==
  ASSUME Counting
  PROVE  /\ RopenAsksClaim /\ DupAsksClaim /\ ModesClaim /\ RopenPhaseClaim
         /\ ClosePhaseClaim
<1>RopenAsks. RopenAsksClaim
  <2> SUFFICES
      ASSUME Types, NEW t \in Thread, NEW fd \in -1..MaxFd - 1, NEW rp \in RP, NEW mode \in SUBSET Bit,
             ropen(t, fd, rp, mode)
      PROVE  mode \cup {"open"} \in SUBSET Bit /\ fd \in Int /\ Called(t, "ropen", fd, rp, mode \cup {"open"})
    BY DEF RopenAsksClaim
  <2>1. MaxFd \in Nat /\ "open" \in Bit
    BY SessionAssumption DEF Bit
  <2> QED
    BY <2>1 DEF ropen
<1>DupAsks. DupAsksClaim
  <2> SUFFICES
      ASSUME Types, NEW t \in Thread, NEW old \in 0..MaxFd - 1, NEW fd \in -1..MaxFd - 1, dup2(t, old, fd)
      PROVE  /\ fd_rp(old) \in RP /\ fd_mode(old) \ {"open"} \in SUBSET Bit
             /\ ropen(t, fd, fd_rp(old), fd_mode(old) \ {"open"})
    BY DEF DupAsksClaim
  <2>1. MaxFd \in Nat
    BY SessionAssumption
  <2>2. old \in Nat
    BY <2>1
  <2>3. fd_rp(old) \in RP \cup {NULL} /\ fd_mode(old) \in SUBSET Bit
    BY <2>2, Moves DEF ReadsClaim, Types
  <2> QED
    BY <2>3 DEF dup2, InUse
<1>Modes. ModesClaim
  <2> SUFFICES
      ASSUME Types, NEW mode \in program.modes
      PROVE  mode \in SUBSET Bit
    BY DEF ModesClaim
  <2>1. program.modes \in SUBSET Mode
    BY SessionAssumption DEF Types
  <2> QED
    BY <2>1 DEF Bit
<1>RopenPhase. RopenPhaseClaim
  <2> SUFFICES
      ASSUME Kept, Types, NEW t \in Thread, NEW r \in RP, program.rps = {r}, Phase(call[t], contab, fdtab, r),
             NEW rp \in RP, NEW mode \in SUBSET Bit, NEW fd \in -1..MaxFd - 1, ropen(t, fd, rp, mode)
      PROVE  Phase(call'[t], contab', fdtab', r)
    BY DEF RopenPhaseClaim
  <2> DEFINE m == mode \cup {"open"}
  <2>1. m \in SUBSET Bit /\ fd \in Int /\ Called(t, "ropen", fd, rp, m)
    BY <1>RopenAsks DEF RopenAsksClaim
  <2>2. rp = r /\ (InUse(fd) => mode \subseteq Access[r])
    BY DEF ropen, Kept
  <2>3. "ropen" \in {"ropen", "close"} /\ "open" \in m /\ (InUse(fd) => m \ {"open"} \subseteq Access[r])
    BY <2>2
  <2> HIDE DEF m
  <2> QED
    BY <2>1, <2>2, <2>3, Asking DEF AskPhaseClaim
<1>ClosePhase. ClosePhaseClaim
  <2> SUFFICES
      ASSUME Kept, Types, NEW t \in Thread, NEW r \in RP, Phase(call[t], contab, fdtab, r),
             NEW fd \in 0..MaxFd - 1, close(t, fd)
      PROVE  Phase(call'[t], contab', fdtab', r)
    BY DEF ClosePhaseClaim
  <2> DEFINE none == {}
  <2>1. none \in SUBSET Bit /\ NULL \in RP \cup {NULL} /\ "close" \in {"ropen", "close"} /\ fd \in Int
        /\ "close" # "ropen"
    BY SessionAssumption, SMTT(30)
  <2>2. Called(t, "close", fd, NULL, none)
    BY DEF close
  <2> HIDE DEF none
  <2> QED
    BY <2>1, <2>2, Asking DEF AskPhaseClaim
<1> QED
  BY <1>RopenAsks, <1>DupAsks, <1>Modes, <1>RopenPhase, <1>ClosePhase

InitInvClaim ==
 Init => Inv

StepInvClaim ==
  /\ Inv
  /\ [Next]_vars
  => Inv'

(* Every step keeps the invariant Inv.                                     *)
LEMMA Keeps ==
  ASSUME Counting
  PROVE  /\ InitInvClaim /\ StepInvClaim
<1>InitInv. InitInvClaim
  <2> USE DEF InitInvClaim
  <2> SUFFICES ASSUME Init PROVE Inv
    OBVIOUS
  <2>1. Well(Out, NoRequest)
    BY DEF Well, Call, Out, NoRequest
  <2>2. Types
    <3>1. fdtab \in [0..0 - 1 -> Descriptor] /\ contab \in Seq(Entry)
      BY DEF Init
    <3>2. TabType(fdtab)
      BY <3>1 DEF TabType
    <3>3. \A t \in Thread : call[t] = Out /\ serve[t] = NoRequest
      BY DEF Init
    <3>4. Out \in Call
      BY DEF Call
    <3> QED
      BY <2>1, <3>1, <3>2, <3>3, <3>4 DEF Init, Types
  <2>3. \A t \in Thread : Real(call[t], serve[t], contab, open)
    <3>1. \A r \in RP : Agrees(contab, open, r)
      <4>1. \A r \in RP : open[r] = {} /\ Entries(contab, {r}) = {}
        BY DEF Init, Entries
      <4> QED
        BY <4>1 DEF _contab_get, Agrees
    <3>2. \A t \in Thread : call[t] = Out
      BY DEF Init
    <3> QED
      BY <3>1, <3>2 DEF Real, Out
  <2> QED
    BY <2>2, <2>3 DEF Inv
<1>StepInv. StepInvClaim
  <2> SUFFICES
      ASSUME Inv, [Next]_vars
      PROVE  Inv'
    BY DEF StepInvClaim
  <2> SUFFICES ASSUME live, live' PROVE Inv'
    <3>1. ~live => ~live'
      <4>1. \A t \in Thread : /\ (ropen_alloc(t) \/ read_mode(t) => live)
                            /\ (read_rp(t) \/ rp_change(t) => live)
                            /\ (rp_connect(t) \/ rp_connected(t) \/ finish(t) => live)
        BY DEF ropen_alloc, read_mode, read_rp, rp_change, rp_connect, rp_connected, finish
      <4>2. \A t, op, fd, rp, mode : Called(t, op, fd, rp, mode) => live
        BY DEF Called, Calls
      <4>3. \A t, fd, rp, mode : ropen(t, fd, rp, mode) => live
        BY <4>2, Zenon DEF ropen
      <4>4. \A t, old, fd : dup2(t, old, fd) \/ close(t, fd) \/ ropen_null(t, fd) => live
        BY <4>2, <4>3, Zenon DEF dup2, close, ropen_null, Calls
      <4>5. \A t \in Thread : ServerStep(t) => live' = live
        BY DEF ServerStep, __open, robject_open, __close
      <4>6. __close_handler \/ exit \/ server_exit \/ UNCHANGED vars => live' = live \/ ~live'
        BY DEF __close_handler, exit, server_exit, vars
      <4> QED
        BY <4>1, <4>3, <4>4, <4>5, <4>6, Zenon DEF Next, ThreadStep
    <3> QED
      BY <3>1 DEF Inv
  <2>0. Types
    BY DEF Inv
  <2>1. ASSUME NEW t \in Thread, NEW rp \in RP, NEW mode \in SUBSET Bit, NEW fd \in -1..MaxFd - 1,
               ropen(t, fd, rp, mode)
        PROVE  Inv'
    <3> DEFINE m == mode \cup {"open"}
    <3>1. m \in SUBSET Bit /\ fd \in Int /\ Called(t, "ropen", fd, rp, m)
      BY <2>0, <2>1, Calling DEF RopenAsksClaim
    <3>2. "ropen" \in {"ropen", "close"}
      OBVIOUS
    <3> HIDE DEF m
    <3> QED
      BY <3>1, <3>2, Asking DEF AskInvClaim
  <2>2. ASSUME NEW t \in Thread, NEW old \in 0..MaxFd - 1, NEW fd \in -1..MaxFd - 1, dup2(t, old, fd)
        PROVE  Inv'
    BY <2>0, <2>1, <2>2, Calling DEF DupAsksClaim
  <2>3. ASSUME NEW t \in Thread, NEW fd \in 0..MaxFd - 1, close(t, fd)
        PROVE  Inv'
    <3> DEFINE none == {}
    <3>1. none \in SUBSET Bit /\ NULL \in RP \cup {NULL} /\ "close" \in {"ropen", "close"} /\ fd \in Int
      BY SessionAssumption, SMTT(30)
    <3>2. Called(t, "close", fd, NULL, none)
      BY <2>3 DEF close
    <3> HIDE DEF none
    <3> QED
      BY <3>1, <3>2, Asking DEF AskInvClaim
  <2>4. CASE __close_handler
    BY <2>0, <2>4 DEF __close_handler, Types
  <2>5. CASE exit
    BY <2>5 DEF exit
  <2>6. CASE server_exit
    <3>1. /\ ~up' /\ open' = [rp \in RP |-> {}] /\ notice' = <<>>
          /\ UNCHANGED <<program, live, fdtab, contab, call, serve, rtab>>
      BY <2>6 DEF server_exit
    <3>2. Types'
      BY <2>0, <3>1 DEF Types
    <3> QED
      BY <3>1, <3>2 DEF Inv
  <2>7. CASE UNCHANGED vars
    <3>1. UNCHANGED <<program, live, up, fdtab, contab, call, serve, open, notice>>
      BY <2>7 DEF vars
    <3>2. Types'
      BY <2>0, <3>1 DEF Types
    <3>3. up' => \A t \in Thread : One(t)' => Real(call'[t], serve'[t], contab', open')
      BY <3>1 DEF Inv, One
    <3> QED
      BY <3>2, <3>3 DEF Inv
  <2>8. ASSUME NEW t \in Thread, ThreadStep(t) \/ ServerStep(t)
        PROVE  Inv'
    BY <2>8, Allocating, Reading, Starting, Altering, Connecting, Hearing, Finishing,
       Serving DEF AllocInvClaim, ModeInvClaim, RpInvClaim, ChangeInvClaim, ConnectInvClaim,
       ConnectedInvClaim, FinishInvClaim, OpenInvClaim, DoneInvClaim, ThreadStep, ServerStep
  <2>9. ASSUME NEW t \in Thread, NEW fd \in 0..MaxFd - 1, ropen_null(t, fd)
        PROVE  Inv'
    <3>1. fd \in Nat
      BY SessionAssumption
    <3> QED
      BY <2>9, <3>1, Finishing DEF ClearInvClaim
  <2> QED
    BY <2>0, <2>1, <2>2, <2>3, <2>4, <2>5, <2>6, <2>7, <2>8, <2>9, Calling DEF ModesClaim, Next
<1> QED
  BY <1>InitInv, <1>StepInv

InitCoverClaim ==
 Init => Cover

StepCoverClaim ==
  /\ Kept
  /\ Inv
  /\ Cover
  /\ [Next]_vars
  => Cover'

(* Every step keeps the invariant Cover.                                   *)
LEMMA Phases ==
  ASSUME Counting
  PROVE  /\ InitCoverClaim /\ StepCoverClaim
<1>InitCover. InitCoverClaim
  <2> USE DEF InitCoverClaim
  <2> SUFFICES ASSUME Init, NEW t \in Thread, NEW r \in RP
               PROVE  Phase(call[t], contab, fdtab, r)
    BY DEF Cover
  <2>1. call[t] = Out /\ contab = <<>> /\ fdtab = <<>>
    BY DEF Init
  <2>2. Row(contab) = Empty /\ contab \in Seq(Entry) /\ Len(contab) = 0
    BY <2>1 DEF Row
  <2>3. OneRow(contab, r)
    BY <2>2, Tables DEF EmptyEntryClaim, OneRow
  <2>4. DOMAIN fdtab = {}
    BY <2>1
  <2>5. Files(fdtab, r)
    BY <2>4 DEF Files
  <2>6. \A b \in Bit : Uses(fdtab, b) = {}
    BY <2>4 DEF Uses
  <2>7. \A b \in Bit : All(fdtab)[b] = 0
    BY <2>6 DEF Counting, EmptySize, All
  <2>8. "open" \in Bit
    BY DEF Bit
  <2>9. Held(contab, All(fdtab), r)
    BY <2>2, <2>7, <2>8, Tables, SMTT(30) DEF EmptyEntryClaim, Held, Covers, Ok
  <2> QED
    BY <2>1, <2>3, <2>5, <2>9, Finishing DEF OutPhaseClaim, Keep
<1>Acting.
    ASSUME Types, NEW t \in Thread, ThreadStep(t) \/ ServerStep(t)
    PROVE  t \in program.threads
  <2> USE <1>Acting
  <2>1. CASE ThreadStep(t)
    BY <2>1, Moves DEF InCallClaim, ThreadStep, ropen_alloc, read_mode, read_rp, rp_change,
       rp_connect, rp_connected, finish
  <2>2. CASE ServerStep(t)
    <3>1. serve[t].at # "none"
      BY <2>2 DEF ServerStep, __open, robject_open, __close
    <3>2. call[t].pc = "connect"
      BY <3>1 DEF Types, Well
    <3> QED
      BY <3>2, Moves DEF InCallClaim
  <2> QED
    BY <2>1, <2>2
<1>StepCover. StepCoverClaim
  <2> SUFFICES
      ASSUME Kept, Inv, Cover, [Next]_vars
      PROVE  Cover'
    BY DEF StepCoverClaim
  <2> SUFFICES ASSUME live', up', NEW t \in Thread, NEW r \in RP, One(t)', program'.rps = {r}
               PROVE  Phase(call'[t], contab', fdtab', r)
    BY DEF Cover
  <2>1. live /\ up /\ program' = program
    <3>1. \A s, op, fd, rp, mode : Called(s, op, fd, rp, mode) => UNCHANGED <<program, live, up>>
      BY DEF Called, server
    <3>2. \A s, fd, rp, mode : ropen(s, fd, rp, mode) => UNCHANGED <<program, live, up>>
      BY <3>1, Zenon DEF ropen
    <3>3. \A s, old, fd : dup2(s, old, fd) \/ close(s, fd) \/ ropen_null(s, fd) => UNCHANGED <<program, live, up>>
      <4>1. \A s, fd : ropen_null(s, fd) => UNCHANGED <<program, live, up>>
        BY DEF ropen_null, server
      <4> QED
        BY <3>1, <3>2, <4>1, Zenon DEF dup2, close
    <3>4. \A s \in Thread : ropen_alloc(s) \/ read_mode(s) \/ read_rp(s) \/ rp_change(s) => UNCHANGED <<program, live, up>>
      BY DEF ropen_alloc, read_mode, read_rp, rp_change, server
    <3>5. \A s \in Thread : rp_connect(s) \/ rp_connected(s) \/ finish(s) => UNCHANGED <<program, live, up>>
      BY DEF rp_connect, rp_connected, finish, server
    <3>6. \A s \in Thread : ServerStep(s) => UNCHANGED <<program, live, up>>
      BY DEF ServerStep, __open, robject_open, __close
    <3>7. __close_handler \/ UNCHANGED vars => UNCHANGED <<program, live, up>>
      BY DEF __close_handler, vars
    <3>8. ~exit /\ ~server_exit
      BY DEF exit, server_exit
    <3>9. UNCHANGED <<program, live, up>>
      BY <3>2, <3>3, <3>4, <3>5, <3>6, <3>7, <3>8, Zenon DEF Next, ThreadStep
    <3> QED
      BY <3>9
  <2>2. One(t) /\ program.rps = {r} /\ Types
    BY <2>1 DEF One, Inv
  <2>3. Phase(call[t], contab, fdtab, r) /\ Real(call[t], serve[t], contab, open)
    BY <2>1, <2>2 DEF Cover, Inv
  <2>4. \A s \in Thread : s \in program.threads => s = t
    BY <2>2 DEF One
  <2>5. ASSUME NEW s \in Thread, NEW rp \in RP, NEW mode \in program.modes, NEW fd \in -1..MaxFd - 1,
               ropen(s, fd, rp, mode)
        PROVE  Phase(call'[t], contab', fdtab', r)
    <3>1. s = t
      BY <2>4, <2>5 DEF ropen, Called, Calls
    <3>2. mode \in SUBSET Bit
      BY <2>2, Calling DEF ModesClaim
    <3> QED
      BY <2>2, <2>3, <2>5, <3>1, <3>2, Calling DEF RopenPhaseClaim
  <2>6. ASSUME NEW s \in Thread, NEW old \in 0..MaxFd - 1, NEW fd \in -1..MaxFd - 1, dup2(s, old, fd)
        PROVE  Phase(call'[t], contab', fdtab', r)
    <3> DEFINE rp == fd_rp(old)
               mode == fd_mode(old) \ {"open"}
    <3>1. rp \in RP /\ mode \in SUBSET Bit /\ ropen(s, fd, rp, mode)
      BY <2>2, <2>6, Calling DEF DupAsksClaim
    <3> HIDE DEF rp, mode
    <3>2. s = t
      BY <2>4, <3>1 DEF ropen, Called, Calls
    <3> QED
      BY <2>2, <2>3, <3>1, <3>2, Calling DEF RopenPhaseClaim
  <2>7. ASSUME NEW s \in Thread, NEW fd \in 0..MaxFd - 1, close(s, fd)
        PROVE  Phase(call'[t], contab', fdtab', r)
    <3>1. s = t
      BY <2>4, <2>7 DEF close, Called, Calls
    <3> QED
      BY <2>2, <2>3, <2>7, <3>1, Calling DEF ClosePhaseClaim
  <2>8. ASSUME NEW s \in Thread, ThreadStep(s) \/ ServerStep(s)
        PROVE  Phase(call'[t], contab', fdtab', r)
    <3>1. s = t
      BY <2>2, <2>4, <2>8, <1>Acting
    <3>2. CASE ThreadStep(t)
      BY <2>1, <2>2, <2>3, <3>2, Allocating, Reading, Starting, Altering, Connecting, Hearing,
         Finishing DEF AllocPhaseClaim, ModePhaseClaim, RpPhaseClaim, ChangePhaseClaim,
         ConnectPhaseClaim, ConnectedPhaseClaim, FinishPhaseClaim, ThreadStep
    <3>3. CASE ServerStep(t)
      BY <2>2, <2>3, <3>3, Serving DEF AnswerPhaseClaim
    <3> QED
      BY <2>8, <3>1, <3>2, <3>3
  <2>9. CASE __close_handler
    BY <2>2, <2>9 DEF __close_handler, Types
  <2>10. ~exit /\ ~server_exit
    BY DEF exit, server_exit
  <2>11. CASE UNCHANGED vars
    BY <2>3, <2>11 DEF vars
  <2>12. ASSUME NEW s \in Thread, NEW fd \in 0..MaxFd - 1, ropen_null(s, fd)
         PROVE  Phase(call'[t], contab', fdtab', r)
    <3>1. s = t
      BY <2>4, <2>12 DEF ropen_null, Calls
    <3>2. fd \in Nat
      BY SessionAssumption
    <3> QED
      BY <2>2, <2>3, <2>12, <3>1, <3>2, Finishing DEF ClearPhaseClaim
  <2> QED
    BY <2>5, <2>6, <2>7, <2>8, <2>9, <2>10, <2>11, <2>12 DEF Next
<1> QED
  BY <1>InitCover, <1>StepCover

-----------------------------------------------------------------------------
(* What the two invariants say.                                            *)

(* What a step does when NeverFullyClosed holds of it.                     *)
StaysOpen ==
  \A rp \in RP :
    (/\ OneThread /\ live /\ live' /\ up'
     /\ Cardinality(program.rps) = 1
     /\ \E t \in Thread : call[t].pc = "connect" /\ call[t].mode # {}
     /\ \E fd \in DOMAIN fdtab : InUse(fd) /\ fdtab[fd].rp = rp)
    => (open[rp] # {} => open'[rp] # {})

ExactOneClaim ==
  /\ Inv
  => RealExact

CoversOneClaim ==
  /\ Inv
  /\ Cover
  => SupersetOfOne

StepStaysClaim ==
  /\ Inv
  /\ Cover
  /\ [Next]_vars
  => [StaysOpen]_vars

(* What the two invariants imply.                                          *)
LEMMA Results ==
  ASSUME Counting
  PROVE  /\ ExactOneClaim /\ CoversOneClaim /\ StepStaysClaim
<1>Alone.
    ASSUME Types, OneThread
    PROVE  \E t \in Thread : One(t)
  <2> USE <1>Alone
  <2>1. program.threads \in SUBSET Thread /\ IsFiniteSet(Thread)
    BY SessionAssumption DEF Types
  <2>2. \E t : program.threads = {t}
    BY <2>1 DEF Counting, SubsetFinite, SingletonSize, OneThread
  <2> QED
    BY <2>1, <2>2 DEF One
<1>AloneWith.
    ASSUME Types, Cardinality(program.rps) = 1
    PROVE  \E r \in RP : program.rps = {r}
  <2> USE <1>AloneWith
  <2>1. program.rps \in SUBSET RP /\ IsFiniteSet(RP)
    BY SessionAssumption DEF Types
  <2>2. \E r : program.rps = {r}
    BY <2>1 DEF Counting, SubsetFinite, SingletonSize
  <2> QED
    BY <2>1, <2>2
<1>ExactOne. ExactOneClaim
  <2> SUFFICES
      ASSUME Inv
      PROVE  RealExact
    BY DEF ExactOneClaim
  <2> SUFFICES ASSUME Quiet, OneThread PROVE \A rp \in RP : open[rp] = _contab_get(contab, rp)
    BY DEF RealExact
  <2>1. live /\ up /\ Types /\ \A t \in Thread : call[t].pc = "out"
    BY DEF Inv, Quiet
  <2>2. PICK t \in Thread : One(t)
    BY <2>1, <1>Alone
  <2>3. Real(call[t], serve[t], contab, open)
    BY <2>1, <2>2 DEF Inv
  <2> QED
    BY <2>1, <2>3 DEF Real, Agrees
<1>CoversOne. CoversOneClaim
  <2> SUFFICES
      ASSUME Inv, Cover
      PROVE  SupersetOfOne
    BY DEF CoversOneClaim
  <2> SUFFICES ASSUME OneThread, Cardinality(program.rps) = 1, Quiet, NEW fd \in DOMAIN fdtab, InUse(fd)
               PROVE  fdtab[fd].mode \subseteq open[fdtab[fd].rp]
    BY DEF SupersetOfOne, Superset
  <2>1. live /\ up /\ Types /\ \A t \in Thread : call[t].pc = "out"
    BY DEF Inv, Quiet
  <2>2. PICK t \in Thread : One(t)
    BY <2>1, <1>Alone
  <2>3. PICK r \in RP : program.rps = {r}
    BY <2>1, <1>AloneWith
  <2>4. Real(call[t], serve[t], contab, open) /\ Phase(call[t], contab, fdtab, r)
    BY <2>1, <2>2, <2>3 DEF Inv, Cover
  <2>5. open[r] = _contab_get(contab, r)
    BY <2>1, <2>4 DEF Real, Agrees
  <2>6. OneRow(contab, r) /\ Files(fdtab, r) /\ Covers(Row(contab), All(fdtab))
    BY <2>1, <2>4 DEF Phase, Keep, Held
  <2>7. contab \in Seq(Entry) /\ TabType(fdtab)
    BY <2>1 DEF Types
  <2>8. _contab_get(contab, r) = {b \in Bit : Row(contab).count[b] > 0}
    BY <2>6, <2>7, Rows DEF RowGetClaim
  <2>9. fdtab[fd].rp = r /\ fdtab[fd].mode \subseteq Bit
    <3>1. fdtab[fd].rp # NULL
      BY DEF InUse, fd_rp
    <3>2. fd_mode(fd) \in SUBSET Bit
      BY <2>1, Moves DEF ReadsClaim
    <3> QED
      BY <2>6, <3>1, <3>2 DEF Files, fd_mode
  <2>10. ASSUME NEW b \in fdtab[fd].mode PROVE Row(contab).count[b] > 0 /\ b \in Bit
    <3>1. b \in Bit /\ b \in ModeOf(fdtab, fd)
      BY <2>9 DEF ModeOf
    <3>2. All(fdtab)[b] >= 1 /\ All(fdtab)[b] \in Nat
      BY <2>7, <3>1, Counts DEF InUseCountsClaim, AllTypeClaim
    <3>3. Row(contab).count[b] >= All(fdtab)[b] /\ Row(contab).count[b] \in Int
      BY <2>6, <2>7, <3>1, Rows DEF RowTypeClaim, Covers
    <3> QED
      BY <3>1, <3>2, <3>3
  <2> QED
    BY <2>5, <2>8, <2>9, <2>10
(* Only the request of the thread changes the status, and in a call that   *)
(* opens, with a descriptor in use, that request asks for some status.     *)
<1>AsksSome.
    ASSUME NEW r \in RP, NEW tab \in Seq(Entry), NEW f, TabType(f), Keep(tab, f, r), NEW fd, NEW mode,
           "open" \in mode, NEW todo, NEW u, ModeOf(f, u) # {},
           Waits(todo, mode, fd, tab, f, r) \/ BackWaits(todo, mode, tab, f, r)
    PROVE  _contab_get(tab, r) # {}
  <2> USE <1>AsksSome
  <2> DEFINE D == All(f)
             m == ModeOf(f, fd)
  <2>1. OneRow(tab, r) /\ Files(f, r) /\ "open" \in Bit /\ "open" \in ModeOf(f, u)
    BY DEF Keep, Files, ModeOf, Bit
  <2>2. D["open"] >= 1 /\ D["open"] \in Nat
    BY <2>1, Counts DEF InUseCountsClaim, AllTypeClaim
  <2>3. Both(f, mode)["open"] = D["open"] + Is("open", mode)
    BY <2>1, Counts DEF BothTypeClaim
  <2>4. After(f, fd, mode)["open"] = D["open"] - Is("open", m) + Is("open", mode)
    BY <2>1, Counts, SMTT(30) DEF AfterTypeClaim
  <2>5. Is("open", mode) = 1 /\ Is("open", m) \in 0..1
    BY DEF Is
  <2>6. Row(tab).count["open"] >= D["open"] \/ Row(tab).count["open"] >= Both(f, mode)["open"]
        \/ Row(tab).count["open"] >= After(f, fd, mode)["open"]
    BY <2>1 DEF Waits, BackWaits, Held, Undoes, Covers
  <2>7. Row(tab).count["open"] \in Int
    BY <2>1, Rows DEF RowTypeClaim
  <2> HIDE DEF D, m
  <2>8. Row(tab).count["open"] > 0
    BY <2>2, <2>3, <2>4, <2>5, <2>6, <2>7
  <2> QED
    BY <2>1, <2>8, Rows DEF RowGetClaim
<1>StepStays. StepStaysClaim
  <2> SUFFICES
      ASSUME Inv, Cover, [Next]_vars
      PROVE  [StaysOpen]_vars
    BY DEF StepStaysClaim
  <2> SUFFICES ASSUME NEW rp \in RP, OneThread, live, live', up', Cardinality(program.rps) = 1,
                      NEW s \in Thread, call[s].pc = "connect", call[s].mode # {},
                      NEW fd \in DOMAIN fdtab, InUse(fd), fdtab[fd].rp = rp, open[rp] # {}
               PROVE  open'[rp] # {}
    BY DEF StaysOpen
  <2>1. Types
    BY DEF Inv
  <2>2. PICK t \in Thread : One(t)
    BY <2>1, <1>Alone
  <2>3. PICK r \in RP : program.rps = {r}
    BY <2>1, <1>AloneWith
  <2>4. CASE \E u \in Thread : robject_open(u)
    <3>1. PICK u \in Thread : robject_open(u)
      BY <2>4
    <3>2. /\ serve[u] \in Request /\ serve[u].st # {}
          /\ open' = [open EXCEPT ![serve[u].rp] = serve[u].st]
      BY <2>1, <3>1, Serving DEF DoneStepClaim
    <3> QED
      BY <2>1, <3>2 DEF Types
  <2>5. CASE \E u \in Thread : __close(u)
    <3>1. PICK u \in Thread : __close(u)
      BY <2>5
    <3>2. /\ call[u].pc = "connect" /\ u \in program.threads
          /\ serve[u].st = {} /\ up
      BY <2>1, <3>1, Serving DEF DoneStepClaim, __close
    <3>3. u = t /\ s = t
      BY <2>1, <2>2, <3>2, Moves DEF InCallClaim, One
    <3>4. Real(call[t], serve[t], contab, open) /\ Phase(call[t], contab, fdtab, r)
      BY <2>2, <2>3, <3>2 DEF Inv, Cover
    <3> DEFINE k == call[t]
    <3>5. /\ Keep(contab, fdtab, r) /\ "open" \in k.mode
          /\ Waits(k.todo, k.mode, k.fd, contab, fdtab, r) \/ BackWaits(k.todo, k.mode, contab, fdtab, r)
      BY <3>3, <3>4 DEF Phase
    <3>6. Head(k.todo).rp = r
      BY <3>5, Plans, SMTT(30) DEF WaitHeadClaim
    <3>7. serve[t].st = _contab_get(contab, r)
      BY <3>2, <3>3, <3>4, <3>6 DEF Real
    <3>8. ModeOf(fdtab, fd) # {} /\ contab \in Seq(Entry) /\ TabType(fdtab)
      BY <2>1 DEF InUse, fd_mode, ModeOf, Types
    <3> HIDE DEF k
    <3>9. _contab_get(contab, r) # {}
      BY <3>5, <3>8, <1>AsksSome
    <3> QED
      BY <3>2, <3>3, <3>7, <3>9
  <2>6. CASE ~(\E u \in Thread : robject_open(u) \/ __close(u))
    <3>1. \A u, op, d, p, mode : Called(u, op, d, p, mode) => open' = open
      BY DEF Called, server
    <3>2. \A u, d, p, mode : ropen(u, d, p, mode) => open' = open
      BY <3>1, Zenon DEF ropen
    <3>3. \A u, old, d : dup2(u, old, d) \/ close(u, d) \/ ropen_null(u, d) => open' = open
      <4>1. \A u, d : ropen_null(u, d) => open' = open
        BY DEF ropen_null, server
      <4> QED
        BY <3>1, <3>2, <4>1, Zenon DEF dup2, close
    <3>4. \A u \in Thread : ropen_alloc(u) \/ read_mode(u) \/ read_rp(u) \/ rp_change(u) => open' = open
      BY DEF ropen_alloc, read_mode, read_rp, rp_change, server
    <3>5. \A u \in Thread : rp_connect(u) \/ rp_connected(u) \/ finish(u) \/ __open(u) => open' = open
      BY DEF rp_connect, rp_connected, finish, __open, server
    <3>6. UNCHANGED vars => open' = open
      BY DEF vars
    <3>7. ~exit /\ ~server_exit /\ ~__close_handler
      BY <2>1 DEF exit, server_exit, __close_handler, Types
    <3>8. open' = open
      BY <2>6, <3>2, <3>3, <3>4, <3>5, <3>6, <3>7, Zenon DEF Next, ThreadStep, ServerStep
    <3> QED
      BY <3>8
  <2> QED
    BY <2>4, <2>5, <2>6
<1> QED
  BY <1>ExactOne, <1>CoversOne, <1>StepStays

-----------------------------------------------------------------------------
(* The library, from here on.                                              *)
INSTANCE FiniteSetTheorems

(* A nonempty set of naturals has a least member: the form in which the    *)
(* proofs use induction.                                                   *)
LEMMA LeastNat ==
  ASSUME NEW S \in SUBSET Nat, S # {}
  PROVE  \E m \in S : \A k \in S : m <= k
<1> DEFINE Less == OpToRel(<, Nat)
<1>1. \E x \in S : \A y \in S : <<y, x>> \notin Less
  BY NatLessThanWellFounded, WFMin, Zenon
<1>2. \A x, y \in Nat : <<y, x>> \in Less <=> y < x
  BY DEF OpToRel
<1> HIDE DEF Less
<1>3. PICK x \in S : \A y \in S : <<y, x>> \notin Less
  BY <1>1, Zenon
<1>4. x \in Nat /\ \A y \in S : y \in Nat
  OBVIOUS
<1>5. \A y \in S : ~(y < x)
  BY <1>2, <1>3, <1>4, Zenon
<1>6. \A y \in S : x <= y
  BY <1>4, <1>5
<1> QED
  BY <1>6

(* The facts that the lemmas assume.                                       *)
LEMMA CountingHolds == Counting
<1>1. LeastNatural
  BY LeastNat DEF LeastNatural
<1>2. IntervalSize
  BY FS_Interval DEF IntervalSize
<1>3. SizeNatural
  BY FS_CardinalityType DEF SizeNatural
<1>4. SubsetFinite
  BY FS_Subset DEF SubsetFinite
<1>5. EmptySize
  BY FS_EmptySet DEF EmptySize
<1>6. SingletonSize
  BY FS_Singleton DEF SingletonSize
<1>7. OneMore
  BY FS_AddElement DEF OneMore
<1>8. OneLess
  BY FS_RemoveElement DEF OneLess
<1> QED
  BY <1>1, <1>2, <1>3, <1>4, <1>5, <1>6, <1>7, <1>8 DEF Counting

(* For every number of threads, resources and descriptors: between the     *)
(* calls of a program with one thread, the status that the server holds is *)
(* the one that the connection table of the program says (contab.c:80,     *)
(* 117, 155), whatever was refused and undone on the way.                  *)
THEOREM StatusExact == Spec => []RealExact
<1>1. Init => Inv
  BY CountingHolds, Keeps DEF InitInvClaim
<1>2. Inv /\ [Next]_vars => Inv'
  BY CountingHolds, Keeps DEF StepInvClaim
<1>3. Inv => RealExact
  BY CountingHolds, Results DEF ExactOneClaim
<1> QED
  BY <1>1, <1>2, <1>3, PTL DEF Spec

(* "The real connection will have a status that is a superset of <status>  *)
(* until this connection is removed" (contab.c:257-259), for every table   *)
(* and every set of modes: between the calls of a program of one thread    *)
(* that uses one resource, the server grants all that the modes of its     *)
(* descriptors stand for.                                                  *)
THEOREM StatusCovers == ASSUME Kept PROVE Spec => []SupersetOfOne
<1>1. Init => Inv /\ Cover
  BY CountingHolds, Keeps, Phases DEF InitInvClaim, InitCoverClaim
<1>2. Inv /\ Cover /\ [Next]_vars => Inv' /\ Cover'
  BY CountingHolds, Keeps, Phases DEF StepInvClaim, StepCoverClaim
<1>3. Inv /\ Cover => SupersetOfOne
  BY CountingHolds, Results DEF CoversOneClaim
<1> QED
  BY <1>1, <1>2, <1>3, PTL DEF Spec

(* "the connection is never fully closed" (ropen.c:24), for every table    *)
(* and every set of modes: no step of a ropen() or dup2() of a program of  *)
(* one thread takes away the status of the resource, while a descriptor    *)
(* of it is in use.                                                        *)
THEOREM NeverClosedOnTheWay == ASSUME Kept PROVE Spec => NeverFullyClosed
<1>1. Init => Inv /\ Cover
  BY CountingHolds, Keeps, Phases DEF InitInvClaim, InitCoverClaim
<1>2. Inv /\ Cover /\ [Next]_vars => Inv' /\ Cover'
  BY CountingHolds, Keeps, Phases DEF StepInvClaim, StepCoverClaim
<1>3. Inv /\ Cover /\ [Next]_vars => [StaysOpen]_vars
  BY CountingHolds, Results DEF StepStaysClaim
<1>4. NeverFullyClosed <=> [][StaysOpen]_vars
  BY DEF NeverFullyClosed, StaysOpen
<1> QED
  BY <1>1, <1>2, <1>3, <1>4, PTL DEF Spec

=============================================================================
