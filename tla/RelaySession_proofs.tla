------------------------ MODULE RelaySession_proofs ------------------------
(***************************************************************************)
(* Proofs about RelaySession for every set of connections and devices and  *)
(* every limit: the session books agree with the connections until a       *)
(* restart leaves a handler behind, and only the flush goroutine's last    *)
(* call can leave a session in them.  SessionInv is inductive; FlowInv is  *)
(* what the books need to know of the control state: who can still enter a *)
(* session, and that a session is left once.                               *)
(***************************************************************************)
EXTENDS RelaySession, FiniteSetTheorems, TLAPS

-----------------------------------------------------------------------------
(***************************************************************************)
(* Sets of connections                                                     *)
(***************************************************************************)
LEMMA ConnSets ==
    ASSUME NEW S \in SUBSET Conns
    PROVE  IsFiniteSet(S) /\ Cardinality(S) \in Nat
  BY ConnAssumption, FS_Subset, FS_CardinalityType

LEMMA OneMore ==
    ASSUME NEW S \in SUBSET Conns, NEW c \in Conns, c \notin S
    PROVE  Cardinality(S \cup {c}) = Cardinality(S) + 1
  BY ConnSets, FS_AddElement

LEMMA OneLess ==
    ASSUME NEW S \in SUBSET Conns, NEW c \in S
    PROVE  Cardinality(S \ {c}) = Cardinality(S) - 1 /\ Cardinality(S) > 0
  <1>1. IsFiniteSet(S) /\ Cardinality(S) \in Nat BY ConnSets
  <1>2. Cardinality(S) # 0 BY <1>1, FS_EmptySet
  <1>3. Cardinality(S \ {c}) = Cardinality(S) - 1 BY <1>1, FS_RemoveElement
  <1> QED BY <1>1, <1>2, <1>3

USE DEF books, session, life, Open, PCs, Handled, Pumps, Dev

-----------------------------------------------------------------------------
(***************************************************************************)
(* Types                                                                   *)
(***************************************************************************)
LEMMA TypeInit == Init => TypeOK
  <1> SUFFICES ASSUME Init PROVE TypeOK OBVIOUS
  <1>1. /\ pc \in [Conns -> PCs] /\ pumps \in [Conns -> SUBSET Pumps]
        /\ flush \in [Conns -> {"none", "run", "ended"}]
    BY DEF Init
  <1>2. /\ online \in [Devices -> Nat] /\ relays \in [Devices -> SUBSET Conns]
        /\ off \in [Devices -> BOOLEAN] /\ active \in Int /\ boots \in Nat
    BY DEF Init
  <1> QED BY <1>1, <1>2 DEF Init, TypeOK

LEMMA CancelType ==
    ASSUME TypeOK, NEW S, Cancel(S)
    PROVE  done' \in [Conns -> BOOLEAN]
  BY DEF TypeOK, Cancel

LEMMA EnterType ==
    ASSUME TypeOK, NEW c \in Conns, NEW res, EnterSession(c, res)
    PROVE  /\ known' \in [Conns -> BOOLEAN] /\ entered' \in [Conns -> BOOLEAN]
           /\ late' \in [Conns -> BOOLEAN]
           /\ online' \in [Devices -> Nat] /\ relays' \in [Devices -> SUBSET Conns]
  <1> DEFINE after == pc[c] \in Handled
  <1>1. after \in BOOLEAN OBVIOUS
  <1>2. DeviceOf[c] \in Devices BY DeviceAssumption
  <1>3. \/ late' = late \/ late' = [late EXCEPT ![c] = after]
    BY DEF EnterSession
  <1>4. late' \in [Conns -> BOOLEAN]
    <2> HIDE DEF after
    <2> QED BY <1>1, <1>3 DEF TypeOK
  <1>5. known' \in [Conns -> BOOLEAN] /\ entered' \in [Conns -> BOOLEAN]
    BY DEF TypeOK, EnterSession
  <1>6. online' \in [Devices -> Nat] /\ relays' \in [Devices -> SUBSET Conns]
    BY <1>2 DEF TypeOK, EnterSession
  <1> QED BY <1>4, <1>5, <1>6

LEMMA TypeConn ==
    ASSUME TypeOK, NEW c \in Conns, ConnStep(c)
    PROVE  TypeOK'
  <1> USE DeviceAssumption DEF TypeOK, Goto
  <1>1. CASE Accept(c) BY <1>1 DEF Accept
  <1>2. CASE SetupStep(c)
    <2>1. CASE Slot(c) BY <2>1 DEF Slot
    <2>2. CASE HandshakeOK(c) BY <2>2 DEF HandshakeOK
    <2>3. CASE HandshakeFails(c) BY <2>3 DEF HandshakeFails
    <2>4. CASE GetConf(c)
      <3>1. done' \in [Conns -> BOOLEAN] BY <2>4, CancelType DEF GetConf
      <3> QED BY <2>4, <3>1 DEF GetConf
    <2>5. CASE NoGetConf(c) BY <2>5 DEF NoGetConf
    <2>6. CASE GiveUp(c) BY <2>6 DEF GiveUp
    <2>7. CASE Dial(c) BY <2>7 DEF Dial
    <2>8. CASE FirstEnter(c)
      <3>1. /\ known' \in [Conns -> BOOLEAN] /\ entered' \in [Conns -> BOOLEAN]
            /\ late' \in [Conns -> BOOLEAN]
            /\ online' \in [Devices -> Nat] /\ relays' \in [Devices -> SUBSET Conns]
        BY <2>8, EnterType DEF FirstEnter
      <3>2. UNCHANGED <<left, done, idle, active, off, life>>
        BY <2>8 DEF FirstEnter
      <3>3. /\ pc' \in [Conns -> PCs] /\ pumps' \in [Conns -> SUBSET Pumps]
            /\ flush' \in [Conns -> {"none", "run", "ended"}]
        BY <2>8 DEF FirstEnter
      <3> HIDE DEF Goto
      <3> QED BY <3>1, <3>2, <3>3
    <2> QED BY <1>2, <2>1, <2>2, <2>3, <2>4, <2>5, <2>6, <2>7, <2>8 DEF SetupStep
  <1>3. CASE FlushStep(c)
    <2>1. /\ known' \in [Conns -> BOOLEAN] /\ entered' \in [Conns -> BOOLEAN]
          /\ late' \in [Conns -> BOOLEAN]
          /\ online' \in [Devices -> Nat] /\ relays' \in [Devices -> SUBSET Conns]
      BY <1>3, EnterType DEF FlushStep, FlushTick, FlushLast
    <2>2. done' \in [Conns -> BOOLEAN]
      BY <1>3, CancelType DEF FlushStep, FlushTick, FlushLast
    <2>3. /\ flush' \in [Conns -> {"none", "run", "ended"}]
          /\ UNCHANGED <<pc, pumps, left, idle, active, off, life>>
      BY <1>3 DEF FlushStep, FlushTick, FlushLast
    <2> QED BY <2>1, <2>2, <2>3
  <1>4. CASE CleanupStep(c)
    <2>1. CASE PumpsDone(c) BY <2>1 DEF PumpsDone
    <2>2. CASE Look(c) BY <2>2 DEF Look
    <2>3. CASE Leave(c) BY <2>3 DEF Leave
    <2>4. CASE Unregister(c) BY <2>4 DEF Unregister
    <2>5. CASE Close(c)
      <3>1. done' \in [Conns -> BOOLEAN] BY <2>5, CancelType DEF Close
      <3>2. pc' \in [Conns -> PCs] /\ active' \in Int BY <2>5 DEF Close
      <3>3. UNCHANGED <<pumps, flush, session, left, idle, books, off, life>>
        BY <2>5 DEF Close
      <3> HIDE DEF Goto
      <3> QED BY <3>1, <3>2, <3>3
    <2> QED BY <1>4, <2>1, <2>2, <2>3, <2>4, <2>5 DEF CleanupStep
  <1>5. CASE Keepalive(c) \/ Silence(c)
    <2>1. idle' \in [Conns -> BOOLEAN] BY <1>5 DEF Keepalive, Silence
    <2>2. UNCHANGED <<pc, pumps, flush, session, left, done, active, books, off, life>>
      BY <1>5 DEF Keepalive, Silence
    <2> QED BY <2>1, <2>2
  <1>6. ASSUME NEW p \in Pumps, Packet(c, p) PROVE TypeOK'
    <2>1. /\ known' \in [Conns -> BOOLEAN] /\ entered' \in [Conns -> BOOLEAN]
          /\ late' \in [Conns -> BOOLEAN]
          /\ online' \in [Devices -> Nat] /\ relays' \in [Devices -> SUBSET Conns]
      BY <1>6, EnterType DEF Packet
    <2>2. done' \in [Conns -> BOOLEAN] BY <1>6, CancelType DEF Packet, PumpStops
    <2>3. pumps' \in [Conns -> SUBSET Pumps] BY <1>6 DEF Packet, PumpStops
    <2>4. /\ idle' \in [Conns -> BOOLEAN]
          /\ UNCHANGED <<pc, flush, left, active, off, life>>
      BY <1>6 DEF Packet
    <2> QED BY <2>1, <2>2, <2>3, <2>4
  <1>7. ASSUME NEW p \in Pumps, PumpEnds(c, p) PROVE TypeOK'
    <2>1. done' \in [Conns -> BOOLEAN] BY <1>7, CancelType DEF PumpEnds, PumpStops
    <2> QED BY <1>7, <2>1 DEF PumpEnds, PumpStops
  <1> QED BY <1>1, <1>2, <1>3, <1>4, <1>5, <1>6, <1>7 DEF ConnStep

LEMMA TypeStep ==
    ASSUME TypeOK, [Next]_vars
    PROVE  TypeOK'
  <1> USE DeviceAssumption DEF TypeOK, Cancel
  <1>1. ASSUME NEW c \in Conns, ConnStep(c) PROVE TypeOK' BY <1>1, TypeConn
  <1>2. ASSUME NEW d \in Devices, EvictIdle(d) PROVE TypeOK' BY <1>2 DEF EvictIdle
  <1>3. ASSUME NEW d \in Devices, NEW b \in BOOLEAN, Suspend(d, b) PROVE TypeOK'
    BY <1>3 DEF Suspend
  <1>4. CASE Stop BY <1>4 DEF Stop
  <1>5. CASE Boot BY <1>5 DEF Boot
  <1>6. CASE UNCHANGED vars BY <1>6 DEF vars
  <1> QED BY <1>1, <1>2, <1>3, <1>4, <1>5, <1>6 DEF Next

-----------------------------------------------------------------------------
(***************************************************************************)
(* The books                                                               *)
(***************************************************************************)
\* Nothing counted, nothing that counts.
LEMMA SameBooks ==
    ASSUME BooksAgree, UNCHANGED <<entered, left, online, active, dropped>>,
           \A r \in Conns : pc'[r] \in Open <=> pc[r] \in Open
    PROVE  BooksAgree'
  <1>1. In(Open)' = In(Open) BY DEF In
  <1>2. \A d \in Devices : Counted(d)' = Counted(d) BY DEF Counted
  <1> QED BY <1>1, <1>2 DEF BooksAgree

\* A handler that moves, opening or closing its connection, and at most takes
\* sessions off the eviction list.
LEMMA MoveKeeps ==
    ASSUME SessionInv, NEW c \in Conns, NEW l \in PCs, Goto(c, l),
           UNCHANGED <<entered, left, late, online, dropped>>,
           \/ (pc[c] \in Open <=> l \in Open) /\ active' = active
           \/ pc[c] \notin Open /\ l \in Open /\ active' = active + 1
           \/ pc[c] \in Open /\ l \notin Open /\ active' = active - 1,
           \A d \in Devices : relays'[d] \subseteq relays[d],
           l \in {"close", "ended"} /\ entered[c] => late[c] \/ left[c],
           l \in {"close", "ended"} /\ (\E d \in Devices : c \in relays'[d]) => late[c]
    PROVE  BooksAgree' /\ LeakIsLate' /\ RelaysLive'
  <1> USE DEF SessionInv
  <1>1. /\ pc'[c] = l
        /\ \A r \in Conns : r # c => pc'[r] = pc[r]
    BY DEF TypeOK, Goto
  <1>2. BooksAgree'
    <2>1. \A d \in Devices : Counted(d)' = Counted(d) BY DEF Counted
    <2>2. ~dropped => active' = Cardinality(In(Open)')
      <3>1. CASE (pc[c] \in Open <=> l \in Open) /\ active' = active
        <4>1. In(Open)' = In(Open) BY <1>1, <3>1 DEF In
        <4> QED BY <3>1, <4>1 DEF BooksAgree
      <3>2. CASE pc[c] \notin Open /\ l \in Open /\ active' = active + 1
        <4>1. In(Open)' = In(Open) \cup {c} /\ c \notin In(Open)
          BY <1>1, <3>2 DEF In
        <4>2. Cardinality(In(Open) \cup {c}) = Cardinality(In(Open)) + 1
          BY <4>1, OneMore DEF In
        <4> QED BY <3>2, <4>1, <4>2 DEF BooksAgree
      <3>3. CASE pc[c] \in Open /\ l \notin Open /\ active' = active - 1
        <4>1. In(Open)' = In(Open) \ {c} /\ c \in In(Open)
          BY <1>1, <3>3 DEF In
        <4>2. Cardinality(In(Open) \ {c}) = Cardinality(In(Open)) - 1
          BY <4>1, OneLess DEF In
        <4> QED BY <3>3, <4>1, <4>2 DEF BooksAgree
      <3> QED BY <3>1, <3>2, <3>3
    <2> QED BY <2>1, <2>2 DEF BooksAgree
  <1>3. LeakIsLate' BY <1>1 DEF LeakIsLate
  <1>4. RelaysLive' BY <1>1 DEF RelaysLive, TypeOK
  <1> QED BY <1>2, <1>3, <1>4

\* enterSession, whoever calls it.
LEMMA EnterKeeps ==
    ASSUME SessionInv, NEW c \in Conns, NEW res, EnterSession(c, res),
           UNCHANGED <<left, active, dropped>>,
           \A r \in Conns : r # c => pc'[r] = pc[r],
           \/ pc'[c] = pc[c]
           \/ pc[c] = "dialed" /\ pc'[c] \in {"run", "cleanup"},
           pc[c] = "dialed" \/ pumps[c] # {} \/ flush[c] = "run"
    PROVE  BooksAgree' /\ LeakIsLate' /\ RelaysLive'
  <1> USE DEF SessionInv
  <1>1. \A r \in Conns : pc'[r] \in Open <=> pc[r] \in Open OBVIOUS
  <1>2. CASE UNCHANGED <<entered, late, online, relays>>
    <2>1. BooksAgree' BY <1>1, <1>2, SameBooks
    <2>2. LeakIsLate' BY <1>2 DEF LeakIsLate
    <2>3. RelaysLive' BY <1>2 DEF RelaysLive, TypeOK
    <2> QED BY <2>1, <2>2, <2>3
  <1>3. CASE ~UNCHANGED <<entered, late, online, relays>>
    <2> DEFINE d == Dev(c)
               after == pc[c] \in Handled
    <2>1. /\ d \in Devices /\ ~entered[c] /\ ~Full(d)
          /\ entered' = [entered EXCEPT ![c] = TRUE]
          /\ late' = [late EXCEPT ![c] = after]
          /\ online' = [online EXCEPT ![d] = @ + 1]
          /\ relays' = [relays EXCEPT ![d] = @ \cup {c}]
      BY <1>3, DeviceAssumption DEF EnterSession
    <2>2. ~left[c] BY <2>1 DEF FlowInv
    <2>3. /\ entered'[c] /\ late'[c] = after
          /\ \A r \in Conns : r # c => entered'[r] = entered[r] /\ late'[r] = late[r]
      BY <2>1 DEF TypeOK
    <2>4. BooksAgree'
      <3> SUFFICES ASSUME ~dropped
                   PROVE  /\ active = Cardinality(In(Open)')
                          /\ \A e \in Devices :
                               /\ online'[e] = Cardinality(Counted(e)')
                               /\ DeviceLimit > 0 => online'[e] <= DeviceLimit
        BY DEF BooksAgree
      <3>1. In(Open)' = In(Open) BY <1>1 DEF In
      <3>2. ASSUME NEW e \in Devices, e # d
            PROVE  /\ online'[e] = Cardinality(Counted(e)')
                   /\ DeviceLimit > 0 => online'[e] <= DeviceLimit
        <4>1. Counted(e)' = Counted(e) BY <2>3, <3>2 DEF Counted
        <4>2. online'[e] = online[e] BY <2>1, <3>2 DEF TypeOK
        <4> QED BY <4>1, <4>2 DEF BooksAgree
      <3>3. /\ online'[d] = Cardinality(Counted(d)')
            /\ DeviceLimit > 0 => online'[d] <= DeviceLimit
        <4>1. Counted(d)' = Counted(d) \cup {c} BY <2>2, <2>3 DEF Counted
        <4>2. c \notin Counted(d) BY <2>1 DEF Counted
        <4>3. Cardinality(Counted(d) \cup {c}) = Cardinality(Counted(d)) + 1
          BY <4>2, OneMore DEF Counted
        <4>4. online[d] = Cardinality(Counted(d)) BY <2>1 DEF BooksAgree
        <4>5. online'[d] = online[d] + 1 BY <2>1 DEF TypeOK
        <4>6. DeviceLimit > 0 => online[d] + 1 <= DeviceLimit
          BY <2>1, SlotAssumption DEF Full, TypeOK
        <4> QED BY <4>1, <4>3, <4>4, <4>5, <4>6
      <3> QED BY <3>1, <3>2, <3>3 DEF BooksAgree
    <2>5. LeakIsLate' BY <2>3 DEF LeakIsLate
    <2>6. RelaysLive'
      <3> SUFFICES ASSUME NEW e \in Devices, NEW r \in relays'[e]
                   PROVE  /\ entered'[r] /\ Dev(r) = e
                          /\ pc'[r] \in {"close", "ended"} => late'[r]
        BY DEF RelaysLive
      <3>1. CASE r = c
        <4>1. e = d
          <5>1. c \notin relays[e] BY <2>1 DEF RelaysLive
          <5> QED BY <2>1, <3>1, <5>1 DEF TypeOK
        <4>2. pc'[c] \in {"close", "ended"} => after BY DEF Handled
        <4> QED BY <2>3, <3>1, <4>1, <4>2
      <3>2. CASE r # c
        <4>1. r \in relays[e] /\ r \in Conns BY <2>1, <3>2 DEF TypeOK
        <4> QED BY <2>3, <3>2, <4>1 DEF RelaysLive
      <3> QED BY <3>1, <3>2
    <2> QED BY <2>4, <2>5, <2>6
  <1> QED BY <1>2, <1>3

-----------------------------------------------------------------------------
(***************************************************************************)
(* The steps of a connection                                               *)
(***************************************************************************)
\* Before the session there is nothing to leave.
LEMMA NotYet ==
    ASSUME SessionInv, NEW c \in Conns,
           pc[c] \in {"new", "accepted", "handshake", "first", "ready", "dialed"}
    PROVE  /\ ~entered[c] /\ ~left[c] /\ pumps[c] = {} /\ flush[c] # "run"
           /\ \A d \in Devices : c \notin relays[d]
  BY DEF SessionInv, FlowInv, RelaysLive

LEMMA SetupKeeps ==
    ASSUME SessionInv, NEW c \in Conns, Accept(c) \/ SetupStep(c)
    PROVE  FlowInv' /\ BooksAgree' /\ LeakIsLate' /\ RelaysLive'
  <1> USE DEF SessionInv
  <1>1. CASE FirstEnter(c)
    <2>1. PICK res : /\ pc[c] = "dialed" /\ EnterSession(c, res)
                     /\ \/ Goto(c, "cleanup") /\ UNCHANGED <<pumps, flush>>
                        \/ /\ Goto(c, "run")
                           /\ pumps' = [pumps EXCEPT ![c] = Pumps]
                           /\ flush' = [flush EXCEPT ![c] = "run"]
                     /\ UNCHANGED <<left, active, dropped>>
      BY <1>1 DEF FirstEnter
    <2>2. /\ pc'[c] \in {"run", "cleanup"}
          /\ \A r \in Conns : r # c => pc'[r] = pc[r]
      BY <2>1 DEF TypeOK, Goto
    <2>3. BooksAgree' /\ LeakIsLate' /\ RelaysLive' BY <2>1, <2>2, EnterKeeps
    <2>4. \A r \in Conns : r # c => entered'[r] = entered[r] /\ late'[r] = late[r]
      BY <2>1 DEF EnterSession, TypeOK
    <2>5. ~left[c] /\ pumps[c] = {} /\ flush[c] # "run" BY <2>1, NotYet
    <2>6. \/ pc'[c] = "cleanup" /\ pumps' = pumps /\ flush' = flush
          \/ /\ pc'[c] = "run"
             /\ \A r \in Conns : r # c => pumps'[r] = pumps[r] /\ flush'[r] = flush[r]
      BY <2>1 DEF TypeOK, Goto
    <2>7. FlowInv' BY <2>1, <2>2, <2>4, <2>5, <2>6 DEF FlowInv
    <2> QED BY <2>3, <2>7
  <1>2. CASE ~FirstEnter(c)
    <2> DEFINE l == pc'[c]
    <2>0. /\ l \in {"accepted", "handshake", "first", "ready", "dialed", "close", "ended"}
          /\ Goto(c, l)
      BY <1>2 DEF Goto, TypeOK, SetupStep, Accept, Slot, HandshakeOK, HandshakeFails,
                  GetConf, NoGetConf, GiveUp, Dial
    <2>1. \/ (pc[c] \in Open <=> l \in Open) /\ active' = active
          \/ pc[c] \notin Open /\ l \in Open /\ active' = active + 1
      BY <1>2 DEF Goto, TypeOK, SetupStep, Accept, Slot, HandshakeOK, HandshakeFails, GetConf,
                  NoGetConf, GiveUp, Dial
    <2>2. /\ pc[c] \in {"new", "accepted", "handshake", "first", "ready"}
          /\ UNCHANGED <<pumps, flush, entered, late, left, online, dropped>>
          /\ relays' = relays \/ relays' = [relays EXCEPT ![Dev(c)] = @ \ Idle(Dev(c))]
      BY <1>2 DEF SetupStep, Accept, Slot, HandshakeOK, HandshakeFails, GetConf,
                  NoGetConf, GiveUp, Dial
    <2>3. \A d \in Devices : relays'[d] \subseteq relays[d] BY <2>2 DEF TypeOK
    <2>4. /\ ~entered[c] /\ ~left[c] /\ pumps[c] = {} /\ flush[c] # "run"
          /\ \A d \in Devices : c \notin relays'[d]
      BY <2>2, <2>3, NotYet
    <2>5. BooksAgree' /\ LeakIsLate' /\ RelaysLive'
      BY <2>0, <2>1, <2>2, <2>3, <2>4, MoveKeeps
    <2>6. \A r \in Conns : r # c => pc'[r] = pc[r]
      BY <2>0 DEF TypeOK, Goto
    <2>7. FlowInv' BY <2>0, <2>2, <2>4, <2>6 DEF FlowInv
    <2> QED BY <2>5, <2>7
  <1> QED BY <1>1, <1>2

\* The pumps and the flush goroutine: no handler moves.
LEMMA RunKeeps ==
    ASSUME SessionInv, NEW c \in Conns,
           FlushStep(c) \/ Keepalive(c) \/ Silence(c) \/
           \E p \in Pumps : Packet(c, p) \/ PumpEnds(c, p)
    PROVE  FlowInv' /\ BooksAgree' /\ LeakIsLate' /\ RelaysLive'
  <1> USE DEF SessionInv
  <1>1. UNCHANGED <<pc, left, active, dropped>>
    BY DEF FlushStep, FlushTick, FlushLast, Keepalive, Silence, Packet, PumpEnds
  <1>2. \A r \in Conns : /\ pumps'[r] # {} => pumps[r] # {}
                         /\ flush'[r] = "run" => flush[r] = "run"
    BY DEF FlushStep, FlushTick, FlushLast, Keepalive, Silence, Packet, PumpEnds,
           PumpStops, TypeOK
  <1>3. CASE UNCHANGED <<entered, late, online, relays>>
    <2>1. BooksAgree' BY <1>1, <1>3, SameBooks
    <2>2. LeakIsLate' /\ RelaysLive' BY <1>1, <1>3 DEF LeakIsLate, RelaysLive, TypeOK
    <2>3. FlowInv' BY <1>1, <1>2, <1>3 DEF FlowInv
    <2> QED BY <2>1, <2>2, <2>3
  <1>4. CASE (pumps[c] # {} \/ flush[c] = "run") /\ \E res : EnterSession(c, res)
    <2>1. BooksAgree' /\ LeakIsLate' /\ RelaysLive' BY <1>1, <1>4, EnterKeeps
    <2>2. /\ pc[c] \in {"run", "cleanup"} \cup Handled
          /\ \A r \in Conns : r # c => entered'[r] = entered[r] /\ late'[r] = late[r]
          /\ entered[c] => entered'[c] /\ late'[c] = late[c]
          /\ ~entered[c] /\ entered'[c] /\ pc[c] = "close" => late'[c]
      BY <1>4 DEF EnterSession, TypeOK, FlowInv
    <2>3. FlowInv' BY <1>1, <1>2, <2>2 DEF FlowInv
    <2> QED BY <2>1, <2>3
  <1>5. \/ UNCHANGED <<entered, late, online, relays>>
        \/ (pumps[c] # {} \/ flush[c] = "run") /\ \E res : EnterSession(c, res)
    BY DEF FlushStep, FlushTick, FlushLast, Keepalive, Silence, Packet, PumpEnds
  <1> QED BY <1>3, <1>4, <1>5

LEMMA CleanupKeeps ==
    ASSUME SessionInv, NEW c \in Conns, CleanupStep(c)
    PROVE  FlowInv' /\ BooksAgree' /\ LeakIsLate' /\ RelaysLive'
  <1> USE DEF SessionInv
  <1>1. CASE Leave(c)
    <2> DEFINE d == Dev(c)
    <2>1. /\ pc[c] = "leave" /\ entered[c] /\ d \in Devices
          /\ online' = [online EXCEPT ![d] = IF @ > 0 THEN @ - 1 ELSE 0]
          /\ left' = [left EXCEPT ![c] = TRUE]
          /\ Goto(c, "unregister")
          /\ UNCHANGED <<pumps, flush, session, active, relays, dropped>>
      BY <1>1, DeviceAssumption DEF Leave, FlowInv
    <2>2. /\ pc'[c] = "unregister" /\ left'[c]
          /\ \A r \in Conns : r # c => pc'[r] = pc[r] /\ left'[r] = left[r]
      BY <2>1 DEF TypeOK, Goto
    <2>3. FlowInv' BY <2>1, <2>2 DEF FlowInv
    <2>4. LeakIsLate' BY <2>1, <2>2 DEF LeakIsLate
    <2>5. RelaysLive' BY <2>1, <2>2 DEF RelaysLive, TypeOK
    <2>6. BooksAgree'
      <3> SUFFICES ASSUME ~dropped
                   PROVE  /\ active = Cardinality(In(Open)')
                          /\ \A e \in Devices :
                               /\ online'[e] = Cardinality(Counted(e)')
                               /\ DeviceLimit > 0 => online'[e] <= DeviceLimit
        BY <2>1 DEF BooksAgree
      <3>1. In(Open)' = In(Open) BY <2>1, <2>2 DEF In
      <3>2. ASSUME NEW e \in Devices, e # d
            PROVE  /\ online'[e] = Cardinality(Counted(e)')
                   /\ DeviceLimit > 0 => online'[e] <= DeviceLimit
        <4>1. Counted(e)' = Counted(e) BY <2>1, <2>2, <3>2 DEF Counted
        <4>2. online'[e] = online[e] BY <2>1, <3>2 DEF TypeOK
        <4> QED BY <4>1, <4>2 DEF BooksAgree
      <3>3. /\ online'[d] = Cardinality(Counted(d)')
            /\ DeviceLimit > 0 => online'[d] <= DeviceLimit
        <4>1. c \in Counted(d) BY <2>1 DEF FlowInv, Counted
        <4>2. Counted(d)' = Counted(d) \ {c} BY <2>1, <2>2 DEF Counted
        <4>3. /\ Cardinality(Counted(d) \ {c}) = Cardinality(Counted(d)) - 1
              /\ Cardinality(Counted(d)) > 0
          BY <4>1, OneLess DEF Counted
        <4>4. /\ online[d] = Cardinality(Counted(d))
              /\ DeviceLimit > 0 => online[d] <= DeviceLimit
          BY <2>1 DEF BooksAgree
        <4>5. online'[d] = online[d] - 1 BY <2>1, <4>3, <4>4 DEF TypeOK
        <4> QED BY <2>1, <4>2, <4>3, <4>4, <4>5, SlotAssumption DEF TypeOK
      <3> QED BY <2>1, <3>1, <3>2, <3>3 DEF BooksAgree
    <2> QED BY <2>3, <2>4, <2>5, <2>6
  <1>2. CASE ~Leave(c)
    <2> DEFINE l == pc'[c]
    <2>0. Goto(c, l) /\ l \in {"cleanup", "leave", "close", "ended"}
      BY <1>2 DEF Goto, TypeOK, CleanupStep, PumpsDone, Look, Unregister, Close
    <2>1. /\ \/ (pc[c] \in Open <=> l \in Open) /\ active' = active
             \/ pc[c] \in Open /\ l \notin Open /\ active' = active - 1
          /\ l \in {"close", "ended"} /\ entered[c] => late[c] \/ left[c]
          /\ l = "leave" => entered[c]
          /\ l \in {"cleanup", "leave"} => dropped \/ ~left[c]
      <3> USE DEF Goto, TypeOK
      <3>1. CASE PumpsDone(c) BY <3>1 DEF PumpsDone, FlowInv
      <3>2. CASE Look(c)
        <4>1. left[c] => dropped BY <3>2 DEF Look, FlowInv
        <4> QED BY <3>2, <4>1 DEF Look
      <3>3. CASE Unregister(c) BY <3>3 DEF Unregister, FlowInv
      <3>4. CASE Close(c) BY <3>4 DEF Close, FlowInv
      <3> QED BY <1>2, <3>1, <3>2, <3>3, <3>4 DEF CleanupStep
    <2>2. /\ UNCHANGED <<pumps, flush, entered, late, left, online, dropped>>
          /\ pc[c] \in {"run", "cleanup", "unregister", "close"} /\ pumps[c] = {}
      BY <1>2 DEF CleanupStep, PumpsDone, Look, Unregister, Close, FlowInv
    <2>3. /\ \A d \in Devices : relays'[d] \subseteq relays[d]
          /\ l \in {"close", "ended"} /\ (\E d \in Devices : c \in relays'[d]) => late[c]
      <3>1. CASE Unregister(c)
        <4>1. /\ relays' = [relays EXCEPT ![Dev(c)] = @ \ {c}] /\ Dev(c) \in Devices
              /\ \A d \in Devices : c \in relays[d] => Dev(c) = d
          BY <3>1, DeviceAssumption DEF Unregister, RelaysLive
        <4> QED BY <4>1 DEF TypeOK
      <3>2. CASE ~Unregister(c)
        <4>1. relays' = relays /\ (pc[c] = "close" \/ l # "ended")
          BY <1>2, <2>0, <3>2 DEF Goto, TypeOK, CleanupStep, PumpsDone, Look, Close
        <4>2. l = "close" => ~entered[c]
          BY <1>2, <2>0, <3>2 DEF Goto, TypeOK, CleanupStep, PumpsDone, Look, Close
        <4> QED BY <4>1, <4>2 DEF RelaysLive
      <3> QED BY <3>1, <3>2
    <2>4. BooksAgree' /\ LeakIsLate' /\ RelaysLive'
      BY <2>0, <2>1, <2>2, <2>3, MoveKeeps
    <2>5. \A r \in Conns : r # c => pc'[r] = pc[r]
      BY <2>0 DEF TypeOK, Goto
    <2>6. FlowInv' BY <2>0, <2>1, <2>2, <2>5 DEF FlowInv
    <2> QED BY <2>4, <2>6
  <1> QED BY <1>1, <1>2

-----------------------------------------------------------------------------
(***************************************************************************)
(* The theorems                                                            *)
(***************************************************************************)
LEMMA SessionInit == Init => SessionInv
  <1> SUFFICES ASSUME Init PROVE SessionInv OBVIOUS
  <1>1. TypeOK BY TypeInit
  <1>2. FlowInv /\ LeakIsLate /\ RelaysLive
    BY DEF Init, FlowInv, LeakIsLate, RelaysLive
  <1>3. In(Open) = {} /\ \A d \in Devices : Counted(d) = {}
    BY DEF Init, In, Counted
  <1>4. BooksAgree
    <2>1. active = 0 /\ \A d \in Devices : online[d] = 0 BY DEF Init
    <2>2. Cardinality({}) = 0 BY FS_EmptySet
    <2>3. DeviceLimit > 0 => 0 <= DeviceLimit BY SlotAssumption
    <2> QED BY <1>3, <2>1, <2>2, <2>3 DEF BooksAgree
  <1> QED BY <1>1, <1>2, <1>4 DEF SessionInv

\* The rest of the server: eviction, suspension, a restart.
LEMMA ServerKeeps ==
    ASSUME SessionInv,
           \/ \E d \in Devices : EvictIdle(d) \/ \E b \in BOOLEAN : Suspend(d, b)
           \/ Stop \/ UNCHANGED vars
    PROVE  FlowInv' /\ BooksAgree' /\ LeakIsLate' /\ RelaysLive'
  <1> USE DEF SessionInv
  <1>1. /\ UNCHANGED <<pc, pumps, flush, entered, late, left, online, active, dropped>>
        /\ \A d \in Devices : relays'[d] \subseteq relays[d]
    BY DEF EvictIdle, Suspend, Stop, vars, TypeOK
  <1>2. BooksAgree' BY <1>1, SameBooks
  <1>3. FlowInv' /\ LeakIsLate' BY <1>1 DEF FlowInv, LeakIsLate
  <1>4. RelaysLive' BY <1>1 DEF RelaysLive
  <1> QED BY <1>2, <1>3, <1>4

\* A restart that has waited for every handler finds no book open; one that has
\* not gives up the agreement.
LEMMA BootKeeps ==
    ASSUME SessionInv, Boot
    PROVE  FlowInv' /\ BooksAgree' /\ LeakIsLate' /\ RelaysLive'
  <1> USE DEF SessionInv
  <1>1. /\ UNCHANGED <<pc, pumps, flush, entered, late, relays>>
        /\ \A c \in Conns : left'[c] = (left[c] \/ entered[c])
        /\ dropped' <=> dropped \/ In(PCs \ {"new", "ended"}) # {}
        /\ active' = 0 /\ online' = [d \in Devices |-> 0]
    BY DEF Boot
  <1>2. \A c \in Conns : pc[c] \notin {"new", "ended"} => dropped'
    <2>1. \A c \in Conns : pc[c] \in PCs BY DEF TypeOK
    <2> QED BY <1>1, <2>1 DEF In
  <1>3. FlowInv' BY <1>1, <1>2 DEF FlowInv
  <1>4. LeakIsLate' /\ RelaysLive' BY <1>1 DEF LeakIsLate, RelaysLive
  <1>5. BooksAgree'
    <2> SUFFICES ASSUME ~dropped'
                 PROVE  /\ active' = Cardinality(In(Open)')
                        /\ \A d \in Devices :
                             /\ online'[d] = Cardinality(Counted(d)')
                             /\ DeviceLimit > 0 => online'[d] <= DeviceLimit
      BY DEF BooksAgree
    <2>1. In(Open)' = {} BY <1>1, <1>2 DEF In
    <2>2. \A d \in Devices : Counted(d)' = {} BY <1>1 DEF Counted
    <2> QED BY <1>1, <2>1, <2>2, SlotAssumption, FS_EmptySet
  <1> QED BY <1>3, <1>4, <1>5

LEMMA SessionStep == SessionInv /\ [Next]_vars => SessionInv'
  <1> SUFFICES ASSUME SessionInv, [Next]_vars PROVE SessionInv' OBVIOUS
  <1>1. TypeOK' BY TypeStep DEF SessionInv
  <1>2. FlowInv' /\ BooksAgree' /\ LeakIsLate' /\ RelaysLive'
    <2>1. ASSUME NEW c \in Conns, ConnStep(c)
          PROVE  FlowInv' /\ BooksAgree' /\ LeakIsLate' /\ RelaysLive'
      BY <2>1, SetupKeeps, RunKeeps, CleanupKeeps DEF ConnStep
    <2>2. CASE Boot BY <2>2, BootKeeps
    <2> QED BY <2>1, <2>2, ServerKeeps DEF Next
  <1> QED BY <1>1, <1>2 DEF SessionInv

\* Every reachable state satisfies the inductive invariant, for every set of
\* connections and devices and every limit.
THEOREM SessionInvariant == Spec => []SessionInv
  BY SessionInit, SessionStep, PTL DEF Spec

\* onlineUsers counts each entered session once and never more than the limit,
\* and activeConns the open connections, until a restart leaves a handler
\* behind (userSessionEnter, userSessionLeave, the deferred functions of
\* handleConn).
THEOREM BooksAlwaysAgree == Spec => []BooksAgree
  <1>1. SessionInv => BooksAgree BY DEF SessionInv
  <1> QED BY <1>1, SessionInvariant, PTL

\* A session can stay behind in onlineUsers only through the flush goroutine's
\* last call of enterSession (server_conn.go, case <-pctx.Done()).
THEOREM OnlyTheLateLeak == Spec => []LeakIsLate
  <1>1. SessionInv => LeakIsLate BY DEF SessionInv
  <1> QED BY <1>1, SessionInvariant, PTL

\* The eviction list of a device holds only its entered sessions whose handler
\* is not over, the late ones excepted (relaySessionRegister, -Unregister).
THEOREM ListIsLive == Spec => []RelaysLive
  <1>1. SessionInv => RelaysLive BY DEF SessionInv
  <1> QED BY <1>1, SessionInvariant, PTL

\* Every reachable state is well typed: no count of sessions is ever negative.
THEOREM TypeCorrect == Spec => []TypeOK
  <1>1. SessionInv => TypeOK BY DEF SessionInv
  <1> QED BY <1>1, SessionInvariant, PTL
=============================================================================
