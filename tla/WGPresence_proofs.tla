------------------------- MODULE WGPresence_proofs -------------------------
(***************************************************************************)
(* Proofs about WGPresence for every set of connections and devices: the   *)
(* books of RelaySession survive the sweep of quiet devices, the sweep     *)
(* evicts no session that was counted when it looked, and only devices     *)
(* whose counters have moved are shown.                                    *)
(***************************************************************************)
EXTENDS WGPresence, RelaySession_proofs

USE DEF books, session, life, sweep, Open, PCs, Handled, Pumps, Dev

-----------------------------------------------------------------------------
(***************************************************************************)
(* Steps of RelaySession: what they leave alone                         *)
(***************************************************************************)
LEMMA LeftStays ==
    ASSUME TypeOK, [Next]_vars
    PROVE  \A c \in Conns : left[c] => left'[c]
  <1>1. ASSUME NEW c \in Conns, ConnStep(c)
        PROVE  \/ left' = left \/ left' = [left EXCEPT ![c] = TRUE]
    <2>1. CASE SetupStep(c)
      BY <2>1 DEF SetupStep, Slot, HandshakeOK, HandshakeFails, GetConf, NoGetConf,
                  GiveUp, Dial, FirstEnter
    <2>2. CASE FlushStep(c) BY <2>2 DEF FlushStep, FlushTick, FlushLast
    <2>3. CASE CleanupStep(c)
      BY <2>3 DEF CleanupStep, PumpsDone, Look, Leave, Unregister, Close
    <2>4. CASE Accept(c) \/ Keepalive(c) \/ Silence(c)
      BY <2>4 DEF Accept, Keepalive, Silence
    <2>5. CASE \E p \in Pumps : Packet(c, p) \/ PumpEnds(c, p)
      BY <2>5 DEF Packet, PumpEnds
    <2> QED BY <1>1, <2>1, <2>2, <2>3, <2>4, <2>5 DEF ConnStep
  <1>2. CASE \E c \in Conns : ConnStep(c) BY <1>1, <1>2 DEF TypeOK
  <1>3. CASE Boot BY <1>3 DEF Boot, TypeOK
  <1>4. CASE Stop \/ UNCHANGED vars BY <1>4 DEF Stop, vars
  <1>5. CASE \E d \in Devices : EvictIdle(d) \/ \E b \in BOOLEAN : Suspend(d, b)
    BY <1>5 DEF EvictIdle, Suspend
  <1> QED BY <1>2, <1>3, <1>4, <1>5 DEF Next

LEMMA RelayIsNext ==
    ASSUME RelayStep
    PROVE  [Next]_vars /\ UNCHANGED <<boots, dropped>>
  <1>1. ASSUME NEW c \in Conns, ConnStep(c) PROVE UNCHANGED <<boots, dropped>>
    <2>1. CASE SetupStep(c)
      BY <2>1 DEF SetupStep, Slot, HandshakeOK, HandshakeFails, GetConf, NoGetConf,
                  GiveUp, Dial, FirstEnter
    <2>2. CASE FlushStep(c) BY <2>2 DEF FlushStep, FlushTick, FlushLast
    <2>3. CASE CleanupStep(c)
      BY <2>3 DEF CleanupStep, PumpsDone, Look, Leave, Unregister, Close
    <2>4. CASE Accept(c) \/ Keepalive(c) \/ Silence(c)
      BY <2>4 DEF Accept, Keepalive, Silence
    <2>5. CASE \E p \in Pumps : Packet(c, p) \/ PumpEnds(c, p)
      BY <2>5 DEF Packet, PumpEnds
    <2> QED BY <1>1, <2>1, <2>2, <2>3, <2>4, <2>5 DEF ConnStep
  <1>2. UNCHANGED <<boots, dropped>>
    BY <1>1 DEF RelayStep, EvictIdle, Suspend, Stop
  <1> QED BY <1>2 DEF RelayStep, Next

-----------------------------------------------------------------------------
(***************************************************************************)
(* The eviction of a quiet device keeps the books                          *)
(***************************************************************************)
LEMMA EvictKeeps == SessionInv /\ WGTypeOK /\ EvictDevice => SessionInv'
  <1> SUFFICES ASSUME SessionInv, WGTypeOK, EvictDevice PROVE SessionInv' OBVIOUS
  <1> USE DEF SessionInv
  <1>1. /\ UNCHANGED <<pc, pumps, flush, session, left, idle, active, online, off, life>>
        /\ doomed \in Devices
        /\ relays' = [relays EXCEPT ![doomed] = {}]
        /\ Cancel(relays[doomed])
    BY DEF EvictDevice, Evicted, WGTypeOK
  <1>2. TypeOK'
    <2>1. done' \in [Conns -> BOOLEAN] BY <1>1, CancelType
    <2> QED BY <1>1, <2>1 DEF TypeOK
  <1>3. FlowInv' BY <1>1 DEF FlowInv
  <1>4. BooksAgree'
    <2>1. In(Open)' = In(Open) BY <1>1 DEF In
    <2>2. \A d \in Devices : Counted(d)' = Counted(d) BY <1>1 DEF Counted
    <2> QED BY <1>1, <2>1, <2>2 DEF BooksAgree
  <1>5. LeakIsLate' BY <1>1 DEF LeakIsLate
  <1>6. RelaysLive' BY <1>1 DEF RelaysLive, TypeOK
  <1> QED BY <1>2, <1>3, <1>4, <1>5, <1>6

-----------------------------------------------------------------------------
(***************************************************************************)
(* The inductive invariant                                                 *)
(***************************************************************************)
LEMMA WGInvInit == WGInit => WGInv
  <1> SUFFICES ASSUME WGInit PROVE WGInv OBVIOUS
  <1>1. SessionInv BY SessionInit DEF WGInit
  <1>2. WGTypeOK BY <1>1 DEF WGInit, WGTypeOK, SessionInv, Samples
  <1>3. SweepInv BY DEF WGInit, SweepInv, OnlyMoversListed
  <1> QED BY <1>1, <1>2, <1>3 DEF WGInv

LEMMA RelayKeeps == WGInv /\ RelayStep => WGInv'
  <1> SUFFICES ASSUME WGInv, RelayStep PROVE WGInv' OBVIOUS
  <1> USE DEF WGInv
  <1>1. [Next]_vars /\ UNCHANGED <<boots, dropped>> BY RelayIsNext
  <1>2. SessionInv' BY <1>1, SessionStep
  <1>3. /\ fresh' = IF doomed = NoDevice THEN {} ELSE fresh \cup Entering
        /\ UNCHANGED <<moved, sample, round, stale, offline, doomed, listed, mover>>
    BY DEF RelayStep
  <1>4. WGTypeOK' BY <1>2, <1>3 DEF WGTypeOK, SessionInv, Entering
  <1>5. ASSUME doomed # NoDevice, ~dropped PROVE Counted(doomed)' \subseteq fresh'
    <2>1. Counted(doomed) \subseteq fresh BY <1>5 DEF SweepInv
    <2>2. Counted(doomed)' \subseteq Counted(doomed) \cup Entering
      BY <1>1, <1>3, LeftStays DEF SessionInv, TypeOK, Counted, Entering
    <2> QED BY <1>3, <1>5, <2>1, <2>2
  <1>6. UNCHANGED <<moved, sample, round, stale, offline, doomed, listed, mover, dropped>>
    BY <1>1, <1>3
  <1>7. (doomed # NoDevice /\ ~dropped => Counted(doomed) \subseteq fresh)'
    BY <1>5, <1>6 DEF Counted
  <1>8. SweepInv'
    <2>1. (stale # {} => round = "sweep")' BY <1>6 DEF SweepInv
    <2>2. (\A d \in stale : sample[d] \in {"absent", "old"})' BY <1>6 DEF SweepInv
    <2>3. (\A d \in Devices : moved[d] \/ sample[d] \in {"recent", "old"} => mover[d])'
      BY <1>6 DEF SweepInv
    <2>4. OnlyMoversListed' BY <1>6 DEF SweepInv, OnlyMoversListed
    <2> QED BY <1>7, <2>1, <2>2, <2>3, <2>4 DEF SweepInv
  <1> QED BY <1>2, <1>4, <1>8

LEMMA WGBootKeeps == WGInv /\ WGBoot => WGInv'
  <1> SUFFICES ASSUME WGInv, WGBoot PROVE WGInv' OBVIOUS
  <1> USE DEF WGInv
  <1>1. SessionInv' BY SessionStep DEF WGBoot, Next
  <1>2. WGTypeOK' BY <1>1 DEF WGBoot, WGTypeOK, SessionInv, Samples
  <1>3. (doomed # NoDevice /\ ~dropped => Counted(doomed) \subseteq fresh)'
    BY DEF WGBoot, Boot, Counted
  <1>4. SweepInv'
    <2>1. (stale # {} => round = "sweep")' BY DEF WGBoot, SweepInv
    <2>2. (\A d \in stale : sample[d] \in {"absent", "old"})' BY DEF WGBoot, WGTypeOK
    <2>3. (\A d \in Devices : moved[d] \/ sample[d] \in {"recent", "old"} => mover[d])'
      BY DEF WGBoot
    <2>4. OnlyMoversListed' BY DEF WGBoot, OnlyMoversListed
    <2> QED BY <1>3, <2>1, <2>2, <2>3, <2>4 DEF SweepInv
  <1> QED BY <1>1, <1>2, <1>4

\* Steps that leave the sessions alone leave SessionInv alone.
LEMMA SameSessions ==
    ASSUME SessionInv, UNCHANGED vars
    PROVE  /\ SessionInv' /\ dropped' = dropped
           /\ \A d : Counted(d)' = Counted(d)
  BY SessionStep DEF vars, Counted

LEMMA WorldKeeps ==
    ASSUME WGInv, NEW d \in Devices, Move(d) \/ Age(d)
    PROVE  WGInv'
  <1> USE DEF WGInv
  <1>1. UNCHANGED vars BY DEF Move, Age
  <1>2. SessionInv' /\ dropped' = dropped /\ \A e : Counted(e)' = Counted(e)
    BY <1>1, SameSessions
  <1>3. WGTypeOK' BY <1>2 DEF WGTypeOK, SessionInv, Move, Age, Samples
  <1>4. SweepInv'
    BY <1>2 DEF SweepInv, OnlyMoversListed, WGTypeOK, Move, Age, Samples
  <1> QED BY <1>2, <1>3, <1>4

LEMMA RefreshKeeps ==
    ASSUME WGInv, Refresh \/ RefreshFails
    PROVE  WGInv'
  <1> USE DEF WGInv
  <1>1. UNCHANGED vars BY DEF Refresh, Refreshed, RefreshFails
  <1>2. SessionInv' /\ dropped' = dropped /\ \A e : Counted(e)' = Counted(e)
    BY <1>1, SameSessions
  <1>3. CASE RefreshFails
    BY <1>2, <1>3 DEF RefreshFails, WGTypeOK, SessionInv, SweepInv, OnlyMoversListed
  <1>4. CASE Refresh
    <2>1. PICK shook \in SUBSET {d \in Devices : moved[d]} :
            Refreshed([d \in Devices |-> Sampled(d, shook)])
      BY <1>4 DEF Refresh
    <2>2. \A d \in Devices : sample'[d] \in Samples
      BY <2>1 DEF Refreshed, Sampled, Samples, WGTypeOK
    <2>3. \A d \in Devices : sample'[d] \in {"recent", "old"} => mover[d]
      BY <2>1 DEF Refreshed, Sampled, SweepInv
    <2>4. WGTypeOK' BY <1>2, <2>1, <2>2 DEF Refreshed, WGTypeOK, SessionInv
    <2>5. SweepInv'
      BY <1>2, <2>1, <2>3 DEF Refreshed, SweepInv, OnlyMoversListed
    <2> QED BY <1>2, <2>4, <2>5
  <1> QED BY <1>3, <1>4

\* The second look: nothing is counted of a device that is going to be evicted.
LEMMA RecheckKeeps ==
    ASSUME WGInv, NEW d \in Devices, Recheck(d)
    PROVE  WGInv'
  <1> USE DEF WGInv
  <1>1. UNCHANGED vars BY DEF Recheck
  <1>2. SessionInv' /\ dropped' = dropped /\ \A e : Counted(e)' = Counted(e)
    BY <1>1, SameSessions
  <1>3. WGTypeOK' BY <1>2 DEF Recheck, WGTypeOK, SessionInv
  <1>4. ASSUME online[d] = 0, ~dropped PROVE Counted(d) = {}
    <2>1. Cardinality(Counted(d)) = 0 BY <1>4 DEF SessionInv, BooksAgree
    <2>2. Counted(d) \in SUBSET Conns BY DEF Counted
    <2> QED BY <2>1, <2>2, ConnSets, FS_EmptySet
  <1>5. SweepInv' BY <1>2, <1>4 DEF Recheck, Rechecking, SweepInv, OnlyMoversListed
  <1> QED BY <1>2, <1>3, <1>5

LEMMA SweepKeeps ==
    ASSUME WGInv, SweepStep
    PROVE  WGInv'
  <1> USE DEF WGInv
  <1>1. ASSUME NEW d \in Devices, CheckStale(d) PROVE WGInv'
    <2>1. UNCHANGED vars BY <1>1 DEF CheckStale
    <2>2. SessionInv' /\ dropped' = dropped /\ \A e : Counted(e)' = Counted(e)
      BY <2>1, SameSessions
    <2>3. WGTypeOK' BY <1>1, <2>2 DEF CheckStale, WGTypeOK, SessionInv, Samples
    <2>4. SweepInv'
      BY <1>1, <2>2 DEF CheckStale, SweepInv, OnlyMoversListed, WGTypeOK, Samples
    <2> QED BY <2>2, <2>3, <2>4
  <1>2. CASE EvictDevice
    <2>1. SessionInv' BY <1>2, EvictKeeps
    <2>2. WGTypeOK' BY <1>2, <2>1 DEF EvictDevice, Evicted, WGTypeOK, SessionInv
    <2>3. SweepInv' BY <1>2 DEF EvictDevice, Evicted, SweepInv, OnlyMoversListed
    <2> QED BY <2>1, <2>2, <2>3
  <1>3. CASE Show
    <2>1. UNCHANGED vars BY <1>3 DEF Show
    <2>2. SessionInv' /\ dropped' = dropped /\ \A e : Counted(e)' = Counted(e)
      BY <2>1, SameSessions
    <2>3. WGTypeOK' BY <1>3, <2>2 DEF Show, WGTypeOK, SessionInv
    <2>4. SweepInv' BY <1>3, <2>2 DEF Show, SweepInv, OnlyMoversListed
    <2> QED BY <2>2, <2>3, <2>4
  <1> QED BY <1>1, <1>2, <1>3, RecheckKeeps DEF SweepStep

LEMMA WGInvStep == WGInv /\ [WGNext]_wgVars => WGInv'
  <1> SUFFICES ASSUME WGInv, [WGNext]_wgVars PROVE WGInv' OBVIOUS
  <1>1. CASE UNCHANGED wgVars
    <2>1. SessionInv' /\ dropped' = dropped /\ \A e : Counted(e)' = Counted(e)
      BY <1>1, SameSessions DEF WGInv, wgVars
    <2>2. WGTypeOK' BY <1>1, <2>1 DEF wgVars, WGTypeOK, WGInv, SessionInv
    <2>3. SweepInv' BY <1>1, <2>1 DEF wgVars, SweepInv, OnlyMoversListed, WGInv
    <2> QED BY <2>1, <2>2, <2>3 DEF WGInv
  <1> QED BY <1>1, RelayKeeps, WGBootKeeps, WorldKeeps, RefreshKeeps, SweepKeeps
          DEF WGNext

\* The books of the sessions and those of the sweep hold in every reachable
\* state, for every set of connections and devices.
THEOREM WGInvariant == WGSpec => []WGInv
  BY WGInvInit, WGInvStep, PTL DEF WGSpec

\* relayEvictDevice, called for a quiet device, cancels no session that was in
\* onlineUsers when refreshWGActivityFromPeers looked for the second time.
THEOREM SweepSparesCounted == WGSpec => []EvictionSparesCounted
  <1>1. WGInv => EvictionSparesCounted
    BY DEF WGInv, SweepInv, EvictionSparesCounted
  <1> QED BY <1>1, WGInvariant, PTL

\* After a boot the panel is shown no device whose counters have not moved
\* (the comment in refreshWGActivityFromPeers on peers from the database).
THEOREM MoversOnly == WGSpec => []OnlyMoversListed
  <1>1. WGInv => OnlyMoversListed BY DEF WGInv, SweepInv
  <1> QED BY <1>1, WGInvariant, PTL

\* Every reachable state is well typed, the relay sessions' included.
THEOREM WGTypeCorrect == WGSpec => []WGTypeOK
  <1>1. WGInv => WGTypeOK BY DEF WGInv
  <1> QED BY <1>1, WGInvariant, PTL

\* The books of the sessions hold beside the sweep as they do without it: what
\* relayEvictDevice cancels and takes off the list is still left once, by its
\* own handler, and counted until then.
THEOREM BooksBesideSweep == WGSpec => [](BooksAgree /\ LeakIsLate /\ RelaysLive)
  <1>1. WGInv => BooksAgree /\ LeakIsLate /\ RelaysLive
    BY DEF WGInv, SessionInv
  <1> QED BY <1>1, WGInvariant, PTL
=============================================================================
