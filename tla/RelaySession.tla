---------------------------- MODULE RelaySession ----------------------------
(***************************************************************************)
(* DTLS relay sessions: the life of handleConn, one goroutine per client   *)
(* connection, with the two pumps and the flush goroutine it starts, and   *)
(* the books it shares with the rest of the server: activeConns,           *)
(* onlineUsers[device].Sessions and relaySessions[device].                 *)
(*                                                                         *)
(* handleConn ends when its two pumps have ended; the flush goroutine is   *)
(* not waited for and makes a last call of enterSession when the context   *)
(* is cancelled.  enterSession runs under sessionMu; it is one action      *)
(* here, and so is the deferred function's look at what it has done.       *)
(*                                                                         *)
(* An in-process restart cancels the server's context, waits at most 30 s  *)
(* for the handlers, and starts again with clear books.  With a handler    *)
(* left behind the UDP library may still hold the port, and the process    *)
(* then ends in log.Fatalf: a behaviour that stops at Boot.                *)
(*                                                                         *)
(* Abstractions: packets carry nothing; every password is that of one      *)
(* device; a session is idle once it has had no packet for three minutes.  *)
(***************************************************************************)
EXTENDS Integers, FiniteSets

CONSTANTS
    Conns,           \* accepted connections
    Devices,
    DeviceOf,        \* the device each connection belongs to
    HandshakeSlots,  \* capacity of dtlsHandshakeSem
    DeviceLimit,     \* maxDTLSPerDevice, 0 for none
    MaxBoots         \* bound: in-process restarts of a run

ASSUME DeviceAssumption == DeviceOf \in [Conns -> Devices]
ASSUME ConnAssumption == IsFiniteSet(Conns)
ASSUME SlotAssumption == /\ HandshakeSlots \in Nat \ {0}
                         /\ DeviceLimit \in Nat /\ MaxBoots \in Nat

VARIABLES
    pc,       \* control state of handleConn
    pumps,    \* the pump goroutines that run
    flush,    \* the flush goroutine: "none", "run" or "ended"
    known,    \* connDeviceID is set
    entered,  \* sessionEntered
    left,     \* history: the session has been taken out of onlineUsers
    done,     \* the session's context is cancelled
    idle,     \* no packet for relayStaleEvictIdle
    active,   \* activeConns
    online,   \* onlineUsers[device].Sessions, 0 if there is no entry
    relays,   \* relaySessions[device]
    off,      \* the password is deactivated or over its quota
    old,      \* the server context of the connection is cancelled
    server,   \* "up" or "stopping"
    boots,    \* restarts so far
    late,     \* history: a session was entered after its handler's deferred look
    dropped   \* history: a restart did not wait for some handler

vars == <<pc, pumps, flush, known, entered, left, done, idle, active, online,
          relays, off, old, server, boots, late, dropped>>

books == <<online, relays>>
session == <<known, entered, late>>
life == <<old, server, boots, dropped>>

Pumps == {"up", "down"}
Open == {"first", "ready", "dialed", "run", "cleanup", "leave", "unregister", "close"}
PCs == {"new", "accepted", "handshake", "ended"} \cup Open

Dev(c) == DeviceOf[c]
In(S) == {c \in Conns : pc[c] \in S}
Goto(c, l) == pc' = [pc EXCEPT ![c] = l]
Cancel(S) == done' = [c \in Conns |-> done[c] \/ c \in S]

Init ==
    /\ pc = [c \in Conns |-> "new"]
    /\ pumps = [c \in Conns |-> {}]
    /\ flush = [c \in Conns |-> "none"]
    /\ known = [c \in Conns |-> FALSE]
    /\ entered = [c \in Conns |-> FALSE]
    /\ left = [c \in Conns |-> FALSE]
    /\ done = [c \in Conns |-> FALSE]
    /\ idle = [c \in Conns |-> FALSE]
    /\ active = 0
    /\ online = [d \in Devices |-> 0]
    /\ relays = [d \in Devices |-> {}]
    /\ off = [d \in Devices |-> FALSE]
    /\ old = [c \in Conns |-> FALSE]
    /\ server = "up"
    /\ boots = 0
    /\ late = [c \in Conns |-> FALSE]
    /\ dropped = FALSE

-----------------------------------------------------------------------------
(***************************************************************************)
(* Up to the first packet for WireGuard                                    *)
(***************************************************************************)
Accept(c) ==
    /\ server = "up" /\ pc[c] = "new"
    /\ Goto(c, "accepted")
    /\ UNCHANGED <<pumps, flush, session, left, done, idle, active, books, off, life>>

\* Mutant: the slot is given back when the handler returns, not after the
\* handshake.
Slot_Deferred(c) ==
    /\ pc[c] = "accepted"
    /\ \/ /\ Cardinality(In({"handshake"} \cup Open)) < HandshakeSlots
          /\ Goto(c, "handshake")
       \/ old[c] /\ Goto(c, "ended")
    /\ UNCHANGED <<pumps, flush, session, left, done, idle, active, books, off, life>>

\* A slot of dtlsHandshakeSem, or the server stops.
Slot(c) ==
    /\ pc[c] = "accepted"
    /\ \/ Cardinality(In({"handshake"})) < HandshakeSlots /\ Goto(c, "handshake")
       \/ old[c] /\ Goto(c, "ended")
    /\ UNCHANGED <<pumps, flush, session, left, done, idle, active, books, off, life>>

HandshakeOK(c) ==
    /\ pc[c] = "handshake"
    /\ active' = active + 1
    /\ Goto(c, "first")
    /\ UNCHANGED <<pumps, flush, session, left, done, idle, books, off, life>>

\* The handshake fails, times out, or the server stops.
HandshakeFails(c) ==
    /\ pc[c] = "handshake"
    /\ Goto(c, "ended")
    /\ UNCHANGED <<pumps, flush, session, left, done, idle, active, books, off, life>>

Idle(d) == {c \in relays[d] : idle[c]}

\* GETCONF of an admitted password: the device is known from here on, and its
\* idle sessions are evicted.
GetConf(c) ==
    /\ pc[c] = "first" /\ ~off[Dev(c)]
    /\ known' = [known EXCEPT ![c] = TRUE]
    /\ Cancel(Idle(Dev(c)))
    /\ relays' = [relays EXCEPT ![Dev(c)] = @ \ Idle(Dev(c))]
    /\ Goto(c, "ready")
    /\ UNCHANGED <<pumps, flush, entered, late, left, idle, active, online, off, life>>

\* A client with a stored configuration skips GETCONF.
NoGetConf(c) ==
    /\ pc[c] = "first"
    /\ Goto(c, "ready")
    /\ UNCHANGED <<pumps, flush, session, left, done, idle, active, books, off, life>>

\* Denied, no packet in time, or no socket to WireGuard.
GiveUp(c) ==
    /\ pc[c] \in {"first", "ready"}
    /\ Goto(c, "close")
    /\ UNCHANGED <<pumps, flush, session, left, done, idle, active, books, off, life>>

\* The first packet goes to WireGuard, whose endpoints may tell the device;
\* the session's context is derived from the server's.
Dial(c) ==
    /\ pc[c] = "ready"
    /\ \E k \in BOOLEAN : known' = [known EXCEPT ![c] = @ \/ k]
    /\ done' = [done EXCEPT ![c] = old[c]]
    /\ Goto(c, "dialed")
    /\ UNCHANGED <<pumps, flush, entered, late, left, idle, active, books, off, life>>

-----------------------------------------------------------------------------
(***************************************************************************)
(* enterSession: "in" (entered, now or before), "unknown" device, or       *)
(* "refused" at the limit.  Every caller may be the one that enters.       *)
(***************************************************************************)
Handled == {"leave", "unregister", "close", "ended"}
Full(d) == DeviceLimit > 0 /\ online[d] >= DeviceLimit

EnterSession(c, res) ==
    LET d == Dev(c) IN
    \/ /\ entered[c] /\ res = "in"
       /\ UNCHANGED <<session, books>>
    \/ /\ ~entered[c] /\ ~known[c] /\ res = "unknown"
       /\ UNCHANGED <<session, books>>
    \/ /\ ~entered[c] /\ Full(d) /\ res = "refused"
       /\ known' = [known EXCEPT ![c] = TRUE]
       /\ UNCHANGED <<entered, late, books>>
    \/ /\ ~entered[c] /\ ~Full(d) /\ res = "in"
       /\ known' = [known EXCEPT ![c] = TRUE]
       /\ entered' = [entered EXCEPT ![c] = TRUE]
       /\ late' = [late EXCEPT ![c] = pc[c] \in Handled]
       /\ online' = [online EXCEPT ![d] = @ + 1]
       /\ relays' = [relays EXCEPT ![d] = @ \cup {c}]

\* The first call, before the goroutines are started.
FirstEnter(c) ==
    /\ pc[c] = "dialed"
    /\ \E res \in {"in", "unknown", "refused"} :
         /\ EnterSession(c, res)
         /\ IF res = "refused"
            THEN Goto(c, "cleanup") /\ UNCHANGED <<pumps, flush>>
            ELSE /\ Goto(c, "run")
                 /\ pumps' = [pumps EXCEPT ![c] = Pumps]
                 /\ flush' = [flush EXCEPT ![c] = "run"]
    /\ UNCHANGED <<left, done, idle, active, off, life>>

PumpStops(c, p) == /\ pumps' = [pumps EXCEPT ![c] = @ \ {p}]
                   /\ Cancel({c})

\* A packet in either direction.
Packet(c, p) ==
    /\ p \in pumps[c] /\ ~done[c]
    /\ idle' = [idle EXCEPT ![c] = FALSE]
    /\ \E res \in {"in", "unknown", "refused"} :
         /\ EnterSession(c, res)
         /\ IF res = "refused" THEN PumpStops(c, p) ELSE UNCHANGED <<pumps, done>>
    /\ UNCHANGED <<pc, flush, left, active, off, life>>

\* The client's keepalive byte touches a session but never enters one.
Keepalive(c) ==
    /\ "up" \in pumps[c] /\ ~done[c]
    /\ idle' = [idle EXCEPT ![c] = IF entered[c] THEN FALSE ELSE @]
    /\ UNCHANGED <<pc, pumps, flush, session, left, done, active, books, off, life>>

\* Mutant: the downlink takes the deadline of a cancelled session for a timeout.
PumpEnds_Retries(c, p) ==
    /\ p \in pumps[c] /\ ~(p = "down" /\ done[c])
    /\ PumpStops(c, p)
    /\ UNCHANGED <<pc, flush, session, left, idle, active, books, off, life>>

\* A read or a write fails, or the pump sees the cancelled context.
PumpEnds(c, p) ==
    /\ p \in pumps[c]
    /\ PumpStops(c, p)
    /\ UNCHANGED <<pc, flush, session, left, idle, active, books, off, life>>

\* Mutant: only the limit ends a session.
FlushTick_LimitOnly(c) ==
    /\ flush[c] = "run"
    /\ \E res \in {"in", "unknown", "refused"} :
         /\ EnterSession(c, res)
         /\ IF res = "refused"
            THEN Cancel({c}) /\ flush' = [flush EXCEPT ![c] = "ended"]
            ELSE UNCHANGED <<done, flush>>
    /\ UNCHANGED <<pc, pumps, left, idle, active, off, life>>

\* flushTraffic on the ticker: deactivated or over its quota, the session ends.
FlushTick(c) ==
    /\ flush[c] = "run"
    /\ \E res \in {"in", "unknown", "refused"} :
         /\ EnterSession(c, res)
         /\ IF res = "refused" \/ (known'[c] /\ off[Dev(c)])
            THEN Cancel({c}) /\ flush' = [flush EXCEPT ![c] = "ended"]
            ELSE UNCHANGED <<done, flush>>
    /\ UNCHANGED <<pc, pumps, left, idle, active, off, life>>

\* flushTraffic once more when the context is done: nobody waits for it.
FlushLast(c) ==
    /\ flush[c] = "run" /\ done[c]
    /\ \E res \in {"in", "unknown", "refused"} : EnterSession(c, res)
    /\ flush' = [flush EXCEPT ![c] = "ended"]
    /\ UNCHANGED <<pc, pumps, left, done, idle, active, off, life>>

-----------------------------------------------------------------------------
(***************************************************************************)
(* The deferred functions                                                  *)
(***************************************************************************)
PumpsDone(c) ==
    /\ pc[c] = "run" /\ pumps[c] = {}
    /\ Goto(c, "cleanup")
    /\ UNCHANGED <<pumps, flush, session, left, done, idle, active, books, off, life>>

\* Mutant: an evicted session is taken for one that has left.
Look_Listed(c) ==
    /\ pc[c] = "cleanup"
    /\ Goto(c, IF entered[c] /\ c \in relays[Dev(c)] THEN "leave" ELSE "close")
    /\ UNCHANGED <<pumps, flush, session, left, done, idle, active, books, off, life>>

\* Under sessionMu: has a session been entered?
Look(c) ==
    /\ pc[c] = "cleanup"
    /\ Goto(c, IF entered[c] THEN "leave" ELSE "close")
    /\ UNCHANGED <<pumps, flush, session, left, done, idle, active, books, off, life>>

\* Mutant: no session is left that the eviction has taken off the list.
Leave_OnlyListed(c) ==
    /\ pc[c] = "leave"
    /\ online' = [online EXCEPT ![Dev(c)] =
                    IF @ > 0 /\ c \in relays[Dev(c)] THEN @ - 1 ELSE @]
    /\ left' = [left EXCEPT ![c] = TRUE]
    /\ Goto(c, "unregister")
    /\ UNCHANGED <<pumps, flush, session, done, idle, active, relays, off, life>>

\* userSessionLeave: nothing if a restart has cleared the entry.
Leave(c) ==
    /\ pc[c] = "leave"
    /\ online' = [online EXCEPT ![Dev(c)] = IF @ > 0 THEN @ - 1 ELSE 0]
    /\ left' = [left EXCEPT ![c] = TRUE]
    /\ Goto(c, "unregister")
    /\ UNCHANGED <<pumps, flush, session, done, idle, active, relays, off, life>>

\* Mutant: nothing is taken off the list.
Unregister_Keeps(c) ==
    /\ pc[c] = "unregister"
    /\ Goto(c, "close")
    /\ UNCHANGED <<pumps, flush, session, left, done, idle, active, books, off, life>>

Unregister(c) ==
    /\ pc[c] = "unregister"
    /\ relays' = [relays EXCEPT ![Dev(c)] = @ \ {c}]
    /\ Goto(c, "close")
    /\ UNCHANGED <<pumps, flush, session, left, done, idle, active, online, off, life>>

\* pcancel and the counter.
Close(c) ==
    /\ pc[c] = "close"
    /\ active' = active - 1
    /\ Cancel({c})
    /\ Goto(c, "ended")
    /\ UNCHANGED <<pumps, flush, session, left, idle, books, off, life>>

-----------------------------------------------------------------------------
(***************************************************************************)
(* The rest of the server                                                  *)
(***************************************************************************)
\* Mutant: an evicted session is dropped from the list and not cancelled.
EvictIdle_NoCancel(d) ==
    /\ Idle(d) # {}
    /\ done' = done
    /\ relays' = [relays EXCEPT ![d] = @ \ Idle(d)]
    /\ UNCHANGED <<pc, pumps, flush, session, left, idle, active, online, off, life>>

\* relayEvictAllIdle on the stats tick.
EvictIdle(d) ==
    /\ Idle(d) # {}
    /\ Cancel(Idle(d))
    /\ relays' = [relays EXCEPT ![d] = @ \ Idle(d)]
    /\ UNCHANGED <<pc, pumps, flush, session, left, idle, active, online, off, life>>

Silence(c) ==
    /\ pc[c] = "run" /\ ~idle[c]
    /\ idle' = [idle EXCEPT ![c] = TRUE]
    /\ UNCHANGED <<pc, pumps, flush, session, left, done, active, books, off, life>>

\* Quota, expiry, the panel and the bot.
Suspend(d, b) ==
    /\ off[d] # b
    /\ off' = [off EXCEPT ![d] = b]
    /\ UNCHANGED <<pc, pumps, flush, session, left, done, idle, active, books, life>>

\* SIGTERM or /admin/restart: the context of every connection is cancelled;
\* those that wait for a first packet do not look at it.
Stop ==
    /\ server = "up" /\ boots < MaxBoots
    /\ server' = "stopping"
    /\ old' = [c \in Conns |-> pc[c] # "new"]
    /\ Cancel(In({"dialed", "run", "cleanup", "leave", "unregister"}))
    /\ UNCHANGED <<pc, pumps, flush, session, left, idle, active, books, off, boots, dropped>>

\* Mutant: onlineUsers is not cleared.
Boot_KeepsOnline ==
    /\ server = "stopping"
    /\ server' = "up"
    /\ boots' = boots + 1
    /\ dropped' = (dropped \/ In(PCs \ {"new", "ended"}) # {})
    /\ active' = 0
    /\ left' = [c \in Conns |-> left[c] \/ entered[c]]
    /\ UNCHANGED <<pc, pumps, flush, session, done, idle, books, off, old>>

\* All handlers have returned, or 30 s have passed: runServerOnce again.
Boot ==
    /\ server = "stopping"
    /\ server' = "up"
    /\ boots' = boots + 1
    /\ dropped' = (dropped \/ In(PCs \ {"new", "ended"}) # {})
    /\ active' = 0
    /\ online' = [d \in Devices |-> 0]
    /\ left' = [c \in Conns |-> left[c] \/ entered[c]]
    /\ UNCHANGED <<pc, pumps, flush, session, done, idle, relays, off, old>>

-----------------------------------------------------------------------------
SetupStep(c) == \/ Slot(c) \/ HandshakeOK(c) \/ HandshakeFails(c)
                \/ GetConf(c) \/ NoGetConf(c) \/ GiveUp(c) \/ Dial(c) \/ FirstEnter(c)
FlushStep(c) == FlushTick(c) \/ FlushLast(c)
CleanupStep(c) == PumpsDone(c) \/ Look(c) \/ Leave(c) \/ Unregister(c) \/ Close(c)
ConnStep(c) ==
    \/ Accept(c) \/ SetupStep(c) \/ FlushStep(c) \/ CleanupStep(c)
    \/ Keepalive(c) \/ Silence(c)
    \/ \E p \in Pumps : Packet(c, p) \/ PumpEnds(c, p)

Next ==
    \/ \E c \in Conns : ConnStep(c)
    \/ \E d \in Devices : EvictIdle(d) \/ \E b \in BOOLEAN : Suspend(d, b)
    \/ Stop \/ Boot

Spec == Init /\ [][Next]_vars

(***************************************************************************)
(* Goroutines that can run do; a handshake has a timeout and a slot goes to *)
(* the one that waits longest; a cancelled pump's read ends; the session's *)
(* ticker and the stats loop keep ticking.  The client promises nothing.   *)
(***************************************************************************)
Fairness ==
    /\ \A c \in Conns :
         /\ SF_vars(Slot(c))
         /\ WF_vars(HandshakeOK(c) \/ HandshakeFails(c))
         /\ WF_vars(FirstEnter(c))
         /\ \A p \in Pumps : WF_vars(done[c] /\ PumpEnds(c, p))
         /\ WF_vars(FlushLast(c)) /\ WF_vars(FlushTick(c) /\ off[Dev(c)])
         /\ WF_vars(CleanupStep(c))
    /\ \A d \in Devices : WF_vars(EvictIdle(d))

FairSpec == Spec /\ Fairness

-----------------------------------------------------------------------------
(***************************************************************************)
(* Properties                                                              *)
(***************************************************************************)
TypeOK ==
    /\ pc \in [Conns -> PCs]
    /\ pumps \in [Conns -> SUBSET Pumps]
    /\ flush \in [Conns -> {"none", "run", "ended"}]
    /\ known \in [Conns -> BOOLEAN] /\ entered \in [Conns -> BOOLEAN]
    /\ left \in [Conns -> BOOLEAN] /\ done \in [Conns -> BOOLEAN]
    /\ idle \in [Conns -> BOOLEAN] /\ old \in [Conns -> BOOLEAN]
    /\ late \in [Conns -> BOOLEAN]
    /\ active \in Int
    /\ online \in [Devices -> Nat]
    /\ relays \in [Devices -> SUBSET Conns]
    /\ off \in [Devices -> BOOLEAN]
    /\ server \in {"up", "stopping"} /\ boots \in Nat /\ dropped \in BOOLEAN

Counted(d) == {c \in Conns : Dev(c) = d /\ entered[c] /\ ~left[c]}

\* Until a restart leaves a handler behind: Sessions counts exactly the
\* sessions entered and not left, whoever entered them and however they ended;
\* it never passes the limit; activeConns is the number of open connections.
BooksAgree ==
    ~dropped =>
      /\ active = Cardinality(In(Open))
      /\ \A d \in Devices :
           /\ online[d] = Cardinality(Counted(d))
           /\ DeviceLimit > 0 => online[d] <= DeviceLimit

\* A session outlives its connection in the books only if the flush goroutine
\* entered it after the handler had looked.
LeakIsLate ==
    \A c \in Conns : pc[c] = "ended" /\ entered[c] /\ ~left[c] => late[c]

\* The eviction list holds no session that has been left for good.
RelaysLive ==
    \A d \in Devices : \A c \in relays[d] :
        entered[c] /\ Dev(c) = d /\ (pc[c] \in {"close", "ended"} => late[c])

\* How far a connection has come, and what may run or be counted for it then.
FlowInv == \A c \in Conns :
    /\ pumps[c] # {} => pc[c] = "run"
    /\ flush[c] = "run" \/ entered[c] => pc[c] \in {"run", "cleanup"} \cup Handled
    /\ left[c] => entered[c]
    /\ pc[c] = "leave" => entered[c]
    /\ pc[c] \in {"run", "cleanup", "leave"} => dropped \/ ~left[c]
    /\ pc[c] = "unregister" => left[c]
    /\ pc[c] = "close" /\ entered[c] /\ ~left[c] => late[c]

\* The inductive invariant of the proofs.
SessionInv == TypeOK /\ FlowInv /\ BooksAgree /\ LeakIsLate /\ RelaysLive

\* A cancelled session ends, and so do its goroutines.
CancelledEnds ==
    \A c \in Conns : (done[c] /\ pc[c] = "run") ~> (pc[c] = "ended" /\ flush[c] = "ended")

\* A session that stays idle is cancelled.
IdleIsEvicted ==
    \A c \in Conns : (idle[c] /\ entered[c] /\ pc[c] = "run")
                     ~> (~idle[c] \/ pc[c] # "run")

\* A suspended password loses its sessions.
SuspendedEnds ==
    \A c \in Conns : (off[Dev(c)] /\ known[c] /\ pc[c] = "run")
                     ~> (~off[Dev(c)] \/ pc[c] # "run")

\* No connection waits for ever for a handshake slot.
HandshakeHappens == \A c \in Conns : pc[c] = "accepted" ~> pc[c] # "accepted"
=============================================================================
