----------------------------- MODULE WGPresence -----------------------------
(***************************************************************************)
(* Presence by WireGuard's counters, and the eviction of the sessions of a *)
(* device that has gone quiet (refreshWGActivityFromPeers), beside the     *)
(* sessions of RelaySession.                                               *)
(*                                                                         *)
(* Once per interval the stats loop reads the counters of all peers, marks *)
(* the devices whose counters have moved, collects those that have stood   *)
(* still for longer than the timeout, asks onlineUsers twice whether such  *)
(* a device still has a session, evicts the relays of those that have      *)
(* none, and lists the devices that count as online.  No lock is held from *)
(* one of these steps to the next.                                         *)
(*                                                                         *)
(* Abstractions: every device is a peer of WireGuard throughout; a round   *)
(* of the loop is short against the timeout, so samples age between two    *)
(* rounds; the loop of a server that restarts ends its round before the    *)
(* loop of the next server begins one; RAW sessions are left out.          *)
(***************************************************************************)
EXTENDS RelaySession

VARIABLES
    moved,     \* a peer's counters have moved since they were read last
    sample,    \* wgActivity[device].lastChange
    round,     \* where the stats loop is
    stale,     \* stale, of refreshWGActivityFromPeers
    offline,   \* offline, of refreshWGActivityFromPeers
    doomed,    \* the device that is evicted next, or NoDevice
    fresh,     \* history: sessions entered since doomed was found to have none
    listed,    \* the last snapshotOnlineUsers
    mover      \* history: the device's counters have moved since the boot

sweep == <<round, stale, offline, doomed, fresh>>
wgVars == <<vars, moved, sample, sweep, listed, mover>>

NoDevice == "none"
ASSUME NoDeviceAssumption == NoDevice \notin Devices

\* No entry; an entry whose lastChange is zero, within the timeout, or past it.
Samples == {"absent", "never", "recent", "old"}

WGInit ==
    /\ Init
    /\ moved = [d \in Devices |-> FALSE]
    /\ sample = [d \in Devices |-> "absent"]
    /\ round = "refresh"
    /\ stale = {} /\ offline = {} /\ doomed = NoDevice /\ fresh = {}
    /\ listed = {}
    /\ mover = [d \in Devices |-> FALSE]

-----------------------------------------------------------------------------
(***************************************************************************)
(* What goes on beside the loop                                            *)
(***************************************************************************)
Entering == {c \in Conns : entered'[c] /\ ~entered[c]}

\* The sessions do what they do in RelaySession.
RelayStep ==
    /\ \/ \E c \in Conns : ConnStep(c)
       \/ \E d \in Devices : EvictIdle(d) \/ \E b \in BOOLEAN : Suspend(d, b)
       \/ Stop
    /\ fresh' = IF doomed = NoDevice THEN {} ELSE fresh \cup Entering
    /\ UNCHANGED <<moved, sample, round, stale, offline, doomed, listed, mover>>

\* A boot clears the samples and the list; the WireGuard device is a new one.
WGBoot ==
    /\ Boot
    /\ sample' = [d \in Devices |-> "absent"]
    /\ moved' = [d \in Devices |-> FALSE]
    /\ mover' = [d \in Devices |-> FALSE]
    /\ listed' = {}
    /\ UNCHANGED sweep

\* The tunnel's packets pass through the pumps of a session.
Move(d) ==
    /\ ~moved[d]
    /\ \E c \in Conns : Dev(c) = d /\ pumps[c] # {} /\ ~done[c]
    /\ moved' = [moved EXCEPT ![d] = TRUE]
    /\ mover' = [mover EXCEPT ![d] = TRUE]
    /\ UNCHANGED <<vars, sample, sweep, listed>>

Age(d) ==
    /\ round = "refresh" /\ sample[d] = "recent"
    /\ sample' = [sample EXCEPT ![d] = "old"]
    /\ UNCHANGED <<vars, moved, sweep, listed, mover>>

-----------------------------------------------------------------------------
(***************************************************************************)
(* A round of the stats loop                                               *)
(***************************************************************************)
\* A first sample counts as recent only after a recent handshake (whose
\* packets have moved the counters).
Sampled(d, shook) ==
    IF sample[d] = "absent" THEN IF d \in shook THEN "recent" ELSE "never"
    ELSE IF moved[d] THEN "recent" ELSE sample[d]

Refreshed(s) ==
    /\ sample' = s
    /\ stale' = {d \in Devices : s[d] = "old"}
    /\ moved' = [d \in Devices |-> FALSE]
    /\ round' = "sweep"
    /\ UNCHANGED <<vars, offline, doomed, fresh, listed, mover>>

\* Mutant: a first sample counts as a change.
Refresh_FirstIsRecent ==
    /\ round = "refresh"
    /\ Refreshed([d \in Devices |-> IF sample[d] = "absent" THEN "recent" ELSE Sampled(d, {})])

\* Mutant: the new counters are remembered, the time of the change is not.
Refresh_NoTime ==
    /\ round = "refresh"
    /\ \E shook \in SUBSET {d \in Devices : moved[d]} :
         Refreshed([d \in Devices |-> IF sample[d] = "absent" THEN Sampled(d, shook) ELSE sample[d]])

Refresh ==
    /\ round = "refresh"
    /\ \E shook \in SUBSET {d \in Devices : moved[d]} :
         Refreshed([d \in Devices |-> Sampled(d, shook)])

\* The peers cannot be read: only the snapshot is taken.
RefreshFails ==
    /\ round = "refresh"
    /\ round' = "sweep"
    /\ UNCHANGED <<vars, moved, sample, stale, offline, doomed, fresh, listed, mover>>

\* Mutant: a stale sample is made fresh without a look at onlineUsers.
CheckStale_Renews(d) ==
    /\ round = "sweep" /\ d \in stale
    /\ stale' = stale \ {d}
    /\ sample' = [sample EXCEPT ![d] = IF @ = "absent" THEN @ ELSE "recent"]
    /\ UNCHANGED <<vars, moved, round, offline, doomed, fresh, listed, mover>>

\* A stale device with a session is made fresh again.
CheckStale(d) ==
    /\ round = "sweep" /\ d \in stale
    /\ stale' = stale \ {d}
    /\ IF online[d] > 0
       THEN /\ sample' = [sample EXCEPT ![d] = IF @ = "absent" THEN @ ELSE "recent"]
            /\ UNCHANGED offline
       ELSE /\ offline' = offline \cup {d}
            /\ UNCHANGED sample
    /\ UNCHANGED <<vars, moved, round, doomed, fresh, listed, mover>>

Rechecking(d) == stale = {} /\ doomed = NoDevice /\ d \in offline

\* Mutant: no second look.
Recheck_Skipped(d) ==
    /\ Rechecking(d)
    /\ doomed' = d /\ fresh' = {}
    /\ UNCHANGED <<vars, moved, sample, round, stale, offline, listed, mover>>

\* The second look at onlineUsers.
Recheck(d) ==
    /\ Rechecking(d)
    /\ \/ online[d] > 0 /\ offline' = offline \ {d} /\ UNCHANGED <<doomed, fresh>>
       \/ online[d] = 0 /\ doomed' = d /\ fresh' = {} /\ UNCHANGED offline
    /\ UNCHANGED <<vars, moved, sample, round, stale, listed, mover>>

Evicted ==
    /\ Cancel(relays[doomed])
    /\ relays' = [relays EXCEPT ![doomed] = {}]
    /\ offline' = offline \ {doomed} /\ doomed' = NoDevice /\ fresh' = {}
    /\ UNCHANGED <<pc, pumps, flush, session, left, idle, active, off, life,
                   moved, sample, round, stale, listed, mover>>

\* relayEvictDevice.
EvictDevice ==
    /\ doomed # NoDevice
    /\ Evicted
    /\ UNCHANGED online

Show ==
    /\ round = "sweep" /\ stale = {} /\ offline = {}
    /\ listed' = {d \in Devices : sample[d] = "recent"}
    /\ round' = "refresh"
    /\ UNCHANGED <<vars, moved, sample, stale, offline, doomed, fresh, mover>>

-----------------------------------------------------------------------------
SweepStep == \/ \E d \in Devices : CheckStale(d) \/ Recheck(d)
             \/ EvictDevice \/ Show
WGNext == \/ RelayStep \/ WGBoot
          \/ \E d \in Devices : Move(d) \/ Age(d)
          \/ Refresh \/ RefreshFails \/ SweepStep

WGSpec == WGInit /\ [][WGNext]_wgVars

\* The loop keeps running, time passes, and peers that are read for ever are
\* read successfully for ever.
WGFairness == /\ SF_wgVars(Refresh) /\ WF_wgVars(SweepStep)
              /\ \A d \in Devices : SF_wgVars(Age(d))

WGFairSpec == WGSpec /\ WGFairness

-----------------------------------------------------------------------------
(***************************************************************************)
(* Properties                                                              *)
(***************************************************************************)
WGTypeOK ==
    /\ TypeOK
    /\ moved \in [Devices -> BOOLEAN] /\ mover \in [Devices -> BOOLEAN]
    /\ sample \in [Devices -> Samples]
    /\ round \in {"refresh", "sweep"}
    /\ stale \in SUBSET Devices /\ offline \in SUBSET Devices /\ listed \in SUBSET Devices
    /\ doomed \in Devices \cup {NoDevice}
    /\ fresh \in SUBSET Conns

\* The sweep of a quiet device evicts no session that was in onlineUsers when
\* it looked for the second time: only one that has entered since then.
EvictionSparesCounted ==
    doomed # NoDevice /\ ~dropped => relays[doomed] \cap Counted(doomed) \subseteq fresh

\* A boot shows nobody online whose counters have not moved since: the peers
\* that are configured from the database do not count.
OnlyMoversListed == listed \subseteq {d \in Devices : mover[d]}

\* What the two invariants rest on: the second look found nothing counted, and
\* only movement makes a sample recent.
SweepInv ==
    /\ doomed # NoDevice /\ ~dropped => Counted(doomed) \subseteq fresh
    /\ stale # {} => round = "sweep"
    /\ \A d \in stale : sample[d] \in {"absent", "old"}
    /\ \A d \in Devices : moved[d] \/ sample[d] \in {"recent", "old"} => mover[d]
    /\ OnlyMoversListed

\* The inductive invariant of the proofs.
WGInv == SessionInv /\ WGTypeOK /\ SweepInv

\* A device without sessions whose counters stand still is not shown for ever.
SilentGoesOffline ==
    \A d \in Devices : (d \in listed /\ online[d] = 0)
                       ~> (d \notin listed \/ online[d] > 0 \/ moved[d])

\* A known device whose counters move is shown.
MoverIsListed ==
    \A d \in Devices : (moved[d] /\ sample[d] # "absent")
                       ~> (d \in listed \/ sample[d] = "absent")
=============================================================================
