----------------------------- MODULE RawGroups -----------------------------
(***************************************************************************)
(* RAW sessions: the life of runRawRelay, one goroutine per client worker, *)
(* and the registry rawSessionsByIP that maps a tunnel address to the      *)
(* group of the sessions sharing it.                                       *)
(*                                                                         *)
(* The registry is a sync.Map; a group has a mutex of its own, taken by    *)
(* tryAdd and remove but not by the LoadOrStore that precedes tryAdd.  A   *)
(* group object is named by the session that allocated it.  One identity   *)
(* (device and password) has one address, so the registry is indexed by    *)
(* identities.                                                             *)
(*                                                                         *)
(* The reader of a session is a loop: look at the context, push the read   *)
(* deadline 30 minutes ahead, read.  Cancelling the context starts an      *)
(* AfterFunc that sets the deadline to the present.                        *)
(*                                                                         *)
(* Abstractions: packets carry nothing; a session is silent once it has    *)
(* had no packet for longer than the timeouts of the reaper (25 s) and of  *)
(* the relay eviction (3 min); a password is that of one identity.         *)
(***************************************************************************)
EXTENDS Integers, FiniteSets

CONSTANTS
    Sessions,     \* calls of runRawRelay
    Ids,          \* identities, one tunnel address each
    IdOf,         \* the identity of each session
    GroupLimit,   \* rawMaxSessionsPerIdentity
    GlobalLimit,  \* rawMaxSessionsGlobal
    DeviceLimit   \* maxDTLSPerDevice, 0 for none

ASSUME IdAssumption == IdOf \in [Sessions -> Ids]
ASSUME LimitAssumption == /\ GroupLimit \in Nat \ {0}
                          /\ GlobalLimit \in Nat
                          /\ DeviceLimit \in Nat

VARIABLES
    pc,        \* control state of each session
    grp,       \* the group a session has loaded
    members,   \* sessions of each group object
    registry,  \* rawSessionsByIP
    active,    \* rawActiveSessions
    online,    \* onlineUsers[identity].Sessions
    relays,    \* relaySessions[identity]
    done,      \* the session's context is cancelled
    fired,     \* its AfterFunc has run
    late,      \* its read deadline is in the past
    silent,    \* no packet from it for a long time
    user,      \* the password: "ok", "off" (suspended) or "gone" (deleted)
    reused     \* history: a session joined a group that was not registered

vars == <<pc, grp, members, registry, active, online, relays, done, fired,
          late, silent, user, reused>>

group == <<grp, members, registry, reused>>
context == <<done, fired, late, silent>>

NoGroup == "none"
ASSUME NameAssumption == NoGroup \notin Sessions

Running == {"loop", "arm", "read"}
Present == {"entered", "unregister", "leave"} \cup Running
Joined == {"joined", "remove"} \cup Present
Counted == {"overflow", "counted", "loaded", "uncount"} \cup Joined
Admitted == Counted \ {"overflow"}
PCs == {"new", "authorized", "ended"} \cup Counted

In(S) == {s \in Sessions : pc[s] \in S}
Of(id, S) == {s \in S : IdOf[s] = id}
Goto(s, l) == pc' = [pc EXCEPT ![s] = l]

Init ==
    /\ pc = [s \in Sessions |-> "new"]
    /\ grp = [s \in Sessions |-> NoGroup]
    /\ members = [g \in Sessions |-> {}]
    /\ registry = [id \in Ids |-> NoGroup]
    /\ active = 0
    /\ online = [id \in Ids |-> 0]
    /\ relays = [id \in Ids |-> {}]
    /\ done = [s \in Sessions |-> FALSE]
    /\ fired = [s \in Sessions |-> FALSE]
    /\ late = [s \in Sessions |-> FALSE]
    /\ silent = [s \in Sessions |-> FALSE]
    /\ user = [id \in Ids |-> "ok"]
    /\ reused = [id \in Ids |-> FALSE]

-----------------------------------------------------------------------------
(***************************************************************************)
(* Entering                                                                *)
(***************************************************************************)
\* authorizeRawCredentials, under dbMutex.
Authorize(s) ==
    /\ pc[s] = "new" /\ user[IdOf[s]] = "ok"
    /\ Goto(s, "authorized")
    /\ UNCHANGED <<active, online, relays, user, group, context>>

\* Mutant: the limit is compared with the counter's old value.
Count_OldValue(s) ==
    /\ pc[s] = "authorized"
    /\ active' = active + 1
    /\ Goto(s, IF active > GlobalLimit THEN "overflow" ELSE "counted")
    /\ UNCHANGED <<online, relays, user, group, context>>

\* The global limit: an atomic add, taken back by the loser.
Count(s) ==
    /\ pc[s] = "authorized"
    /\ active' = active + 1
    /\ Goto(s, IF active' > GlobalLimit THEN "overflow" ELSE "counted")
    /\ UNCHANGED <<online, relays, user, group, context>>

Overflow(s) ==
    /\ pc[s] = "overflow"
    /\ active' = active - 1
    /\ Goto(s, "ended")
    /\ UNCHANGED <<online, relays, user, group, context>>

\* LoadOrStore of a fresh group.
Load(s) ==
    /\ pc[s] = "counted"
    /\ LET id == IdOf[s]
           g == IF registry[id] = NoGroup THEN s ELSE registry[id] IN
       /\ grp' = [grp EXCEPT ![s] = g]
       /\ registry' = [registry EXCEPT ![id] = g]
    /\ Goto(s, "loaded")
    /\ UNCHANGED <<members, reused, active, online, relays, user, context>>

\* tryAdd, under the group's mutex: the group is stored again, whatever the
\* registry holds by now.
TryAdd(s) ==
    /\ pc[s] = "loaded"
    /\ LET id == IdOf[s] IN
       IF Cardinality(members[grp[s]]) >= GroupLimit
       THEN Goto(s, "uncount") /\ UNCHANGED <<members, registry, reused>>
       ELSE /\ members' = [members EXCEPT ![grp[s]] = @ \cup {s}]
            /\ registry' = [registry EXCEPT ![id] = grp[s]]
            /\ reused' = [reused EXCEPT ![id] = @ \/ registry[id] # grp[s]]
            /\ Goto(s, "joined")
    /\ UNCHANGED <<grp, active, online, relays, user, context>>

\* Mutant: a refused session runs the deferred userSessionLeave all the same.
Enter_RefusedLeaves(s) ==
    /\ pc[s] = "joined"
    /\ LET id == IdOf[s] IN
       IF DeviceLimit > 0 /\ online[id] >= DeviceLimit
       THEN Goto(s, "leave") /\ online' = online
       ELSE Goto(s, "entered") /\ online' = [online EXCEPT ![id] = @ + 1]
    /\ UNCHANGED <<active, relays, user, group, context>>

\* userSessionEnter: the presence count, and the device limit if there is one.
Enter(s) ==
    /\ pc[s] = "joined"
    /\ LET id == IdOf[s] IN
       IF DeviceLimit > 0 /\ online[id] >= DeviceLimit
       THEN Goto(s, "remove") /\ online' = online
       ELSE Goto(s, "entered") /\ online' = [online EXCEPT ![id] = @ + 1]
    /\ UNCHANGED <<active, relays, user, group, context>>

\* relaySessionRegister.
Register(s) ==
    /\ pc[s] = "entered"
    /\ relays' = [relays EXCEPT ![IdOf[s]] = @ \cup {s}]
    /\ Goto(s, "loop")
    /\ UNCHANGED <<active, online, user, group, context>>

-----------------------------------------------------------------------------
(***************************************************************************)
(* The reader, and what cancels it                                         *)
(***************************************************************************)
Loop(s) ==
    /\ pc[s] = "loop"
    /\ Goto(s, IF done[s] THEN "unregister" ELSE "arm")
    /\ UNCHANGED <<active, online, relays, user, group, context>>

\* SetReadDeadline(now + 30 min).
Arm(s) ==
    /\ pc[s] = "arm"
    /\ late' = [late EXCEPT ![s] = FALSE]
    /\ Goto(s, "read")
    /\ UNCHANGED <<active, online, relays, user, group, done, fired, silent>>

Packet(s) ==
    /\ pc[s] = "read" /\ ~late[s]
    /\ silent' = [silent EXCEPT ![s] = FALSE]
    /\ Goto(s, "loop")
    /\ UNCHANGED <<active, online, relays, user, group, done, fired, late>>

\* The read fails: the client has gone or the deadline has passed.
ReadEnds(s) ==
    /\ pc[s] = "read"
    /\ Goto(s, "unregister")
    /\ UNCHANGED <<active, online, relays, user, group, context>>

\* The AfterFunc of the context: SetDeadline(now).
Expire(s) ==
    /\ pc[s] \in Running /\ done[s] /\ ~fired[s]
    /\ fired' = [fired EXCEPT ![s] = TRUE]
    /\ late' = [late EXCEPT ![s] = TRUE]
    /\ UNCHANGED <<pc, active, online, relays, user, group, done, silent>>

Silence(s) ==
    /\ pc[s] = "read" /\ ~silent[s]
    /\ silent' = [silent EXCEPT ![s] = TRUE]
    /\ UNCHANGED <<pc, active, online, relays, user, group, done, fired, late>>

Cancel(S) == done' = [s \in Sessions |-> done[s] \/ s \in S]

\* Mutant: the two cases of a password that is not "ok" are swapped.
FlushTick_Swapped(s) ==
    /\ pc[s] \in Running /\ ~done[s]
    /\ user[IdOf[s]] = "gone"
    /\ Cancel({s})
    /\ UNCHANGED <<pc, active, online, relays, user, group, fired, late, silent>>

\* flushRaw on its ticker: a suspended password ends the session, a missing
\* one does not.
FlushTick(s) ==
    /\ pc[s] \in Running /\ ~done[s]
    /\ user[IdOf[s]] = "off"
    /\ Cancel({s})
    /\ UNCHANGED <<pc, active, online, relays, user, group, fired, late, silent>>

\* rawSessionDownWriter, started when the session has joined: a packet cannot
\* be written to the client.
DownWriterFails(s) ==
    /\ pc[s] \in Joined /\ ~done[s]
    /\ Cancel({s})
    /\ UNCHANGED <<pc, active, online, relays, user, group, fired, late, silent>>

MembersAt(id) == IF registry[id] = NoGroup THEN {} ELSE members[registry[id]]

\* rawSessionReaperLoop and liveSessionsLocked: the silent sessions of the
\* registered groups.
Reap(id) ==
    /\ \E s \in MembersAt(id) : silent[s] /\ ~done[s]
    /\ Cancel({s \in MembersAt(id) : silent[s]})
    /\ UNCHANGED <<pc, active, online, relays, user, group, fired, late, silent>>

\* relayEvictAllIdle drops the sessions it cancels from the list.
EvictIdle(id) ==
    /\ \E s \in relays[id] : silent[s]
    /\ Cancel({s \in relays[id] : silent[s]})
    /\ relays' = [relays EXCEPT ![id] = {s \in @ : ~silent[s]}]
    /\ UNCHANGED <<pc, active, online, user, group, fired, late, silent>>

\* cancelRawSessionsForPassword and ForDevice, called for suspended users.
Sweep(id) ==
    /\ user[id] = "off"
    /\ \E s \in MembersAt(id) : ~done[s]
    /\ Cancel(MembersAt(id))
    /\ UNCHANGED <<pc, active, online, relays, user, group, fired, late, silent>>

\* Quota, expiry, the bot's buttons and the panel change the password's state.
Suspend(id) ==
    /\ user[id] = "ok"
    /\ user' = [user EXCEPT ![id] = "off"]
    /\ UNCHANGED <<pc, active, online, relays, group, context>>

Resume(id) ==
    /\ user[id] = "off"
    /\ user' = [user EXCEPT ![id] = "ok"]
    /\ UNCHANGED <<pc, active, online, relays, group, context>>

\* deletePanelUserLocked removes the row and the WireGuard peers only.
DeleteUser(id) ==
    /\ user[id] # "gone"
    /\ user' = [user EXCEPT ![id] = "gone"]
    /\ UNCHANGED <<pc, active, online, relays, group, context>>

-----------------------------------------------------------------------------
(***************************************************************************)
(* Leaving: the deferred calls, last registered first                      *)
(***************************************************************************)
Unregister(s) ==
    /\ pc[s] = "unregister"
    /\ relays' = [relays EXCEPT ![IdOf[s]] = @ \ {s}]
    /\ Goto(s, "leave")
    /\ UNCHANGED <<active, online, user, group, context>>

Leave(s) ==
    /\ pc[s] = "leave"
    /\ online' = [online EXCEPT ![IdOf[s]] = @ - 1]
    /\ Goto(s, "remove")
    /\ UNCHANGED <<active, relays, user, group, context>>

\* Mutant: the address is deleted when any of its sessions leaves.
Remove_AnyLeaver(s) ==
    /\ pc[s] = "remove"
    /\ members' = [members EXCEPT ![grp[s]] = @ \ {s}]
    /\ registry' = [registry EXCEPT ![IdOf[s]] = NoGroup]
    /\ Goto(s, "uncount")
    /\ UNCHANGED <<grp, reused, active, online, relays, user, context>>

\* Mutant: an empty group stays registered.
Remove_KeepsEmpty(s) ==
    /\ pc[s] = "remove"
    /\ members' = [members EXCEPT ![grp[s]] = @ \ {s}]
    /\ Goto(s, "uncount")
    /\ UNCHANGED <<grp, registry, reused, active, online, relays, user, context>>

\* remove, under the group's mutex, with CompareAndDelete.
Remove(s) ==
    /\ pc[s] = "remove"
    /\ LET id == IdOf[s]  g == grp[s] IN
       /\ members' = [members EXCEPT ![g] = @ \ {s}]
       /\ registry' = IF members'[g] = {} /\ registry[id] = g
                      THEN [registry EXCEPT ![id] = NoGroup] ELSE registry
    /\ Goto(s, "uncount")
    /\ UNCHANGED <<grp, reused, active, online, relays, user, context>>

Uncount(s) ==
    /\ pc[s] = "uncount"
    /\ active' = active - 1
    /\ Cancel({s})
    /\ Goto(s, "ended")
    /\ UNCHANGED <<online, relays, user, group, fired, late, silent>>

-----------------------------------------------------------------------------
EnterStep(s) == Count(s) \/ Overflow(s) \/ Load(s) \/ TryAdd(s) \/ Enter(s) \/ Register(s)
ReadStep(s) == Loop(s) \/ Arm(s) \/ Packet(s) \/ ReadEnds(s)
LeaveStep(s) == Unregister(s) \/ Leave(s) \/ Remove(s) \/ Uncount(s)

Next ==
    \/ \E s \in Sessions :
         \/ Authorize(s) \/ EnterStep(s) \/ ReadStep(s) \/ LeaveStep(s)
         \/ Expire(s) \/ Silence(s) \/ FlushTick(s) \/ DownWriterFails(s)
    \/ \E id \in Ids :
         \/ Reap(id) \/ EvictIdle(id) \/ Sweep(id)
         \/ Suspend(id) \/ Resume(id) \/ DeleteUser(id)

Spec == Init /\ [][Next]_vars

(***************************************************************************)
(* A goroutine that can run does; a read with a deadline returns; the      *)
(* session's ticker keeps ticking.  The client promises nothing.           *)
(***************************************************************************)
Fairness == \A s \in Sessions :
    /\ WF_vars(EnterStep(s))
    /\ WF_vars(Loop(s) \/ Arm(s)) /\ WF_vars(ReadEnds(s))
    /\ WF_vars(LeaveStep(s))
    /\ SF_vars(FlushTick(s))

FairSpec == Spec /\ Fairness

-----------------------------------------------------------------------------
(***************************************************************************)
(* Properties                                                              *)
(***************************************************************************)
TypeOK ==
    /\ pc \in [Sessions -> PCs]
    /\ grp \in [Sessions -> Sessions \cup {NoGroup}]
    /\ members \in [Sessions -> SUBSET Sessions]
    /\ registry \in [Ids -> Sessions \cup {NoGroup}]
    /\ active \in Nat
    /\ online \in [Ids -> Nat]
    /\ relays \in [Ids -> SUBSET Sessions]
    /\ done \in [Sessions -> BOOLEAN] /\ fired \in [Sessions -> BOOLEAN]
    /\ late \in [Sessions -> BOOLEAN] /\ silent \in [Sessions -> BOOLEAN]
    /\ user \in [Ids -> {"ok", "off", "gone"}]
    /\ reused \in [Ids -> BOOLEAN]

\* The three books agree with the sessions there are, on every path in and
\* out: the global counter, the presence count, the eviction list (which may
\* miss sessions it has evicted, never hold one that has left).
BooksAgree ==
    /\ active = Cardinality(In(Counted))
    /\ \A id \in Ids : /\ online[id] = Cardinality(Of(id, In(Present)))
                       /\ relays[id] \subseteq Of(id, In(Running \cup {"unregister"}))

\* What admission promises: the three limits, entered in one order and left in the
\* opposite one, with a global counter that overshoots, a device counter kept apart
\* and groups that are taken in one step and joined in another.
Pool == INSTANCE SessionPool
    WITH admitted <- In(Admitted), groups <- members, present <- In(Present)
ImplementsPool == Pool!Spec

\* An empty group is registered only while a session is about to join it: no
\* address keeps a dead group that would swallow its downlink.
NoDeadGroup ==
    \A id \in Ids : registry[id] # NoGroup /\ members[registry[id]] = {} =>
        \E s \in In({"loaded"}) : grp[s] = registry[id]

\* A joined session is reachable through the registry, unless a session has
\* joined a group that had been emptied, or replaced, behind its back.
ReachableUnlessReused ==
    \A s \in In(Joined) : registry[IdOf[s]] = grp[s] \/ reused[IdOf[s]]

\* A group object holds exactly the sessions between tryAdd and remove that
\* have loaded it, and serves the identity it was made for.
MembersInv ==
    /\ \A s \in In(Joined \cup {"loaded"}) :
         grp[s] \in Sessions /\ IdOf[grp[s]] = IdOf[s]
    /\ \A g, s \in Sessions : s \in members[g] <=> pc[s] \in Joined /\ grp[s] = g
    /\ \A id \in Ids : registry[id] # NoGroup => IdOf[registry[id]] = id

GroupTypes ==
    /\ pc \in [Sessions -> PCs]
    /\ grp \in [Sessions -> Sessions \cup {NoGroup}]
    /\ members \in [Sessions -> SUBSET Sessions]
    /\ registry \in [Ids -> Sessions \cup {NoGroup}]
    /\ reused \in [Ids -> BOOLEAN]

\* The inductive invariant of the registry.
GroupInv == GroupTypes /\ MembersInv /\ NoDeadGroup /\ ReachableUnlessReused

\* A cancelled session ends, whatever its client does.
CancelledEnds ==
    \A s \in Sessions : (done[s] /\ pc[s] \in Running) ~> pc[s] = "ended"

\* A suspended password loses its sessions even if no sweep ever runs.
SuspendedEnds ==
    \A s \in Sessions : (user[IdOf[s]] = "off" /\ pc[s] \in Running)
                        ~> (user[IdOf[s]] # "off" \/ pc[s] = "ended")

\* The inductive invariant of the books: what is counted is finitely many sessions.
BooksInv == TypeOK /\ IsFiniteSet(In(Counted)) /\ BooksAgree

\* Whatever its client sends, a session whose context or whose password was taken away ends.
SessionsEnd == CancelledEnds /\ SuspendedEnds
=============================================================================
