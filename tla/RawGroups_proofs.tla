-------------------------- MODULE RawGroups_proofs --------------------------
(***************************************************************************)
(* Proofs about RawGroups for every set of sessions and identities and     *)
(* every limit: no dead group stays registered, and a joined session is    *)
(* reachable unless its identity's registration was reused.  The steps     *)
(* that matter are Load, TryAdd and Remove; every other step of a session  *)
(* moves it without joining or leaving a group.  Then the books, the pool  *)
(* of sessions they implement (SessionPool) and its limits.                *)
(***************************************************************************)
EXTENDS RawGroups, FiniteSetTheorems, TLAPS

USE DEF group, context

\* A session that moves without passing TryAdd or Remove, and without loading
\* a group, disturbs nothing.
LEMMA Moves ==
    ASSUME GroupInv, NEW s \in Sessions, NEW l \in PCs,
           Goto(s, l), UNCHANGED group,
           pc[s] # "loaded", l # "loaded",
           pc[s] \in Joined <=> l \in Joined
    PROVE  GroupInv'
  <1> USE DEF GroupInv
  <1>1. /\ \A r \in Sessions : pc'[r] \in Joined <=> pc[r] \in Joined
        /\ \A r \in Sessions : pc'[r] = "loaded" <=> pc[r] = "loaded"
    BY DEF Goto, GroupTypes
  <1>2. GroupTypes' BY DEF Goto, GroupTypes
  <1>3. MembersInv' BY <1>1 DEF MembersInv, In
  <1>4. NoDeadGroup' BY <1>1 DEF NoDeadGroup, In
  <1>5. ReachableUnlessReused' BY <1>1 DEF ReachableUnlessReused, In
  <1> QED BY <1>2, <1>3, <1>4, <1>5

\* A step that moves no session and touches no group keeps the invariant.
LEMMA Stays ==
    ASSUME GroupInv, UNCHANGED <<pc, group>>
    PROVE  GroupInv'
  BY DEF GroupInv, GroupTypes, MembersInv, NoDeadGroup, ReachableUnlessReused, In

LEMMA LoadKeeps ==
    ASSUME GroupInv, NEW s \in Sessions, Load(s)
    PROVE  GroupInv'
  <1> USE IdAssumption, NameAssumption DEF GroupInv
  <1> DEFINE id == IdOf[s]
             g == IF registry[id] = NoGroup THEN s ELSE registry[id]
  <1>0. id \in Ids /\ g \in Sessions /\ IdOf[g] = id
    BY DEF GroupTypes, MembersInv
  <1>1. /\ pc' = [pc EXCEPT ![s] = "loaded"] /\ pc[s] = "counted"
        /\ grp' = [grp EXCEPT ![s] = g]
        /\ registry' = [registry EXCEPT ![id] = g]
        /\ members' = members /\ reused' = reused
    BY DEF Load, Goto
  <1>2. /\ \A r \in Sessions : pc'[r] \in Joined <=> pc[r] \in Joined
        /\ \A r \in Sessions \ {s} : pc'[r] = pc[r] /\ grp'[r] = grp[r]
        /\ pc'[s] = "loaded" /\ grp'[s] = g /\ pc'[s] \notin Joined
    BY <1>1 DEF GroupTypes, Joined, Present, Running
  <1>3. GroupTypes'
    BY <1>0, <1>1 DEF GroupTypes, PCs, Counted
  <1>4. MembersInv'
    <2>1. \A r \in In(Joined \cup {"loaded"})' : grp'[r] \in Sessions /\ IdOf[grp'[r]] = IdOf[r]
      BY <1>0, <1>2 DEF MembersInv, In
    <2>2. \A h, r \in Sessions : r \in members'[h] <=> pc'[r] \in Joined /\ grp'[r] = h
      <3> SUFFICES ASSUME NEW h \in Sessions, NEW r \in Sessions
                   PROVE  r \in members'[h] <=> pc'[r] \in Joined /\ grp'[r] = h
        OBVIOUS
      <3>1. r \in members[h] <=> pc[r] \in Joined /\ grp[r] = h
        BY DEF MembersInv
      <3> QED BY <1>1, <1>2, <3>1
    <2>3. \A i \in Ids : registry'[i] # NoGroup => IdOf[registry'[i]] = i
      BY <1>0, <1>1 DEF MembersInv, GroupTypes
    <2> QED BY <2>1, <2>2, <2>3 DEF MembersInv
  <1>5. NoDeadGroup'
    <2> SUFFICES ASSUME NEW i \in Ids, registry'[i] # NoGroup, members'[registry'[i]] = {}
                 PROVE  \E r \in In({"loaded"})' : grp'[r] = registry'[i]
      BY DEF NoDeadGroup
    <2>1. CASE i = id
      BY <1>0, <1>1, <1>2, <2>1 DEF In, GroupTypes
    <2>2. CASE i # id
      <3>1. registry'[i] = registry[i] BY <1>1, <2>2 DEF GroupTypes
      <3>2. PICK r \in In({"loaded"}) : grp[r] = registry[i]
        BY <1>1, <3>1 DEF NoDeadGroup
      <3>3. r # s BY <1>1, <3>2 DEF In
      <3> QED BY <1>2, <3>1, <3>2, <3>3 DEF In
    <2> QED BY <2>1, <2>2
  <1>6. ReachableUnlessReused'
    <2> SUFFICES ASSUME NEW r \in In(Joined)'
                 PROVE  registry'[IdOf[r]] = grp'[r] \/ reused'[IdOf[r]]
      BY DEF ReachableUnlessReused
    <2>1. r \in In(Joined) /\ r # s BY <1>2 DEF In
    <2>2. registry[IdOf[r]] = grp[r] \/ reused[IdOf[r]]
      BY <2>1 DEF ReachableUnlessReused
    <2>3. grp[r] \in Sessions BY <2>1 DEF MembersInv, In
    <2> QED BY <1>1, <1>2, <2>1, <2>2, <2>3 DEF In, GroupTypes
  <1> QED BY <1>3, <1>4, <1>5, <1>6

LEMMA TryAddKeeps ==
    ASSUME GroupInv, NEW s \in Sessions, TryAdd(s)
    PROVE  GroupInv'
  <1> USE IdAssumption, NameAssumption DEF GroupInv
  <1> DEFINE id == IdOf[s]  g == grp[s]
  <1>0. id \in Ids /\ g \in Sessions /\ IdOf[g] = id /\ pc[s] = "loaded" /\ grp' = grp
    BY DEF GroupTypes, MembersInv, In, TryAdd
  <1>a. CASE Cardinality(members[g]) >= GroupLimit
    <2>1. /\ pc' = [pc EXCEPT ![s] = "uncount"]
          /\ members' = members /\ registry' = registry /\ reused' = reused
      BY <1>a DEF TryAdd, Goto
    <2>2. /\ \A r \in Sessions : pc'[r] \in Joined <=> pc[r] \in Joined
          /\ \A r \in Sessions : pc'[r] = "loaded" => pc[r] = "loaded"
      BY <1>0, <2>1 DEF GroupTypes, Joined, Present, Running
    <2>3. members[g] # {}
      BY <1>a, FS_EmptySet, LimitAssumption
    <2>4. GroupTypes' BY <1>0, <2>1 DEF GroupTypes, PCs, Counted
    <2>5. MembersInv' BY <1>0, <2>1, <2>2 DEF MembersInv, In
    <2>6. NoDeadGroup'
      <3> SUFFICES ASSUME NEW i \in Ids, registry[i] # NoGroup, members[registry[i]] = {}
                   PROVE  \E r \in In({"loaded"})' : grp[r] = registry[i]
        BY <1>0, <2>1 DEF NoDeadGroup
      <3>1. PICK r \in In({"loaded"}) : grp[r] = registry[i] BY DEF NoDeadGroup
      <3>2. r # s BY <2>3, <3>1
      <3> QED BY <2>1, <3>1, <3>2 DEF In, GroupTypes
    <2>7. ReachableUnlessReused'
      BY <1>0, <2>1, <2>2 DEF ReachableUnlessReused, In
    <2> QED BY <2>4, <2>5, <2>6, <2>7
  <1>b. CASE ~(Cardinality(members[g]) >= GroupLimit)
    <2>1. /\ pc' = [pc EXCEPT ![s] = "joined"]
          /\ members' = [members EXCEPT ![g] = members[g] \cup {s}]
          /\ registry' = [registry EXCEPT ![id] = g]
          /\ reused' = [reused EXCEPT ![id] = reused[id] \/ registry[id] # g]
      BY <1>b DEF TryAdd, Goto
    <2>2. /\ \A r \in Sessions \ {s} : pc'[r] = pc[r]
          /\ pc'[s] = "joined" /\ pc'[s] \in Joined /\ pc[s] \notin Joined
          /\ \A h \in Sessions \ {g} : members'[h] = members[h]
          /\ members'[g] = members[g] \cup {s}
          /\ registry'[id] = g /\ \A i \in Ids \ {id} : registry'[i] = registry[i]
          /\ reused'[id] = (reused[id] \/ registry[id] # g)
          /\ \A i \in Ids \ {id} : reused'[i] = reused[i]
      BY <1>0, <2>1 DEF GroupTypes, Joined, Present, Running
    <2>3. GroupTypes'
      BY <1>0, <2>1 DEF GroupTypes, PCs, Counted, Joined, Present
    <2>4. MembersInv'
      <3>1. \A r \in In(Joined \cup {"loaded"})' : grp'[r] \in Sessions /\ IdOf[grp'[r]] = IdOf[r]
        BY <1>0, <2>2 DEF MembersInv, In
      <3>2. \A h, r \in Sessions : r \in members'[h] <=> pc'[r] \in Joined /\ grp'[r] = h
        <4> SUFFICES ASSUME NEW h \in Sessions, NEW r \in Sessions
                     PROVE  r \in members'[h] <=> pc'[r] \in Joined /\ grp[r] = h
          BY <1>0
        <4>1. r \in members[h] <=> pc[r] \in Joined /\ grp[r] = h
          BY DEF MembersInv
        <4> QED BY <1>0, <2>2, <4>1
      <3>3. \A i \in Ids : registry'[i] # NoGroup => IdOf[registry'[i]] = i
        BY <1>0, <2>2 DEF MembersInv
      <3> QED BY <3>1, <3>2, <3>3 DEF MembersInv
    <2>5. NoDeadGroup'
      <3> SUFFICES ASSUME NEW i \in Ids, registry'[i] # NoGroup, members'[registry'[i]] = {}
                   PROVE  \E r \in In({"loaded"})' : grp'[r] = registry'[i]
        BY DEF NoDeadGroup
      <3>1. i # id BY <2>2
      <3>2. registry'[i] = registry[i] /\ registry[i] \in Sessions /\ registry[i] # g
        BY <1>0, <2>2, <3>1 DEF GroupTypes, MembersInv
      <3>3. PICK r \in In({"loaded"}) : grp[r] = registry[i]
        BY <2>2, <3>2 DEF NoDeadGroup
      <3> QED BY <1>0, <2>2, <3>2, <3>3 DEF In
    <2>6. ReachableUnlessReused'
      <3> SUFFICES ASSUME NEW r \in In(Joined)'
                   PROVE  registry'[IdOf[r]] = grp[r] \/ reused'[IdOf[r]]
        BY <1>0 DEF ReachableUnlessReused
      <3>1. CASE r = s BY <2>2, <3>1
      <3>2. CASE r # s
        <4>1. r \in In(Joined) BY <2>2, <3>2 DEF In
        <4>2. registry[IdOf[r]] = grp[r] \/ reused[IdOf[r]]
          BY <4>1 DEF ReachableUnlessReused
        <4>3. IdOf[r] \in Ids BY <4>1 DEF In
        <4> QED BY <2>2, <4>2, <4>3
      <3> QED BY <3>1, <3>2
    <2> QED BY <2>3, <2>4, <2>5, <2>6
  <1> QED BY <1>a, <1>b

LEMMA RemoveKeeps ==
    ASSUME GroupInv, NEW s \in Sessions, Remove(s)
    PROVE  GroupInv'
  <1> USE IdAssumption, NameAssumption DEF GroupInv
  <1> DEFINE id == IdOf[s]  g == grp[s]
  <1>0. /\ id \in Ids /\ pc[s] = "remove" /\ pc[s] \in Joined
        /\ grp' = grp /\ reused' = reused
    BY DEF Remove, Joined
  <1>1. g \in Sessions /\ IdOf[g] = id
    BY <1>0 DEF MembersInv, In
  <1>2. /\ pc' = [pc EXCEPT ![s] = "uncount"]
        /\ members' = [members EXCEPT ![g] = members[g] \ {s}]
        /\ registry' = IF members'[g] = {} /\ registry[id] = g
                       THEN [registry EXCEPT ![id] = NoGroup] ELSE registry
    BY DEF Remove, Goto
  <1>3. /\ \A r \in Sessions \ {s} : pc'[r] = pc[r]
        /\ pc'[s] = "uncount" /\ pc'[s] \notin Joined
        /\ \A h \in Sessions \ {g} : members'[h] = members[h]
        /\ members'[g] = members[g] \ {s}
        /\ \A i \in Ids : registry'[i] = IF i = id /\ members'[g] = {} /\ registry[id] = g
                                         THEN NoGroup ELSE registry[i]
    BY <1>0, <1>1, <1>2 DEF GroupTypes, Joined, Present, Running
  <1>4. GroupTypes'
    BY <1>0, <1>1, <1>2 DEF GroupTypes, PCs, Counted
  <1>5. MembersInv'
    <2>1. \A r \in In(Joined \cup {"loaded"})' : grp'[r] \in Sessions /\ IdOf[grp'[r]] = IdOf[r]
      BY <1>0, <1>3 DEF MembersInv, In
    <2>2. \A h, r \in Sessions : r \in members'[h] <=> pc'[r] \in Joined /\ grp'[r] = h
      <3> SUFFICES ASSUME NEW h \in Sessions, NEW r \in Sessions
                   PROVE  r \in members'[h] <=> pc'[r] \in Joined /\ grp[r] = h
        BY <1>0
      <3>1. r \in members[h] <=> pc[r] \in Joined /\ grp[r] = h
        BY DEF MembersInv
      <3> QED BY <1>0, <1>1, <1>3, <3>1
    <2>3. \A i \in Ids : registry'[i] # NoGroup => IdOf[registry'[i]] = i
      BY <1>3 DEF MembersInv
    <2> QED BY <2>1, <2>2, <2>3 DEF MembersInv
  <1>6. NoDeadGroup'
    <2> SUFFICES ASSUME NEW i \in Ids, registry'[i] # NoGroup, members'[registry'[i]] = {}
                 PROVE  \E r \in In({"loaded"})' : grp'[r] = registry'[i]
      BY DEF NoDeadGroup
    <2>1. registry'[i] = registry[i] /\ registry[i] \in Sessions /\ IdOf[registry[i]] = i
      BY <1>3 DEF GroupTypes, MembersInv
    <2>2. registry[i] # g BY <1>1, <1>3, <2>1
    <2>3. PICK r \in In({"loaded"}) : grp[r] = registry[i]
      BY <1>3, <2>1, <2>2 DEF NoDeadGroup
    <2>4. r # s BY <1>0, <2>3 DEF In
    <2> QED BY <1>0, <1>3, <2>1, <2>3, <2>4 DEF In
  <1>7. ReachableUnlessReused'
    <2> SUFFICES ASSUME NEW r \in In(Joined)'
                 PROVE  registry'[IdOf[r]] = grp[r] \/ reused[IdOf[r]]
      BY <1>0 DEF ReachableUnlessReused
    <2>1. r \in In(Joined) /\ r # s BY <1>3 DEF In
    <2>2. registry[IdOf[r]] = grp[r] \/ reused[IdOf[r]]
      BY <2>1 DEF ReachableUnlessReused
    <2>3. IdOf[r] \in Ids /\ r \in members[grp[r]] /\ grp[r] \in Sessions
      BY <2>1 DEF In, MembersInv
    <2>4. grp[r] = g => members'[g] # {} BY <1>3, <2>1, <2>3
    <2> QED BY <1>3, <2>2, <2>3, <2>4
  <1> QED BY <1>4, <1>5, <1>6, <1>7

LEMMA InitGroupInv == Init => GroupInv
  BY IdAssumption, NameAssumption
  DEF Init, GroupInv, GroupTypes, MembersInv, NoDeadGroup, ReachableUnlessReused,
      In, PCs, Counted, Joined, Present, Running

LEMMA NextGroupInv == GroupInv /\ [Next]_vars => GroupInv'
  <1> SUFFICES ASSUME GroupInv, [Next]_vars PROVE GroupInv'
    OBVIOUS
  <1> USE DEF PCs, Counted, Joined, Present, Running
  <1>1. ASSUME NEW s \in Sessions, Authorize(s) PROVE GroupInv'
    BY <1>1, Moves DEF Authorize
  <1>2. ASSUME NEW s \in Sessions, Count(s) PROVE GroupInv'
    <2>1. CASE active' > GlobalLimit BY <1>2, <2>1, Moves DEF Count
    <2>2. CASE ~(active' > GlobalLimit) BY <1>2, <2>2, Moves DEF Count
    <2> QED BY <2>1, <2>2
  <1>3. ASSUME NEW s \in Sessions, Overflow(s) PROVE GroupInv'
    BY <1>3, Moves DEF Overflow
  <1>4. ASSUME NEW s \in Sessions, Load(s) PROVE GroupInv'
    BY <1>4, LoadKeeps
  <1>5. ASSUME NEW s \in Sessions, TryAdd(s) PROVE GroupInv'
    BY <1>5, TryAddKeeps
  <1>6. ASSUME NEW s \in Sessions, Enter(s) PROVE GroupInv'
    <2>1. \/ Goto(s, "remove") \/ Goto(s, "entered")
      BY <1>6 DEF Enter
    <2>2. UNCHANGED group /\ pc[s] = "joined" BY <1>6 DEF Enter
    <2> QED BY <2>1, <2>2, Moves
  <1>7. ASSUME NEW s \in Sessions, Register(s) PROVE GroupInv'
    BY <1>7, Moves DEF Register
  <1>8. ASSUME NEW s \in Sessions, Loop(s) PROVE GroupInv'
    <2>1. \/ Goto(s, "unregister") \/ Goto(s, "arm")
      BY <1>8 DEF Loop
    <2>2. UNCHANGED group /\ pc[s] = "loop" BY <1>8 DEF Loop
    <2> QED BY <2>1, <2>2, Moves
  <1>9. ASSUME NEW s \in Sessions, Arm(s) PROVE GroupInv'
    BY <1>9, Moves DEF Arm
  <1>10. ASSUME NEW s \in Sessions, Packet(s) PROVE GroupInv'
    BY <1>10, Moves DEF Packet
  <1>11. ASSUME NEW s \in Sessions, ReadEnds(s) PROVE GroupInv'
    BY <1>11, Moves DEF ReadEnds
  <1>12. ASSUME NEW s \in Sessions,
                Expire(s) \/ Silence(s) \/ FlushTick(s) \/ DownWriterFails(s)
         PROVE  GroupInv'
    BY <1>12, Stays DEF Expire, Silence, FlushTick, DownWriterFails
  <1>13. ASSUME NEW s \in Sessions, Unregister(s) PROVE GroupInv'
    BY <1>13, Moves DEF Unregister
  <1>14. ASSUME NEW s \in Sessions, Leave(s) PROVE GroupInv'
    BY <1>14, Moves DEF Leave
  <1>15. ASSUME NEW s \in Sessions, Remove(s) PROVE GroupInv'
    BY <1>15, RemoveKeeps
  <1>16. ASSUME NEW s \in Sessions, Uncount(s) PROVE GroupInv'
    BY <1>16, Moves DEF Uncount
  <1>17. ASSUME NEW id \in Ids, \/ Reap(id) \/ EvictIdle(id) \/ Sweep(id)
                                \/ Suspend(id) \/ Resume(id) \/ DeleteUser(id)
         PROVE  GroupInv'
    BY <1>17, Stays DEF Reap, EvictIdle, Sweep, Suspend, Resume, DeleteUser
  <1>18. CASE UNCHANGED vars
    BY <1>18, Stays DEF vars
  <1> QED
    BY <1>1, <1>2, <1>3, <1>4, <1>5, <1>6, <1>7, <1>8, <1>9, <1>10, <1>11,
       <1>12, <1>13, <1>14, <1>15, <1>16, <1>17, <1>18
    DEF Next, EnterStep, ReadStep, LeaveStep

\* The registry's inductive invariant holds in every reachable state.
THEOREM GroupInvariant == Spec => []GroupInv
  BY InitGroupInv, NextGroupInv, PTL DEF Spec

\* A joined session can be found through the registry unless its identity's
\* registration was reused: the race in runRawRelay is the only way to lose it.
THEOREM JoinedReachable == Spec => []ReachableUnlessReused
  <1>1. GroupInv => ReachableUnlessReused BY DEF GroupInv
  <1> QED BY GroupInvariant, <1>1, PTL

\* No address keeps an empty group, except while a session is joining it.
THEOREM NoDeadGroupEver == Spec => []NoDeadGroup
  <1>1. GroupInv => NoDeadGroup BY DEF GroupInv
  <1> QED BY GroupInvariant, <1>1, PTL

-----------------------------------------------------------------------------
(***************************************************************************)
(* The books and the pool                                                  *)
(***************************************************************************)
\* The sessions at the labels of S after one session has moved.
LEMMA GotoIn ==
    ASSUME pc \in [Sessions -> PCs], NEW s \in Sessions, NEW CONSTANT l, NEW CONSTANT S, Goto(s, l)
    PROVE  In(S)' = IF l \in S THEN In(S) \cup {s} ELSE In(S) \ {s}
  BY DEF In, Goto

LEMMA OfIsFinite ==
    ASSUME NEW S, NEW id, IsFiniteSet(S)
    PROVE  IsFiniteSet(Of(id, S))
  BY FS_Subset DEF Of

LEMMA PresentIsCounted ==
    ASSUME IsFiniteSet(In(Counted)), NEW id
    PROVE  IsFiniteSet(In(Present)) /\ IsFiniteSet(Of(id, In(Present)))
  <1>1. In(Present) \subseteq In(Counted) BY DEF In, Counted, Joined
  <1> QED BY <1>1, FS_Subset, OfIsFinite

\* A session that moves within the rooms it is counted in disturbs no book.
LEMMA MovesWithin ==
    ASSUME BooksInv, NEW s \in Sessions, NEW CONSTANT l \in PCs, Goto(s, l),
           UNCHANGED <<active, online, relays>>,
           pc[s] \in Counted <=> l \in Counted,
           pc[s] \in Present <=> l \in Present,
           pc[s] \in Running \cup {"unregister"} => l \in Running \cup {"unregister"}
    PROVE  pc' \in [Sessions -> PCs] /\ IsFiniteSet(In(Counted))' /\ BooksAgree'
  <1>1. pc \in [Sessions -> PCs] BY DEF BooksInv, TypeOK
  <1>2. In(Counted)' = In(Counted) BY <1>1, GotoIn DEF In
  <1>3. In(Present)' = In(Present) BY <1>1, GotoIn DEF In
  <1> DEFINE R == Running \cup {"unregister"}
  <1>9. In(R)' = IF l \in R THEN In(R) \cup {s} ELSE In(R) \ {s}
    <2> HIDE DEF R
    <2> QED BY <1>1, GotoIn
  <1>4. In(R) \subseteq In(R)'
    <2>1. l \notin R => s \notin In(R) BY DEF In
    <2> QED BY <1>9, <2>1
  <1>5. pc' \in [Sessions -> PCs] BY <1>1 DEF Goto
  <1>6. \A id \in Ids : relays'[id] \subseteq Of(id, In(Running \cup {"unregister"}))'
    BY <1>4 DEF BooksInv, BooksAgree, Of
  <1>7. \A id \in Ids : online'[id] = Cardinality(Of(id, In(Present)))'
    BY <1>3 DEF BooksInv, BooksAgree, Of
  <1>8. active' = Cardinality(In(Counted))' BY <1>2 DEF BooksInv, BooksAgree
  <1> QED BY <1>2, <1>5, <1>6, <1>7, <1>8 DEF BooksInv, BooksAgree

LEMMA InitBooks == Init => BooksInv
  <1> SUFFICES ASSUME Init PROVE BooksInv OBVIOUS
  <1>1. In(Counted) = {} /\ In(Present) = {}
    BY DEF Init, In, Counted, Joined, Present, Running
  <1>2. \A id \in Ids : Of(id, In(Present)) = {} BY <1>1 DEF Of
  <1>3. TypeOK
    BY NameAssumption DEF Init, TypeOK, PCs
  <1> QED BY <1>1, <1>2, <1>3, FS_EmptySet DEF Init, BooksInv, BooksAgree


\* Each step of the specification keeps the types of the contexts and passwords.
LEMMA NextTypes ==
    ASSUME TypeOK, Next
    PROVE  /\ done' \in [Sessions -> BOOLEAN] /\ fired' \in [Sessions -> BOOLEAN]
           /\ late' \in [Sessions -> BOOLEAN] /\ silent' \in [Sessions -> BOOLEAN]
           /\ user' \in [Ids -> {"ok", "off", "gone"}]
  <1> DEFINE Types == /\ done' \in [Sessions -> BOOLEAN] /\ fired' \in [Sessions -> BOOLEAN]
                      /\ late' \in [Sessions -> BOOLEAN] /\ silent' \in [Sessions -> BOOLEAN]
                      /\ user' \in [Ids -> {"ok", "off", "gone"}]
  <1>1. ASSUME NEW s \in Sessions,
               \/ Authorize(s) \/ Count(s) \/ Overflow(s) \/ Load(s) \/ TryAdd(s)
               \/ Enter(s) \/ Register(s) \/ Loop(s) \/ ReadEnds(s)
               \/ Unregister(s) \/ Leave(s) \/ Remove(s)
        PROVE  Types
    BY <1>1 DEF TypeOK, Authorize, Count, Overflow, Load, TryAdd, Enter, Register,
                Loop, ReadEnds, Unregister, Leave, Remove
  <1>2. ASSUME NEW s \in Sessions,
               \/ Arm(s) \/ Packet(s) \/ Expire(s) \/ Silence(s) \/ FlushTick(s) \/ DownWriterFails(s)
               \/ Uncount(s)
        PROVE  Types
    BY <1>2 DEF TypeOK, Arm, Packet, Expire, Silence, FlushTick, DownWriterFails, Uncount, Cancel
  <1>3. ASSUME NEW id \in Ids,
               \/ Reap(id) \/ EvictIdle(id) \/ Sweep(id)
               \/ Suspend(id) \/ Resume(id) \/ DeleteUser(id)
        PROVE  Types
    BY <1>3 DEF TypeOK, Reap, EvictIdle, Sweep, Cancel, Suspend, Resume, DeleteUser
  <1> QED BY <1>1, <1>2, <1>3 DEF Next, EnterStep, ReadStep, LeaveStep

\* The global counter moves with the sessions it counts.
LEMMA CountedMoves ==
    ASSUME BooksInv, NEW s \in Sessions, NEW CONSTANT l \in PCs, Goto(s, l),
           UNCHANGED <<online, relays>>,
           \/ pc[s] \notin Counted /\ l \in Counted /\ active' = active + 1
           \/ pc[s] \in Counted /\ l \notin Counted /\ active' = active - 1,
           pc[s] \notin Present, l \notin Present
    PROVE  /\ pc' \in [Sessions -> PCs] /\ IsFiniteSet(In(Counted))'
           /\ active' \in Nat /\ BooksAgree'
  <1>1. pc \in [Sessions -> PCs] /\ active \in Nat BY DEF BooksInv, TypeOK
  <1>2. In(Counted)' = IF l \in Counted THEN In(Counted) \cup {s} ELSE In(Counted) \ {s}
    BY <1>1, GotoIn
  <1>3. In(Present)' = In(Present) BY <1>1, GotoIn DEF In
  <1>4. In(Running \cup {"unregister"}) \subseteq In(Present)
        /\ In(Running \cup {"unregister"})' = In(Running \cup {"unregister"})
    BY <1>1 DEF In, Goto, Present
  <1>5. pc' \in [Sessions -> PCs] BY <1>1 DEF Goto
  <1>6. \A id \in Ids : /\ online'[id] = Cardinality(Of(id, In(Present)))'
                        /\ relays'[id] \subseteq Of(id, In(Running \cup {"unregister"}))'
    BY <1>3, <1>4 DEF BooksInv, BooksAgree, Of
  <1>7. active = Cardinality(In(Counted)) /\ IsFiniteSet(In(Counted))
    BY DEF BooksInv, BooksAgree
  <1>8. /\ IsFiniteSet(In(Counted))' /\ active' \in Nat
        /\ active' = Cardinality(In(Counted))'
    <2>1. CASE pc[s] \notin Counted /\ l \in Counted
      <3>1. s \notin In(Counted) BY <2>1 DEF In
      <3> QED BY <1>1, <1>2, <1>7, <2>1, <3>1, FS_AddElement
    <2>2. CASE pc[s] \in Counted /\ l \notin Counted
      <3>1. s \in In(Counted) BY <2>2 DEF In
      <3>2. Cardinality(In(Counted) \ {s}) = Cardinality(In(Counted)) - 1
            /\ IsFiniteSet(In(Counted) \ {s})
        BY <1>7, <3>1, FS_RemoveElement
      <3>3. Cardinality(In(Counted) \ {s}) \in Nat BY <3>2, FS_CardinalityType
      <3> QED BY <1>1, <1>2, <1>7, <2>2, <3>2, <3>3
    <2> QED BY <2>1, <2>2
  <1> QED BY <1>5, <1>6, <1>8 DEF BooksAgree

\* The presence count of an identity moves with its sessions.
LEMMA PresentMoves ==
    ASSUME BooksInv, NEW s \in Sessions, NEW CONSTANT l \in PCs, Goto(s, l),
           UNCHANGED <<active, relays>>,
           pc[s] \in Counted, l \in Counted,
           \/ /\ pc[s] \notin Present /\ l \in Present
              /\ online' = [online EXCEPT ![IdOf[s]] = @ + 1]
           \/ /\ pc[s] \in Present /\ l \notin Present
              /\ online' = [online EXCEPT ![IdOf[s]] = @ - 1],
           pc[s] \notin Running \cup {"unregister"}
    PROVE  /\ pc' \in [Sessions -> PCs] /\ IsFiniteSet(In(Counted))'
           /\ online' \in [Ids -> Nat] /\ BooksAgree'
  <1> DEFINE d == IdOf[s]
  <1>0. d \in Ids BY IdAssumption
  <1>1. pc \in [Sessions -> PCs] /\ online \in [Ids -> Nat] BY DEF BooksInv, TypeOK
  <1>2. In(Counted)' = In(Counted) BY <1>1, GotoIn DEF In
  <1>3. In(Present)' = IF l \in Present THEN In(Present) \cup {s} ELSE In(Present) \ {s}
    BY <1>1, GotoIn
  <1>4. pc' \in [Sessions -> PCs] BY <1>1 DEF Goto
  <1> DEFINE R == Running \cup {"unregister"}
  <1>5. In(R) \subseteq In(R)'
    <2>1. s \notin In(R) BY DEF In
    <2> HIDE DEF R
    <2>2. In(R)' = IF l \in R THEN In(R) \cup {s} ELSE In(R) \ {s} BY <1>1, GotoIn
    <2> QED BY <2>1, <2>2
  <1>6. \A id \in Ids : relays'[id] \subseteq Of(id, In(R))'
    BY <1>5 DEF BooksInv, BooksAgree, Of
  <1>7. \A id \in Ids : online[id] = Cardinality(Of(id, In(Present)))
    BY DEF BooksInv, BooksAgree
  <1>8. ASSUME NEW id \in Ids
        PROVE  online'[id] \in Nat /\ online'[id] = Cardinality(Of(id, In(Present)))'
    <2>1. IsFiniteSet(Of(id, In(Present))) BY PresentIsCounted DEF BooksInv
    <2>2. CASE id # d
      <3>1. Of(id, In(Present))' = Of(id, In(Present)) BY <1>3, <2>2 DEF Of
      <3> QED BY <1>1, <1>7, <2>2, <3>1
    <2>3. CASE id = d /\ l \in Present
      <3>1. Of(id, In(Present))' = Of(id, In(Present)) \cup {s} BY <1>3, <2>3 DEF Of
      <3>2. s \notin Of(id, In(Present)) /\ online'[id] = online[id] + 1
        BY <1>0, <1>1, <2>3 DEF Of, In
      <3>3. online[id] \in Nat /\ online[id] + 1 \in Nat BY <1>1
      <3>4. Cardinality(Of(id, In(Present)) \cup {s}) = Cardinality(Of(id, In(Present))) + 1
        BY <2>1, <3>2, FS_AddElement
      <3> QED BY <1>7, <3>1, <3>2, <3>3, <3>4
    <2>4. CASE id = d /\ l \notin Present
      <3>1. Of(id, In(Present))' = Of(id, In(Present)) \ {s} BY <1>3, <2>4 DEF Of
      <3>2. s \in Of(id, In(Present)) /\ online'[id] = online[id] - 1
        BY <1>0, <1>1, <2>4 DEF Of, In
      <3>3. /\ IsFiniteSet(Of(id, In(Present)) \ {s})
            /\ Cardinality(Of(id, In(Present)) \ {s}) = Cardinality(Of(id, In(Present))) - 1
        BY <2>1, <3>2, FS_RemoveElement
      <3> QED BY <1>7, <3>1, <3>2, <3>3, FS_CardinalityType
    <2> QED BY <2>2, <2>3, <2>4
  <1>9. online' \in [Ids -> Nat] BY <1>1, <1>8
  <1>10. active' = Cardinality(In(Counted))' BY <1>2 DEF BooksInv, BooksAgree
  <1> QED BY <1>2, <1>4, <1>6, <1>8, <1>9, <1>10 DEF BooksInv, BooksAgree

\* The books under a step that moves no session.
LEMMA StaysInBooks ==
    ASSUME BooksInv, UNCHANGED <<pc, active, online>>,
           \A id \in Ids : relays'[id] \subseteq relays[id]
    PROVE  IsFiniteSet(In(Counted))' /\ BooksAgree'
  BY DEF BooksInv, BooksAgree, In, Of

LEMMA RegisterKeeps ==
    ASSUME BooksInv, NEW s \in Sessions, Register(s)
    PROVE  pc' \in [Sessions -> PCs] /\ IsFiniteSet(In(Counted))' /\ BooksAgree'
           /\ relays' \in [Ids -> SUBSET Sessions]
  <1>1. /\ pc \in [Sessions -> PCs] /\ relays \in [Ids -> SUBSET Sessions]
        /\ pc[s] = "entered" /\ Goto(s, "loop")
        /\ relays' = [relays EXCEPT ![IdOf[s]] = @ \cup {s}]
        /\ active' = active /\ online' = online
    BY DEF BooksInv, TypeOK, Register
  <1>2. In(Counted)' = In(Counted) /\ In(Present)' = In(Present)
        /\ pc' \in [Sessions -> PCs]
    BY <1>1 DEF In, Goto, PCs, Counted, Joined, Present, Running
  <1>3. ASSUME NEW id \in Ids
        PROVE  relays'[id] \subseteq Of(id, In(Running \cup {"unregister"}))'
    <2> DEFINE R == Running \cup {"unregister"}
    <2>1. relays[id] \subseteq Of(id, In(R)) BY DEF BooksInv, BooksAgree
    <2>2. pc[s] \notin R /\ "loop" \in R BY <1>1 DEF Running
    <2>3. In(R)' = In(R) \cup {s}
      <3> HIDE DEF R
      <3> QED BY <1>1, <2>2, GotoIn
    <2>4. relays'[id] = IF id = IdOf[s] THEN relays[id] \cup {s} ELSE relays[id]
      BY <1>1
    <2> HIDE DEF R
    <2>5. Of(id, In(R)) \subseteq Of(id, In(R))' /\ (id = IdOf[s] => s \in Of(id, In(R))')
      BY <2>3 DEF Of
    <2>6. relays'[id] \subseteq Of(id, In(R))' BY <2>1, <2>4, <2>5
    <2> QED BY <2>6 DEF R
  <1>4. relays' \in [Ids -> SUBSET Sessions] BY <1>1
  <1>5. /\ active = Cardinality(In(Counted))
        /\ \A id \in Ids : online[id] = Cardinality(Of(id, In(Present)))
        /\ IsFiniteSet(In(Counted))
    BY DEF BooksInv, BooksAgree
  <1>6. \A id \in Ids : Of(id, In(Present))' = Of(id, In(Present)) BY <1>2 DEF Of
  <1> QED BY <1>1, <1>2, <1>3, <1>4, <1>5, <1>6 DEF BooksAgree

LEMMA UnregisterKeeps ==
    ASSUME BooksInv, NEW s \in Sessions, Unregister(s)
    PROVE  pc' \in [Sessions -> PCs] /\ IsFiniteSet(In(Counted))' /\ BooksAgree'
           /\ relays' \in [Ids -> SUBSET Sessions]
  <1>1. /\ pc \in [Sessions -> PCs] /\ relays \in [Ids -> SUBSET Sessions]
        /\ pc[s] = "unregister" /\ Goto(s, "leave")
        /\ relays' = [relays EXCEPT ![IdOf[s]] = @ \ {s}]
        /\ active' = active /\ online' = online
    BY DEF BooksInv, TypeOK, Unregister
  <1>2. In(Counted)' = In(Counted) /\ In(Present)' = In(Present)
        /\ pc' \in [Sessions -> PCs]
    BY <1>1 DEF In, Goto, PCs, Counted, Joined, Present, Running
  <1>3. ASSUME NEW id \in Ids
        PROVE  relays'[id] \subseteq Of(id, In(Running \cup {"unregister"}))'
    <2>1. relays[id] \subseteq Of(id, In(Running \cup {"unregister"}))
      BY DEF BooksInv, BooksAgree
    <2>2. \A r \in Of(id, In(Running \cup {"unregister"})) : r # s => r \in Of(id, In(Running \cup {"unregister"}))'
      BY <1>1 DEF Of, In, Goto
    <2>3. s \in relays'[id] => FALSE
      BY <1>1, <2>1 DEF Of
    <2>4. relays'[id] \subseteq relays[id] BY <1>1
    <2> QED BY <2>1, <2>2, <2>3, <2>4
  <1>4. relays' \in [Ids -> SUBSET Sessions] BY <1>1
  <1>5. /\ active = Cardinality(In(Counted))
        /\ \A id \in Ids : online[id] = Cardinality(Of(id, In(Present)))
        /\ IsFiniteSet(In(Counted))
    BY DEF BooksInv, BooksAgree
  <1>6. \A id \in Ids : Of(id, In(Present))' = Of(id, In(Present)) BY <1>2 DEF Of
  <1> QED BY <1>1, <1>2, <1>3, <1>4, <1>5, <1>6 DEF BooksAgree

LEMMA NextBooks == BooksInv /\ GroupInv /\ [Next]_vars => BooksInv'
  <1> SUFFICES ASSUME BooksInv, GroupInv, [Next]_vars PROVE BooksInv'
    OBVIOUS
  <1> DEFINE Books == /\ pc' \in [Sessions -> PCs] /\ active' \in Nat
                      /\ online' \in [Ids -> Nat] /\ relays' \in [Ids -> SUBSET Sessions]
                      /\ IsFiniteSet(In(Counted))' /\ BooksAgree'
  <1>t. /\ pc \in [Sessions -> PCs] /\ active \in Nat
        /\ online \in [Ids -> Nat] /\ relays \in [Ids -> SUBSET Sessions]
    BY DEF BooksInv, TypeOK
  <1>w. ASSUME NEW s \in Sessions, NEW CONSTANT l \in PCs, Goto(s, l),
               UNCHANGED <<active, online, relays>>,
               pc[s] \in Counted <=> l \in Counted,
               pc[s] \in Present <=> l \in Present,
               pc[s] \in Running \cup {"unregister"} => l \in Running \cup {"unregister"}
        PROVE  Books
    BY <1>t, <1>w, MovesWithin
  <1>0. ASSUME UNCHANGED <<pc, active, online>>, relays' \in [Ids -> SUBSET Sessions],
               \A id \in Ids : relays'[id] \subseteq relays[id]
        PROVE  Books
    BY <1>t, <1>0, StaysInBooks
  <1> HIDE DEF Books
  <1>1. ASSUME NEW s \in Sessions, Authorize(s) PROVE Books
    BY <1>1, <1>w DEF Authorize, PCs, Counted, Joined, Present, Running
  <1>2. ASSUME NEW s \in Sessions, Count(s) PROVE Books
    <2>1. PICK l \in {"overflow", "counted"} : Goto(s, l) BY <1>2 DEF Count
    <2>2. pc[s] \notin Counted /\ l \in Counted /\ pc[s] \notin Present /\ l \notin Present /\ l \in PCs
      BY <1>2, <2>1 DEF Count, PCs, Counted, Joined, Present, Running
    <2>3. active' = active + 1 /\ UNCHANGED <<online, relays>> BY <1>2 DEF Count
    <2> QED BY <1>t, <2>1, <2>2, <2>3, CountedMoves DEF Books
  <1>3. ASSUME NEW s \in Sessions, Overflow(s) \/ Uncount(s) PROVE Books
    <2>1. Goto(s, "ended") /\ active' = active - 1 /\ UNCHANGED <<online, relays>>
      BY <1>3 DEF Overflow, Uncount
    <2>2. pc[s] \in Counted /\ "ended" \notin Counted
          /\ pc[s] \notin Present /\ "ended" \notin Present /\ "ended" \in PCs
      BY <1>3 DEF Overflow, Uncount, PCs, Counted, Joined, Present, Running
    <2> QED BY <1>t, <2>1, <2>2, CountedMoves DEF Books
  <1>4. ASSUME NEW s \in Sessions, Load(s) PROVE Books
    BY <1>4, <1>w DEF Load, PCs, Counted, Joined, Present, Running
  <1>5. ASSUME NEW s \in Sessions, TryAdd(s) PROVE Books
    <2>1. PICK l \in {"uncount", "joined"} : Goto(s, l)
      BY <1>5 DEF TryAdd
    <2>2. pc[s] = "loaded" /\ UNCHANGED <<active, online, relays>> BY <1>5 DEF TryAdd
    <2> QED BY <1>w, <2>1, <2>2 DEF PCs, Counted, Joined, Present, Running
  <1>6. ASSUME NEW s \in Sessions, Enter(s) PROVE Books
    <2>1. CASE Goto(s, "remove") /\ online' = online
      BY <1>6, <1>w, <2>1 DEF Enter, PCs, Counted, Joined, Present, Running
    <2>2. CASE Goto(s, "entered") /\ online' = [online EXCEPT ![IdOf[s]] = @ + 1]
      <3>1. /\ pc[s] \in Counted /\ "entered" \in Counted /\ "entered" \in PCs
            /\ pc[s] \notin Present /\ "entered" \in Present
            /\ pc[s] \notin Running \cup {"unregister"}
            /\ UNCHANGED <<active, relays>>
        BY <1>6 DEF Enter, PCs, Counted, Joined, Present, Running
      <3> QED BY <1>t, <2>2, <3>1, PresentMoves DEF Books
    <2> QED BY <1>6, <2>1, <2>2 DEF Enter
  <1>7. ASSUME NEW s \in Sessions, Register(s) PROVE Books
    <2>1. active' = active /\ online' = online BY <1>7 DEF Register
    <2> QED BY <1>t, <1>7, <2>1, RegisterKeeps DEF Books
  <1>8. ASSUME NEW s \in Sessions, Loop(s) PROVE Books
    <2>1. PICK l \in {"unregister", "arm"} : Goto(s, l) BY <1>8 DEF Loop
    <2>2. pc[s] = "loop" /\ UNCHANGED <<active, online, relays>> BY <1>8 DEF Loop
    <2> QED BY <1>w, <2>1, <2>2 DEF PCs, Counted, Joined, Present, Running
  <1>9. ASSUME NEW s \in Sessions, Arm(s) PROVE Books
    BY <1>9, <1>w DEF Arm, PCs, Counted, Joined, Present, Running
  <1>10. ASSUME NEW s \in Sessions, Packet(s) PROVE Books
    BY <1>10, <1>w DEF Packet, PCs, Counted, Joined, Present, Running
  <1>11. ASSUME NEW s \in Sessions, ReadEnds(s) PROVE Books
    BY <1>11, <1>w DEF ReadEnds, PCs, Counted, Joined, Present, Running
  <1>12. ASSUME NEW s \in Sessions,
                Expire(s) \/ Silence(s) \/ FlushTick(s) \/ DownWriterFails(s)
         PROVE  Books
    BY <1>t, <1>0, <1>12 DEF Expire, Silence, FlushTick, DownWriterFails
  <1>13. ASSUME NEW s \in Sessions, Unregister(s) PROVE Books
    <2>1. active' = active /\ online' = online BY <1>13 DEF Unregister
    <2> QED BY <1>t, <1>13, <2>1, UnregisterKeeps DEF Books
  <1>14. ASSUME NEW s \in Sessions, Leave(s) PROVE Books
    <2>1. /\ Goto(s, "remove") /\ online' = [online EXCEPT ![IdOf[s]] = @ - 1]
          /\ pc[s] \in Counted /\ "remove" \in Counted /\ "remove" \in PCs
          /\ pc[s] \in Present /\ "remove" \notin Present
          /\ pc[s] \notin Running \cup {"unregister"}
          /\ UNCHANGED <<active, relays>>
      BY <1>14 DEF Leave, PCs, Counted, Joined, Present, Running
    <2> QED BY <1>t, <2>1, PresentMoves DEF Books
  <1>15. ASSUME NEW s \in Sessions, Remove(s) PROVE Books
    BY <1>15, <1>w DEF Remove, PCs, Counted, Joined, Present, Running
  <1>16. ASSUME NEW id \in Ids, \/ Reap(id) \/ Sweep(id)
                                \/ Suspend(id) \/ Resume(id) \/ DeleteUser(id)
         PROVE  Books
    BY <1>t, <1>0, <1>16 DEF Reap, Sweep, Suspend, Resume, DeleteUser
  <1>17. ASSUME NEW id \in Ids, EvictIdle(id) PROVE Books
    BY <1>t, <1>0, <1>17 DEF EvictIdle
  <1>18. CASE Next
    <2>1. Books
      BY <1>18, <1>1, <1>2, <1>3, <1>4, <1>5, <1>6, <1>7, <1>8, <1>9, <1>10, <1>11,
         <1>12, <1>13, <1>14, <1>15, <1>16, <1>17
      DEF Next, EnterStep, ReadStep, LeaveStep
    <2>2. TypeOK BY DEF BooksInv
    <2>3. GroupTypes' BY NextGroupInv DEF GroupInv
    <2> QED BY <1>18, <2>1, <2>2, <2>3, NextTypes DEF Books, BooksInv, TypeOK, GroupTypes
  <1>19. CASE UNCHANGED vars
    <2>1. UNCHANGED <<pc, active, online, relays, grp, members, registry, reused,
                      done, fired, late, silent, user>>
      BY <1>19 DEF vars
    <2>2. TypeOK' BY <2>1 DEF BooksInv, TypeOK
    <2> QED BY <2>1, <2>2, StaysInBooks DEF BooksInv
  <1> QED BY <1>18, <1>19

\* The counters and lists agree with the sessions there are, for any number of them.
THEOREM BooksInvariant == Spec => []BooksInv
  <1>1. Init => BooksInv /\ GroupInv BY InitBooks, InitGroupInv
  <1>2. BooksInv /\ GroupInv /\ [Next]_vars => BooksInv' /\ GroupInv' BY NextBooks, NextGroupInv
  <1> QED BY <1>1, <1>2, PTL DEF Spec

\* Every reachable state is well typed: no counter is ever negative.
THEOREM TypeCorrect == Spec => []TypeOK
  <1>1. BooksInv => TypeOK BY DEF BooksInv
  <1> QED BY <1>1, BooksInvariant, PTL

\* The global counter, the presence count and the eviction list count the sessions.
THEOREM BooksAlwaysAgree == Spec => []BooksAgree
  <1>1. BooksInv => BooksAgree BY DEF BooksInv
  <1> QED BY <1>1, BooksInvariant, PTL

-----------------------------------------------------------------------------
(***************************************************************************)
(* RawGroups implements SessionPool: Count is Admit, TryAdd is Join, Enter *)
(* is Appear, Leave is Disappear, Remove is Part and Uncount is Release;   *)
(* every other step, and the refusals of these, change nothing of a pool.  *)
(***************************************************************************)
\* A step of one session between two labels of the same rooms is a stutter.
LEMMA PoolStutters ==
    ASSUME pc \in [Sessions -> PCs], NEW s \in Sessions, NEW CONSTANT l, Goto(s, l),
           members' = members,
           pc[s] \in Admitted <=> l \in Admitted,
           pc[s] \in Present <=> l \in Present
    PROVE  UNCHANGED Pool!vars
  <1>1. In(Admitted)' = In(Admitted)
    <2> HIDE DEF Admitted
    <2> QED BY GotoIn DEF In
  <1>2. In(Present)' = In(Present) BY GotoIn DEF In
  <1> QED BY <1>1, <1>2 DEF Pool!vars

LEMMA PoolStays ==
    ASSUME UNCHANGED <<pc, members>>
    PROVE  UNCHANGED Pool!vars
  BY DEF Pool!vars, In

\* The pool counts as its implementation does.
LEMMA SameCardinality == \A S : Pool!Cardinality(S) = Cardinality(S)
  BY DEF Pool!Cardinality, Cardinality, Pool!IsFiniteSet, IsFiniteSet

LEMMA InitPool == Init => Pool!Init
  BY DEF Init, Pool!Init, In, Admitted, Counted, Joined, Present, Running

LEMMA CountAdmits ==
    ASSUME BooksInv, NEW s \in Sessions, Count(s)
    PROVE  [Pool!Next]_(Pool!vars)
  <1>1. /\ pc \in [Sessions -> PCs] /\ pc[s] = "authorized" /\ members' = members
        /\ active = Cardinality(In(Counted)) /\ IsFiniteSet(In(Counted)) /\ active \in Nat
        /\ active' = active + 1
        /\ Goto(s, IF active' > GlobalLimit THEN "overflow" ELSE "counted")
    BY DEF BooksInv, TypeOK, BooksAgree, Count
  <1>2. "authorized" \notin Admitted /\ "authorized" \notin Present
        /\ "overflow" \notin Admitted /\ "overflow" \notin Present
        /\ "counted" \in Admitted /\ "counted" \notin Present
    BY DEF Admitted, Counted, Joined, Present, Running
  <1>3. CASE active' > GlobalLimit
    BY <1>1, <1>2, <1>3, PoolStutters
  <1>4. CASE ~(active' > GlobalLimit)
    <2>1. In(Admitted) \subseteq In(Counted) BY DEF In, Admitted
    <2>2. Cardinality(In(Admitted)) <= active /\ Cardinality(In(Admitted)) \in Nat
      BY <1>1, <2>1, FS_Subset, FS_CardinalityType
    <2>3. Cardinality(In(Admitted)) < GlobalLimit
      BY <1>1, <1>4, <2>2, LimitAssumption
    <2>4. Goto(s, "counted") BY <1>1, <1>4
    <2>5. In(Admitted)' = In(Admitted) \cup {s}
      <3> HIDE DEF Admitted
      <3> QED BY <1>1, <1>2, <2>4, GotoIn
    <2>6. In(Present)' = In(Present) BY <1>1, <1>2, <2>4, GotoIn DEF In
    <2>7. s \notin In(Admitted) BY <1>1, <1>2 DEF In
    <2>8. Pool!Admit(s) BY <1>1, <2>3, <2>5, <2>6, <2>7, SameCardinality DEF Pool!Admit
    <2> QED BY <2>8 DEF Pool!Next
  <1> QED BY <1>3, <1>4

\* A session is in a group exactly while it is joined.
LEMMA GroupedIsJoined ==
    ASSUME MembersInv, GroupTypes, NEW s \in Sessions
    PROVE  Pool!Grouped(s) <=> pc[s] \in Joined
  BY DEF MembersInv, Pool!Grouped, In

LEMMA TryAddJoins ==
    ASSUME BooksInv, GroupInv, NEW s \in Sessions, TryAdd(s)
    PROVE  [Pool!Next]_(Pool!vars)
  <1>1. /\ pc \in [Sessions -> PCs] /\ pc[s] = "loaded"
        /\ members \in [Sessions -> SUBSET Sessions]
        /\ grp[s] \in Sessions /\ IdOf[grp[s]] = IdOf[s]
    BY DEF BooksInv, TypeOK, GroupInv, MembersInv, In, TryAdd
  <1>2. /\ "loaded" \in Admitted /\ "loaded" \notin Present /\ "loaded" \notin Joined
        /\ "uncount" \in Admitted /\ "uncount" \notin Present
        /\ "joined" \in Admitted /\ "joined" \notin Present
    BY DEF Admitted, Counted, Joined, Present, Running
  <1>3. CASE Cardinality(members[grp[s]]) >= GroupLimit
    <2>1. Goto(s, "uncount") /\ members' = members BY <1>3 DEF TryAdd
    <2> QED BY <1>1, <1>2, <2>1, PoolStutters
  <1>4. CASE ~(Cardinality(members[grp[s]]) >= GroupLimit)
    <2>1. /\ Goto(s, "joined")
          /\ members' = [members EXCEPT ![grp[s]] = @ \cup {s}]
      BY <1>4 DEF TryAdd
    <2>2. IsFiniteSet(members[grp[s]])
      <3>1. members[grp[s]] \subseteq In(Counted)
        BY <1>1 DEF GroupInv, MembersInv, In, Counted
      <3> QED BY <3>1, FS_Subset DEF BooksInv
    <2>3. Cardinality(members[grp[s]]) < GroupLimit
      BY <1>4, <2>2, FS_CardinalityType, LimitAssumption
    <2>4. In(Admitted)' = In(Admitted)
      <3> HIDE DEF Admitted
      <3> QED BY <1>1, <1>2, <2>1, GotoIn DEF In
    <2>5. In(Present)' = In(Present) BY <1>1, <1>2, <2>1, GotoIn DEF In
    <2>6. s \in In(Admitted) BY <1>1, <1>2 DEF In
    <2>7. ~Pool!Grouped(s) BY <1>1, <1>2, GroupedIsJoined DEF GroupInv
    <2>8. Pool!Join(s, grp[s])
      BY <1>1, <2>1, <2>3, <2>4, <2>5, <2>6, <2>7, SameCardinality
      DEF Pool!Join
    <2> QED BY <1>1, <2>8 DEF Pool!Next
  <1> QED BY <1>3, <1>4

LEMMA EnterAppears ==
    ASSUME BooksInv, GroupInv, NEW s \in Sessions, Enter(s)
    PROVE  [Pool!Next]_(Pool!vars)
  <1> DEFINE id == IdOf[s]
  <1>1. /\ pc \in [Sessions -> PCs] /\ pc[s] = "joined" /\ members' = members
        /\ id \in Ids /\ online[id] = Cardinality(Of(id, In(Present)))
    BY IdAssumption DEF BooksInv, TypeOK, BooksAgree, Enter
  <1>2. /\ "joined" \in Admitted /\ "joined" \notin Present /\ "joined" \in Joined
        /\ "remove" \in Admitted /\ "remove" \notin Present
        /\ "entered" \in Admitted /\ "entered" \in Present
    BY DEF Admitted, Counted, Joined, Present, Running
  <1>3. CASE DeviceLimit > 0 /\ online[id] >= DeviceLimit
    <2>1. Goto(s, "remove") BY <1>3 DEF Enter
    <2> QED BY <1>1, <1>2, <2>1, PoolStutters
  <1>4. CASE ~(DeviceLimit > 0 /\ online[id] >= DeviceLimit)
    <2>1. Goto(s, "entered") BY <1>4 DEF Enter
    <2>2. In(Admitted)' = In(Admitted)
      <3> HIDE DEF Admitted
      <3> QED BY <1>1, <1>2, <2>1, GotoIn DEF In
    <2>3. In(Present)' = In(Present) \cup {s} BY <1>1, <1>2, <2>1, GotoIn
    <2>4. s \notin In(Present) BY <1>1, <1>2 DEF In
    <2>5. Pool!Grouped(s) BY <1>1, <1>2, GroupedIsJoined DEF GroupInv
    <2>6. Pool!PresentOf(id) = Of(id, In(Present)) BY DEF Pool!PresentOf, Of
    <2>7. Cardinality(Of(id, In(Present))) \in Nat
      BY PresentIsCounted, FS_CardinalityType DEF BooksInv
    <2>8. DeviceLimit > 0 => Cardinality(Of(id, In(Present))) < DeviceLimit
      BY <1>1, <1>4, <2>7, LimitAssumption
    <2>9. DeviceLimit > 0 => Pool!Cardinality(Pool!PresentOf(id)) < DeviceLimit
      BY <2>6, <2>8, SameCardinality
    <2>10. Pool!Appear(s) BY <1>1, <2>2, <2>3, <2>4, <2>5, <2>9 DEF Pool!Appear
    <2> QED BY <2>10 DEF Pool!Next
  <1> QED BY <1>3, <1>4

LEMMA LeaveDisappears ==
    ASSUME BooksInv, NEW s \in Sessions, Leave(s)
    PROVE  [Pool!Next]_(Pool!vars)
  <1>1. pc \in [Sessions -> PCs] /\ pc[s] = "leave" /\ Goto(s, "remove") /\ members' = members
    BY DEF BooksInv, TypeOK, Leave
  <1>2. /\ "leave" \in Admitted /\ "leave" \in Present
        /\ "remove" \in Admitted /\ "remove" \notin Present
    BY DEF Admitted, Counted, Joined, Present, Running
  <1>3. In(Admitted)' = In(Admitted)
    <2> HIDE DEF Admitted
    <2> QED BY <1>1, <1>2, GotoIn DEF In
  <1>4. In(Present)' = In(Present) \ {s} /\ s \in In(Present)
    <2>1. In(Present)' = In(Present) \ {s} BY <1>1, <1>2, GotoIn
    <2> QED BY <1>1, <1>2, <2>1 DEF In
  <1>5. Pool!Disappear(s) BY <1>1, <1>3, <1>4 DEF Pool!Disappear
  <1> QED BY <1>5 DEF Pool!Next

LEMMA RemoveParts ==
    ASSUME BooksInv, GroupInv, NEW s \in Sessions, Remove(s)
    PROVE  [Pool!Next]_(Pool!vars)
  <1>1. /\ pc \in [Sessions -> PCs] /\ pc[s] = "remove" /\ Goto(s, "uncount")
        /\ members' = [members EXCEPT ![grp[s]] = @ \ {s}]
    BY DEF BooksInv, TypeOK, Remove
  <1>2. /\ "remove" \in Admitted /\ "remove" \notin Present /\ "remove" \in Joined
        /\ "uncount" \in Admitted /\ "uncount" \notin Present
    BY DEF Admitted, Counted, Joined, Present, Running
  <1>3. grp[s] \in Sessions /\ s \in members[grp[s]]
    BY <1>1, <1>2 DEF GroupInv, MembersInv, In
  <1>4. In(Admitted)' = In(Admitted)
    <2> HIDE DEF Admitted
    <2> QED BY <1>1, <1>2, GotoIn DEF In
  <1>5. In(Present)' = In(Present) BY <1>1, <1>2, GotoIn DEF In
  <1>6. s \notin In(Present) BY <1>1, <1>2 DEF In
  <1>7. Pool!Part(s, grp[s]) BY <1>1, <1>3, <1>4, <1>5, <1>6 DEF Pool!Part
  <1> QED BY <1>3, <1>7 DEF Pool!Next

LEMMA UncountReleases ==
    ASSUME BooksInv, GroupInv, NEW s \in Sessions, Uncount(s)
    PROVE  [Pool!Next]_(Pool!vars)
  <1>1. pc \in [Sessions -> PCs] /\ pc[s] = "uncount" /\ Goto(s, "ended") /\ members' = members
    BY DEF BooksInv, TypeOK, Uncount
  <1>2. /\ "uncount" \in Admitted /\ "uncount" \notin Present /\ "uncount" \notin Joined
        /\ "ended" \notin Admitted /\ "ended" \notin Present
    BY DEF Admitted, Counted, Joined, Present, Running
  <1>3. In(Admitted)' = In(Admitted) \ {s} /\ s \in In(Admitted)
    <2> HIDE DEF Admitted
    <2>1. In(Admitted)' = In(Admitted) \ {s} BY <1>1, <1>2, GotoIn
    <2> QED BY <1>1, <1>2, <2>1 DEF In
  <1>4. In(Present)' = In(Present) BY <1>1, <1>2, GotoIn DEF In
  <1>5. ~Pool!Grouped(s) BY <1>1, <1>2, GroupedIsJoined DEF GroupInv
  <1>6. Pool!Release(s) BY <1>1, <1>3, <1>4, <1>5 DEF Pool!Release
  <1> QED BY <1>6 DEF Pool!Next

LEMMA NextPool == BooksInv /\ GroupInv /\ [Next]_vars => [Pool!Next]_(Pool!vars)
  <1> SUFFICES ASSUME BooksInv, GroupInv, [Next]_vars PROVE [Pool!Next]_(Pool!vars)
    OBVIOUS
  <1>t. pc \in [Sessions -> PCs] BY DEF BooksInv, TypeOK
  <1>1. ASSUME NEW s \in Sessions, \/ Authorize(s) \/ Overflow(s) \/ Load(s) \/ Register(s)
                                   \/ Arm(s) \/ Packet(s) \/ ReadEnds(s) \/ Unregister(s)
        PROVE  UNCHANGED Pool!vars
    <2> USE DEF Admitted, Counted, Joined, Present, Running
    <2>1. CASE Authorize(s) BY <1>t, <2>1, PoolStutters DEF Authorize
    <2>2. CASE Overflow(s) BY <1>t, <2>2, PoolStutters DEF Overflow
    <2>3. CASE Load(s) BY <1>t, <2>3, PoolStutters DEF Load
    <2>4. CASE Register(s) BY <1>t, <2>4, PoolStutters DEF Register
    <2>5. CASE Arm(s) BY <1>t, <2>5, PoolStutters DEF Arm
    <2>6. CASE Packet(s) BY <1>t, <2>6, PoolStutters DEF Packet
    <2>7. CASE ReadEnds(s) BY <1>t, <2>7, PoolStutters DEF ReadEnds
    <2>8. CASE Unregister(s) BY <1>t, <2>8, PoolStutters DEF Unregister
    <2> QED BY <1>1, <2>1, <2>2, <2>3, <2>4, <2>5, <2>6, <2>7, <2>8
  <1>2. ASSUME NEW s \in Sessions, Loop(s) PROVE UNCHANGED Pool!vars
    <2>1. PICK l \in {"unregister", "arm"} : Goto(s, l) BY <1>2 DEF Loop
    <2>2. pc[s] = "loop" /\ members' = members BY <1>2 DEF Loop
    <2> QED BY <1>t, <2>1, <2>2, PoolStutters DEF Admitted, Counted, Joined, Present, Running
  <1>3. ASSUME NEW s \in Sessions, Expire(s) \/ Silence(s) \/ FlushTick(s) \/ DownWriterFails(s)
        PROVE  UNCHANGED Pool!vars
    BY <1>3, PoolStays DEF Expire, Silence, FlushTick, DownWriterFails
  <1>4. ASSUME NEW id \in Ids, \/ Reap(id) \/ EvictIdle(id) \/ Sweep(id)
                               \/ Suspend(id) \/ Resume(id) \/ DeleteUser(id)
        PROVE  UNCHANGED Pool!vars
    BY <1>4, PoolStays DEF Reap, EvictIdle, Sweep, Suspend, Resume, DeleteUser
  <1>5. CASE UNCHANGED vars
    BY <1>5, PoolStays DEF vars
  <1> QED
    BY <1>1, <1>2, <1>3, <1>4, <1>5, CountAdmits, TryAddJoins, EnterAppears,
       LeaveDisappears, RemoveParts, UncountReleases
    DEF Next, EnterStep, ReadStep, LeaveStep

\* Admission implements the pool of sessions with its three limits, for any number of
\* sessions, identities and limits.
THEOREM PoolImplemented == Spec => ImplementsPool
  <1>1. Init => BooksInv /\ GroupInv BY InitBooks, InitGroupInv
  <1>2. BooksInv /\ GroupInv /\ [Next]_vars => BooksInv' /\ GroupInv' BY NextBooks, NextGroupInv
  <1> QED BY <1>1, <1>2, InitPool, NextPool, PTL DEF Spec, ImplementsPool, Pool!Spec
-----------------------------------------------------------------------------
(***************************************************************************)
(* What the pool promises, its limits, so holds of RawGroups.              *)
(***************************************************************************)
LEMMA SameFinite == \A S : Pool!IsFiniteSet(S) <=> IsFiniteSet(S)
  BY DEF Pool!IsFiniteSet, IsFiniteSet

\* One more, or one less, in a room.
LEMMA Doors ==
    ASSUME NEW S, NEW x, NEW n \in Nat, IsFiniteSet(S)
    PROVE  /\ Cardinality(S) < n => IsFiniteSet(S \cup {x}) /\ Cardinality(S \cup {x}) <= n
           /\ Cardinality(S) <= n => IsFiniteSet(S \ {x}) /\ Cardinality(S \ {x}) <= n
  <1>1. Cardinality(S) \in Nat BY FS_CardinalityType
  <1>2. x \notin S => Cardinality(S \cup {x}) = Cardinality(S) + 1 /\ IsFiniteSet(S \cup {x})
    BY FS_AddElement
  <1>3. x \in S => S \cup {x} = S OBVIOUS
  <1>4. IsFiniteSet(S \ {x}) /\ Cardinality(S \ {x}) <= Cardinality(S)
        /\ Cardinality(S \ {x}) \in Nat
    BY FS_Subset, FS_CardinalityType
  <1> QED BY <1>1, <1>2, <1>3, <1>4

\* The rooms with their limits.
Within(S, n) == IsFiniteSet(S) /\ Cardinality(S) <= n
PoolInv ==
    /\ members \in [Sessions -> SUBSET Sessions]
    /\ Within(In(Admitted), GlobalLimit)
    /\ \A g \in Sessions : Within(members[g], GroupLimit)
    /\ IsFiniteSet(In(Present))
    /\ DeviceLimit > 0 => \A id \in Ids : Within(Pool!PresentOf(id), DeviceLimit)

LEMMA InitPoolInv == Pool!Init => PoolInv
  <1> SUFFICES ASSUME Pool!Init PROVE PoolInv OBVIOUS
  <1>1. In(Admitted) = {} /\ members = [g \in Sessions |-> {}] /\ In(Present) = {}
    BY DEF Pool!Init
  <1>2. \A id \in Ids : Pool!PresentOf(id) = {} BY <1>1 DEF Pool!PresentOf
  <1>3. \A n \in Nat : Within({}, n) BY FS_EmptySet DEF Within
  <1> QED BY <1>1, <1>2, <1>3, FS_EmptySet, LimitAssumption DEF PoolInv

LEMMA GroupsWithin ==
    ASSUME PoolInv, NEW g \in Sessions, NEW S \in SUBSET Sessions, Within(S, GroupLimit),
           members' = [members EXCEPT ![g] = S]
    PROVE  /\ members' \in [Sessions -> SUBSET Sessions]
           /\ \A h \in Sessions : Within(members'[h], GroupLimit)
  BY DEF PoolInv

LEMMA PresentWithin ==
    ASSUME PoolInv, In(Present)' = In(Present)
    PROVE  /\ IsFiniteSet(In(Present)')
           /\ DeviceLimit > 0 => \A id \in Ids : Within(Pool!PresentOf(id)', DeviceLimit)
  <1>1. \A id \in Ids : Pool!PresentOf(id)' = Pool!PresentOf(id) BY DEF Pool!PresentOf
  <1> QED BY <1>1 DEF PoolInv, Within

LEMMA NextPoolInv == PoolInv /\ [Pool!Next]_(Pool!vars) => PoolInv'
  <1> SUFFICES ASSUME PoolInv, [Pool!Next]_(Pool!vars) PROVE PoolInv' OBVIOUS
  <1> USE LimitAssumption
  <1>1. ASSUME NEW s \in Sessions, Pool!Admit(s) \/ Pool!Release(s) PROVE PoolInv'
    <2>1. Within(In(Admitted)', GlobalLimit)
      <3>1. IsFiniteSet(In(Admitted)) /\ Cardinality(In(Admitted)) <= GlobalLimit
        BY DEF PoolInv, Within
      <3>2. CASE Pool!Admit(s)
        <4>1. In(Admitted)' = In(Admitted) \cup {s} /\ Cardinality(In(Admitted)) < GlobalLimit
          BY <3>2, SameCardinality DEF Pool!Admit
        <4>2. Within(In(Admitted) \cup {s}, GlobalLimit) BY <3>1, <4>1, Doors DEF Within
        <4> HIDE DEF Admitted
        <4> QED BY <4>1, <4>2
      <3>3. CASE Pool!Release(s)
        <4>1. In(Admitted)' = In(Admitted) \ {s} BY <3>3 DEF Pool!Release
        <4>2. Within(In(Admitted) \ {s}, GlobalLimit) BY <3>1, Doors DEF Within
        <4> HIDE DEF Admitted
        <4> QED BY <4>1, <4>2
      <3> QED BY <1>1, <3>2, <3>3
    <2>2. members' = members /\ In(Present)' = In(Present)
      BY <1>1 DEF Pool!Admit, Pool!Release
    <2> QED BY <2>1, <2>2, PresentWithin DEF PoolInv, Within
  <1>2. ASSUME NEW s \in Sessions, NEW g \in Sessions, Pool!Join(s, g) \/ Pool!Part(s, g)
        PROVE  PoolInv'
    <2>1. In(Admitted)' = In(Admitted) /\ In(Present)' = In(Present)
      BY <1>2 DEF Pool!Join, Pool!Part
    <2>2. IsFiniteSet(members[g]) /\ members[g] \in SUBSET Sessions
          /\ Cardinality(members[g]) <= GroupLimit
      BY DEF PoolInv, Within
    <2>3. PICK S \in SUBSET Sessions :
            Within(S, GroupLimit) /\ members' = [members EXCEPT ![g] = S]
      <3>1. CASE Pool!Join(s, g)
        <4>1. Cardinality(members[g]) < GroupLimit
              /\ members' = [members EXCEPT ![g] = members[g] \cup {s}]
          BY <3>1, SameCardinality DEF Pool!Join
        <4>2. Within(members[g] \cup {s}, GroupLimit) BY <2>2, <4>1, Doors DEF Within
        <4> QED BY <2>2, <4>1, <4>2
      <3>2. CASE Pool!Part(s, g)
        <4>1. members' = [members EXCEPT ![g] = members[g] \ {s}] BY <3>2 DEF Pool!Part
        <4>2. Within(members[g] \ {s}, GroupLimit) BY <2>2, Doors DEF Within
        <4> QED BY <2>2, <4>1, <4>2
      <3> QED BY <1>2, <3>1, <3>2
    <2> QED BY <2>1, <2>3, GroupsWithin, PresentWithin DEF PoolInv, Within
  <1>3. ASSUME NEW s \in Sessions, Pool!Appear(s) \/ Pool!Disappear(s) PROVE PoolInv'
    <2>1. In(Admitted)' = In(Admitted) /\ members' = members
      BY <1>3 DEF Pool!Appear, Pool!Disappear
    <2>2. IsFiniteSet(In(Present)')
      BY <1>3, FS_AddElement, FS_RemoveElement DEF Pool!Appear, Pool!Disappear, PoolInv
    <2>3. ASSUME NEW id \in Ids, DeviceLimit > 0
          PROVE  Within(Pool!PresentOf(id)', DeviceLimit)
      <3>1. Within(Pool!PresentOf(id), DeviceLimit) BY <2>3 DEF PoolInv
      <3>2. CASE Pool!Appear(s)
        <4>1. Pool!PresentOf(id)' = IF id = IdOf[s] THEN Pool!PresentOf(id) \cup {s}
                                    ELSE Pool!PresentOf(id)
          BY <3>2 DEF Pool!Appear, Pool!PresentOf
        <4>2. id = IdOf[s] => Cardinality(Pool!PresentOf(id)) < DeviceLimit
          BY <3>2, <2>3, SameCardinality DEF Pool!Appear
        <4>3. id = IdOf[s] => Within(Pool!PresentOf(id) \cup {s}, DeviceLimit)
          BY <3>1, <4>2, Doors DEF Within
        <4> QED BY <3>1, <4>1, <4>3
      <3>3. CASE Pool!Disappear(s)
        <4>1. Pool!PresentOf(id)' = IF id = IdOf[s] THEN Pool!PresentOf(id) \ {s}
                                    ELSE Pool!PresentOf(id)
          BY <3>3 DEF Pool!Disappear, Pool!PresentOf
        <4>2. Within(Pool!PresentOf(id) \ {s}, DeviceLimit) BY <3>1, Doors DEF Within
        <4> QED BY <3>1, <4>1, <4>2
      <3> QED BY <1>3, <3>2, <3>3
    <2> QED BY <2>1, <2>2, <2>3 DEF PoolInv, Within
  <1>4. CASE UNCHANGED Pool!vars
    <2>1. In(Admitted)' = In(Admitted) /\ members' = members /\ In(Present)' = In(Present)
      BY <1>4 DEF Pool!vars
    <2> QED BY <2>1, PresentWithin DEF PoolInv, Within
  <1> QED BY <1>1, <1>2, <1>3, <1>4 DEF Pool!Next

\* None of the server's three limits on RAW sessions is ever exceeded: sessions in all,
\* sessions of a group, present sessions of an identity.
THEOREM LimitsHold == Spec => []Pool!Limits
  <1>1. Pool!Init => PoolInv BY InitPoolInv
  <1>2. PoolInv /\ [Pool!Next]_(Pool!vars) => PoolInv' BY NextPoolInv
  <1>3. PoolInv => Pool!Limits
    BY SameCardinality, SameFinite DEF PoolInv, Within, Pool!Limits
  <1> QED BY <1>1, <1>2, <1>3, PoolImplemented, PTL DEF ImplementsPool, Pool!Spec
=============================================================================
