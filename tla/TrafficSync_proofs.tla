------------------------- MODULE TrafficSync_proofs -------------------------
(***************************************************************************)
(* Proofs about TrafficSync for every set of users, quota and bound: the   *)
(* model is well typed, and a reset of a user's traffic is undone on disk  *)
(* only if it met one of the windows the module names.                     *)
(***************************************************************************)
EXTENDS TrafficSync, TLAPS

USE DEF reloadVars, editVars, history

\* Merging two rows gives a row whose counter is one of the two.
LEMMA MergeUsed ==
    ASSUME NEW d \in Row, NEW m \in Row
    PROVE  /\ Merge(d, m) \in Row
           /\ Merge(d, m).used \in {d.used, m.used}
  BY DEF Merge, Row, Larger

\* The constant rows are rows, with no unit counted.
LEMMA EmptyRows ==
    /\ NoRow \in Row /\ NoRow.used = 0
    /\ NewRow \in Row /\ NewRow.used = 0
    /\ NoRows \in [Users -> Row] /\ \A u \in Users : NoRows[u].used = 0
  BY DEF NoRow, NewRow, NoRows, Row

\* Writing a counter or a flag into a row leaves a row.
LEMMA RowWrites ==
    ASSUME NEW r \in Row, NEW n \in Nat, NEW a \in BOOLEAN
    PROVE  /\ [r EXCEPT !.used = n, !.off = a] \in Row
           /\ [r EXCEPT !.off = a] \in Row
           /\ r.used \in Nat /\ r.off \in BOOLEAN /\ r.live \in BOOLEAN
  BY DEF Row

\* The state of the model keeps its types: every variable is in its domain in
\* every reachable state, whatever thread takes the next step.
LEMMA InitTypeOK == Init => TypeOK
  <1> SUFFICES ASSUME Init PROVE TypeOK
    OBVIOUS
  <1>1. disk \in [Users -> Row] /\ mem \in [Users -> Row]
    <2>1. {NewRow, NoRow} \subseteq Row BY EmptyRows
    <2> QED BY <2>1 DEF Init
  <1>2. pc \in [Threads -> PCs]
    BY DEF Init, Threads, Flushers, PCs
  <1> QED BY <1>1, <1>2, EmptyRows DEF Init, TypeOK, NoUser, Free, Wants

LEMMA NextTypeOK == TypeOK /\ [Next]_vars => TypeOK'
  <1> SUFFICES ASSUME TypeOK, [Next]_vars PROVE TypeOK'
    OBVIOUS
  <1> USE EmptyRows DEF TypeOK, Threads, Flushers, PCs, Free, NoUser, Goto, Mark, Wants
  <1>1. ASSUME NEW u \in Users, PanelReset(u) PROVE TypeOK'
    <2>1. disk' \in [Users -> Row]
      <3>1. disk' = [disk EXCEPT ![u] = [disk[u] EXCEPT !.used = 0, !.off = FALSE]]
        BY <1>1 DEF PanelReset
      <3> QED BY <3>1, RowWrites
    <2> QED BY <1>1, <2>1 DEF PanelReset, InOpenWindow, Ask
  <1>2. ASSUME NEW u \in Users, PanelCreate(u) PROVE TypeOK'
    BY <1>2 DEF PanelCreate, InOpenWindow, NewRow, NoRow, Ask
  <1>3. ASSUME NEW u \in Users, AddTraffic(u) PROVE TypeOK'
    <2>1. mem' \in [Users -> Row]
      <3>1. mem' = [mem EXCEPT ![u] = [mem[u] EXCEPT !.used = mem[u].used + 1,
                                                     !.off = mem[u].used + 1 >= Quota]]
        BY <1>3 DEF AddTraffic
      <3>2. mem[u] \in Row /\ mem[u].used + 1 \in Nat BY DEF Row
      <3>3. (mem[u].used + 1 >= Quota) \in BOOLEAN OBVIOUS
      <3> QED BY <3>1, <3>2, <3>3, RowWrites
    <2> QED BY <1>3, <2>1 DEF AddTraffic
  <1>4. ASSUME NEW u \in Users, BindDevice(u) PROVE TypeOK'
    BY <1>4 DEF BindDevice, Saved
  <1>5. ASSUME NEW u \in Users, DeleteUser(u) PROVE TypeOK'
    BY <1>5 DEF DeleteUser, Saved, NotSaved
  <1>6. ASSUME NEW u \in Users, NEW off \in BOOLEAN, SetDeactivated(u, off)
        PROVE TypeOK'
    <2>1. mem' \in [Users -> Row]
      <3>1. mem' = [mem EXCEPT ![u] = [mem[u] EXCEPT !.off = off]]
        BY <1>6 DEF SetDeactivated
      <3> QED BY <3>1, RowWrites
    <2>2. CASE NotSaved BY <1>6, <2>1, <2>2 DEF SetDeactivated, NotSaved
    <2>3. CASE ~NotSaved
      <3>1. disk' = [disk EXCEPT ![u] = [disk[u] EXCEPT
                               !.off = IF disk[u].live THEN off ELSE disk[u].off]]
        BY <1>6, <2>3 DEF SetDeactivated, Saved
      <3>2. disk' \in [Users -> Row] BY <3>1, RowWrites
      <3> QED BY <1>6, <2>1, <2>3, <3>2 DEF SetDeactivated, Saved
    <2> QED BY <2>2, <2>3
  <1>7. ASSUME NEW u \in Users, NEW off \in BOOLEAN, UpdateUser(u, off)
        PROVE TypeOK'
    <2>1. mem' \in [Users -> Row]
      <3>1. mem' = [mem EXCEPT ![u] = [mem[u] EXCEPT !.off = off]]
        BY <1>7 DEF UpdateUser
      <3> QED BY <3>1, RowWrites
    <2> QED BY <1>7, <2>1 DEF UpdateUser, Saved, NotSaved
  <1>8. CASE StatsSync BY <1>8 DEF StatsSync
  <1>9. CASE StatsLoad
    BY <1>9 DEF StatsLoad, Larger, CrossedByReload, StaleIn, Reloading
  <1>10. CASE StatsLoadFails BY <1>10 DEF StatsLoadFails
  <1>11. CASE StatsDirtyCheck BY <1>11 DEF StatsDirtyCheck
  <1>12. ASSUME NEW t \in Flushers, FlushCheck(t) PROVE TypeOK'
    BY <1>12 DEF FlushCheck, FlushDone, After, KeepDirty
  <1>13. ASSUME NEW t \in Flushers, FlushWrite(t) PROVE TypeOK'
    BY <1>13 DEF FlushWrite, FlushDone, After, Row
  <1>14. ASSUME NEW t \in Flushers, FlushFails(t) PROVE TypeOK'
    BY <1>14 DEF FlushFails, KeepDirty, ReloadFailed
  <1>15. CASE UpdatePatched BY <1>15 DEF UpdatePatched, Remember, Larger, Overtaken, StaleIn, Reloading
  <1>16. CASE UpdateUpsert
    <2>1. disk' \in [Users -> Row]
      <3>1. CASE target \in Users
        BY <1>16, <3>1, RowWrites DEF UpdateUpsert
      <3>2. CASE target \notin Users
        BY <1>16, <3>2 DEF UpdateUpsert
      <3> QED BY <3>1, <3>2
    <2> QED BY <1>16, <2>1 DEF UpdateUpsert, EntryOvertaken, Overtaken, StaleIn, Reloading
  <1>17. CASE UpdateFails BY <1>17 DEF UpdateFails
  <1>18. CASE EditRemember BY <1>18 DEF EditRemember, Remember, Larger, Overtaken, StaleIn, Reloading
  <1>19. CASE ReloadRead
    <2>1. rrev' \in Nat BY <1>19 DEF ReloadRead
    <2>2. pc' \in [Threads -> PCs] BY <1>19 DEF ReloadRead
    <2> QED BY <1>19, <2>1, <2>2 DEF ReloadRead
  <1>20. CASE ReloadTrust BY <1>20 DEF ReloadTrust
  <1>21. CASE ReloadLoad BY <1>21, MergeUsed DEF ReloadLoad
  <1>22. CASE ReloadInstall BY <1>22 DEF ReloadInstall
  <1>23. CASE ReloadRemember BY <1>23 DEF ReloadRemember
  <1>24. CASE ReloadSet BY <1>24 DEF ReloadSet
  <1>25. CASE Crash BY <1>25 DEF Crash
  <1>26. ASSUME NEW rows \in [Users -> Row], Load(rows) PROVE TypeOK'
    BY <1>26 DEF Load
  <1>27. CASE BootSave BY <1>27 DEF BootSave, Overtaken, StaleIn, Reloading
  <1>28. CASE BootSaveFails BY <1>28 DEF BootSaveFails
  <1>29. CASE BootRemember BY <1>29 DEF BootRemember, Remember, Larger, Overtaken, StaleIn, Reloading
  <1>30. CASE UNCHANGED vars BY <1>30 DEF vars
  <1>31. ASSUME NEW t \in Flushers, FlushUnchecked(t) PROVE TypeOK'
    BY <1>31 DEF FlushUnchecked, Unchecked, StaleIn
  <1>32. CASE ReloadSnapshot
    BY <1>32 DEF ReloadSnapshot
  <1>33. CASE ReloadRememberFromDisk
    BY <1>33 DEF ReloadRememberFromDisk, Remember, Larger, Overtaken, StaleIn, Reloading
  <1>34. CASE ReloadLoadFails
    BY <1>34 DEF ReloadLoadFails, ReloadFailed
  <1>35. CASE Stop BY <1>35 DEF Stop
  <1>36. CASE BootLoad BY <1>26, <1>36 DEF BootLoad
  <1>37. CASE BootLoadFails BY <1>26, <1>37 DEF BootLoadFails
  <1> QED
    BY <1>1, <1>2, <1>3, <1>4, <1>5, <1>6, <1>7, <1>8, <1>9, <1>10,
       <1>11, <1>12, <1>13, <1>14, <1>15, <1>16, <1>17, <1>18, <1>19, <1>20,
       <1>21, <1>22, <1>23, <1>24, <1>25, <1>27, <1>28, <1>29, <1>30,
       <1>31, <1>32, <1>33, <1>34, <1>35, <1>36, <1>37
    DEF Next, PanelStep, EditStart, StatsStep, FlushStep, EditStep, ReloadStep,
        BootStep, Flushers

\* Type correctness of panel.db, the server's table and every thread.
THEOREM TypeCorrect == Spec => []TypeOK
  BY InitTypeOK, NextTypeOK, PTL DEF Spec

-----------------------------------------------------------------------------
(***************************************************************************)
(* FenceInv is inductive.  The argument: a flush writes only after it has  *)
(* seen users_rev <= appliedUsersRev, and while the table holds units from *)
(* before an unread reset, appliedUsersRev is below that reset (FenceUp);  *)
(* so the check fails, unless the reset came after it (InOpenWindow).  The *)
(* steps that raise appliedUsersRev without loading the rows are exactly   *)
(* those that mark Overtaken; a reload may put old units back only when    *)
(* the revision it will remember is older than the reset (SnapInv), unless *)
(* the stats loop has loaded the reset in between (CrossedByReload).       *)
(***************************************************************************)
LEMMA InitFenceInv == Init => FenceInv
  <1> SUFFICES ASSUME Init PROVE FenceInv
    OBVIOUS
  <1>1. \A u \in Users : disk[u].used = 0 /\ since[u] = 0
    BY EmptyRows DEF Init
  <1>2. \A t \in Threads : pc[t] \in {"idle", "up"}
    BY DEF Init
  <1>3. LockInv
    BY <1>2 DEF LockInv, At, Threads, Flushers
  <1>4. RevInv
    BY DEF Init, RevInv
  <1>5. ResetSticks /\ FenceUp
    BY <1>1 DEF Init, ResetSticks, FenceUp, StaleIn
  <1>6. WriteInv /\ TrustInv /\ SnapInv /\ InstalledInv
    BY <1>2 DEF WriteInv, TrustInv, SnapInv, InstalledInv, Reloading, At, Threads, Flushers
  <1> QED BY <1>3, <1>4, <1>5, <1>6 DEF FenceInv

LEMMA NextFenceInv == TypeOK /\ TypeOK' /\ FenceInv /\ [Next]_vars => FenceInv'
  <1> SUFFICES ASSUME TypeOK, TypeOK', FenceInv, [Next]_vars PROVE FenceInv'
    OBVIOUS
  <1> USE DEF TypeOK, FenceInv, LockInv, RevInv, ResetSticks, FenceUp,
              WriteInv, TrustInv, SnapInv, InstalledInv, StaleIn, Reloading, At, Goto,
              Threads, Flushers, Free, Row, Mark, Overtaken, CrossedByReload
  <1>1. ASSUME NEW u \in Users, PanelReset(u) PROVE FenceInv'
    BY <1>1 DEF PanelReset, InOpenWindow
  <1>2. ASSUME NEW u \in Users, PanelCreate(u) PROVE FenceInv'
    <2>1. LockInv' BY <1>2 DEF PanelCreate, InOpenWindow, NewRow, NoRow
    <2>2. RevInv' BY <1>2 DEF PanelCreate, InOpenWindow, NewRow, NoRow
    <2>3. ResetSticks' BY <1>2 DEF PanelCreate, InOpenWindow, NewRow, NoRow
    <2>4. FenceUp' BY <1>2 DEF PanelCreate, InOpenWindow, NewRow, NoRow
    <2>5. WriteInv' BY <1>2 DEF PanelCreate, InOpenWindow, NewRow, NoRow
    <2>6. SnapInv' BY <1>2 DEF PanelCreate, InOpenWindow, NewRow, NoRow
    <2>7. InstalledInv' BY <1>2 DEF PanelCreate, InOpenWindow, NewRow, NoRow
    <2>8. TrustInv' BY <1>2 DEF PanelCreate, InOpenWindow, NewRow, NoRow
    <2> QED BY <2>1, <2>2, <2>3, <2>4, <2>5, <2>6, <2>7, <2>8
  <1>3. ASSUME NEW u \in Users, AddTraffic(u) PROVE FenceInv'
    BY <1>3 DEF AddTraffic
  <1>4. ASSUME NEW u \in Users, BindDevice(u) PROVE FenceInv'
    <2>1. LockInv' BY <1>4 DEF BindDevice, Saved, EditCanStart
    <2>2. RevInv' BY <1>4 DEF BindDevice, Saved, EditCanStart
    <2>3. ResetSticks' BY <1>4 DEF BindDevice, Saved, EditCanStart
    <2>4. FenceUp' BY <1>4 DEF BindDevice, Saved, EditCanStart
    <2>5. WriteInv' BY <1>4 DEF BindDevice, Saved, EditCanStart
    <2>6. SnapInv' BY <1>4 DEF BindDevice, Saved, EditCanStart
    <2>7. InstalledInv' BY <1>4 DEF BindDevice, Saved, EditCanStart
    <2>8. TrustInv' BY <1>4 DEF BindDevice, Saved, EditCanStart
    <2> QED BY <2>1, <2>2, <2>3, <2>4, <2>5, <2>6, <2>7, <2>8
  <1>5. ASSUME NEW u \in Users, DeleteUser(u) PROVE FenceInv'
    <2>1. LockInv' BY <1>5 DEF DeleteUser, Saved, NotSaved, EditCanStart, NoRow
    <2>2. RevInv' BY <1>5 DEF DeleteUser, Saved, NotSaved, EditCanStart, NoRow
    <2>3. ResetSticks' BY <1>5 DEF DeleteUser, Saved, NotSaved, EditCanStart, NoRow
    <2>4. FenceUp' BY <1>5 DEF DeleteUser, Saved, NotSaved, EditCanStart, NoRow
    <2>5. WriteInv' BY <1>5 DEF DeleteUser, Saved, NotSaved, EditCanStart, NoRow
    <2>6. SnapInv' BY <1>5 DEF DeleteUser, Saved, NotSaved, EditCanStart, NoRow
    <2>7. InstalledInv' BY <1>5 DEF DeleteUser, Saved, NotSaved, EditCanStart, NoRow
    <2>8. TrustInv' BY <1>5 DEF DeleteUser, Saved, NotSaved, EditCanStart, NoRow
    <2> QED BY <2>1, <2>2, <2>3, <2>4, <2>5, <2>6, <2>7, <2>8
  <1>6. ASSUME NEW u \in Users, NEW off \in BOOLEAN, SetDeactivated(u, off)
        PROVE FenceInv'
    <2>1. LockInv' BY <1>6 DEF SetDeactivated, Saved, NotSaved, EditCanStart
    <2>2. RevInv' BY <1>6 DEF SetDeactivated, Saved, NotSaved, EditCanStart
    <2>3. ResetSticks'
      <3>1. \A v \in Users : disk'[v].used = disk[v].used
        <4>1. \/ disk' = [disk EXCEPT ![u].off = IF disk[u].live THEN off ELSE @]
              \/ disk' = disk
          BY <1>6 DEF SetDeactivated, Saved, NotSaved
        <4>2. ASSUME NEW v \in Users PROVE disk'[v].used = disk[v].used
          <5>1. v \in DOMAIN disk /\ DOMAIN disk[v] = {"live", "used", "off"}
            OBVIOUS
          <5> HIDE DEF TypeOK, FenceInv
          <5> QED BY <4>1, <5>1
        <4> QED BY <4>2
      <3>2. since' = since /\ raced' = raced BY <1>6 DEF SetDeactivated
      <3> QED BY <3>1, <3>2
    <2>4. FenceUp' BY <1>6 DEF SetDeactivated, Saved, NotSaved, EditCanStart
    <2>5. WriteInv' BY <1>6 DEF SetDeactivated, Saved, NotSaved, EditCanStart
    <2>6. SnapInv' BY <1>6 DEF SetDeactivated, Saved, NotSaved, EditCanStart
    <2>7. InstalledInv' BY <1>6 DEF SetDeactivated, Saved, NotSaved, EditCanStart
    <2>8. TrustInv' BY <1>6 DEF SetDeactivated, Saved, NotSaved, EditCanStart
    <2> QED BY <2>1, <2>2, <2>3, <2>4, <2>5, <2>6, <2>7, <2>8
  <1>7. ASSUME NEW u \in Users, NEW off \in BOOLEAN, UpdateUser(u, off)
        PROVE FenceInv'
    <2>1. LockInv' BY <1>7 DEF UpdateUser, Saved, NotSaved, EditCanStart
    <2>2. RevInv' BY <1>7 DEF UpdateUser, Saved, NotSaved, EditCanStart
    <2>3. ResetSticks' BY <1>7 DEF UpdateUser, Saved, NotSaved, EditCanStart
    <2>4. FenceUp' BY <1>7 DEF UpdateUser, Saved, NotSaved, EditCanStart
    <2>5. WriteInv' BY <1>7 DEF UpdateUser, Saved, NotSaved, EditCanStart
    <2>6. SnapInv' BY <1>7 DEF UpdateUser, Saved, NotSaved, EditCanStart
    <2>7. InstalledInv' BY <1>7 DEF UpdateUser, Saved, NotSaved, EditCanStart
    <2>8. TrustInv' BY <1>7 DEF UpdateUser, Saved, NotSaved, EditCanStart
    <2> QED BY <2>1, <2>2, <2>3, <2>4, <2>5, <2>6, <2>7, <2>8
  <1>8. CASE StatsSync
    BY <1>8 DEF StatsSync
  <1>9. CASE StatsLoad
    <2>1. LockInv' BY <1>9 DEF StatsLoad, Larger
    <2>2. RevInv' BY <1>9 DEF StatsLoad, Larger
    <2>3. ResetSticks' BY <1>9 DEF StatsLoad, Larger
    <2>4. FenceUp' BY <1>9 DEF StatsLoad, Larger
    <2>5. WriteInv' BY <1>9 DEF StatsLoad, Larger
    <2>6. SnapInv' BY <1>9 DEF StatsLoad, Larger
    <2>7. InstalledInv' BY <1>9 DEF StatsLoad, Larger
    <2>8. TrustInv' BY <1>9 DEF StatsLoad, Larger
    <2> QED BY <2>1, <2>2, <2>3, <2>4, <2>5, <2>6, <2>7, <2>8
  <1>10. CASE StatsLoadFails
    BY <1>10 DEF StatsLoadFails
  <1>11. CASE StatsDirtyCheck
    BY <1>11 DEF StatsDirtyCheck
  <1>12. ASSUME NEW t \in Flushers, FlushCheck(t) PROVE FenceInv'
    BY <1>12 DEF FlushCheck, FlushDone, After, FlushLock
  <1>13. ASSUME NEW t \in Flushers, FlushWrite(t) PROVE FenceInv'
    <2>1. LockInv' BY <1>13 DEF FlushWrite, FlushDone, After
    <2>2. RevInv' BY <1>13 DEF FlushWrite, FlushDone, After
    <2>3. ResetSticks'
      <3>1. \A u \in Users : disk'[u].used \in {disk[u].used, mem[u].used}
        BY <1>13 DEF FlushWrite
      <3>2. since' = since /\ raced' = raced BY <1>13 DEF FlushWrite
      <3>3. \A u \in Users : mem[u].used > since[u] => raced[u] BY <1>13 DEF FlushWrite
      <3> QED BY <3>1, <3>2, <3>3
    <2>4. FenceUp' BY <1>13 DEF FlushWrite, FlushDone, After
    <2>5. WriteInv' BY <1>13 DEF FlushWrite, FlushDone, After
    <2>6. SnapInv' BY <1>13 DEF FlushWrite, FlushDone, After
    <2>7. InstalledInv' BY <1>13 DEF FlushWrite, FlushDone, After
    <2>8. TrustInv' BY <1>13 DEF FlushWrite, FlushDone, After
    <2> QED BY <2>1, <2>2, <2>3, <2>4, <2>5, <2>6, <2>7, <2>8
  <1>14. ASSUME NEW t \in Flushers, FlushFails(t) PROVE FenceInv'
    BY <1>14 DEF FlushFails, ReloadFailed
  <1>15. CASE UpdatePatched
    <2>1. LockInv' BY <1>15 DEF UpdatePatched, Remember, Larger
    <2>2. RevInv' BY <1>15 DEF UpdatePatched, Remember, Larger
    <2>3. ResetSticks' BY <1>15 DEF UpdatePatched, Remember, Larger
    <2>4. FenceUp' BY <1>15 DEF UpdatePatched, Remember, Larger
    <2>5. WriteInv' BY <1>15 DEF UpdatePatched, Remember, Larger
    <2>6. SnapInv' BY <1>15 DEF UpdatePatched, Remember, Larger
    <2>7. InstalledInv' BY <1>15 DEF UpdatePatched, Remember, Larger
    <2>8. TrustInv' BY <1>15 DEF UpdatePatched, Remember, Larger
    <2> QED BY <2>1, <2>2, <2>3, <2>4, <2>5, <2>6, <2>7, <2>8
  <1>16. CASE UpdateUpsert
    <2>1. LockInv' BY <1>16 DEF UpdateUpsert, EntryOvertaken
    <2>2. RevInv' BY <1>16 DEF UpdateUpsert, EntryOvertaken
    <2>3. ResetSticks'
      <3> SUFFICES ASSUME NEW u \in Users, StaleIn(disk, u)' PROVE raced'[u]
        OBVIOUS
      <3>1. raced'[u] = (raced[u] \/ EntryOvertaken(u)) /\ since'[u] = since[u]
        BY <1>16 DEF UpdateUpsert, EntryOvertaken
      <3>2. CASE u = target
        <4>1. disk'[u].used = entry.used BY <1>16, <3>2 DEF UpdateUpsert
        <4> QED BY <3>1, <3>2, <4>1 DEF EntryOvertaken
      <3>3. CASE u # target
        <4>1. disk'[u] = disk[u] BY <1>16, <3>3 DEF UpdateUpsert
        <4> QED BY <3>1, <4>1
      <3> QED BY <3>2, <3>3
    <2>4. FenceUp' BY <1>16 DEF UpdateUpsert, EntryOvertaken
    <2>5. WriteInv' BY <1>16 DEF UpdateUpsert, EntryOvertaken
    <2>6. SnapInv' BY <1>16 DEF UpdateUpsert, EntryOvertaken
    <2>7. InstalledInv' BY <1>16 DEF UpdateUpsert, EntryOvertaken
    <2>8. TrustInv' BY <1>16 DEF UpdateUpsert, EntryOvertaken
    <2> QED BY <2>1, <2>2, <2>3, <2>4, <2>5, <2>6, <2>7, <2>8
  <1>17. CASE UpdateFails
    BY <1>17 DEF UpdateFails
  <1>18. CASE EditRemember
    <2>1. LockInv' BY <1>18 DEF EditRemember, Remember, Larger
    <2>2. RevInv' BY <1>18 DEF EditRemember, Remember, Larger
    <2>3. ResetSticks' BY <1>18 DEF EditRemember, Remember, Larger
    <2>4. FenceUp' BY <1>18 DEF EditRemember, Remember, Larger
    <2>5. WriteInv' BY <1>18 DEF EditRemember, Remember, Larger
    <2>6. SnapInv' BY <1>18 DEF EditRemember, Remember, Larger
    <2>7. InstalledInv' BY <1>18 DEF EditRemember, Remember, Larger
    <2>8. TrustInv' BY <1>18 DEF EditRemember, Remember, Larger
    <2> QED BY <2>1, <2>2, <2>3, <2>4, <2>5, <2>6, <2>7, <2>8
  <1>19. CASE ReloadRead
    BY <1>19 DEF ReloadRead
  <1>20. CASE ReloadTrust
    BY <1>20 DEF ReloadTrust, NoRows, NoRow
  <1>21. CASE ReloadLoad
    <2>1. LockInv' BY <1>21 DEF ReloadLoad, Merge, Larger
    <2>2. RevInv' BY <1>21 DEF ReloadLoad, Merge, Larger
    <2>3. ResetSticks' BY <1>21 DEF ReloadLoad, Merge, Larger
    <2>4. FenceUp' BY <1>21 DEF ReloadLoad, Merge, Larger
    <2>5. WriteInv' BY <1>21 DEF ReloadLoad, Merge, Larger
    <2>6. SnapInv' BY <1>21 DEF ReloadLoad, Merge, Larger
    <2>7. InstalledInv' BY <1>21 DEF ReloadLoad, Merge, Larger
    <2>8. TrustInv' BY <1>21 DEF ReloadLoad, Merge, Larger
    <2> QED BY <2>1, <2>2, <2>3, <2>4, <2>5, <2>6, <2>7, <2>8
  <1>22. CASE ReloadInstall
    BY <1>22 DEF ReloadInstall, NoRows, NoRow
  <1>23. CASE ReloadRemember
    BY <1>23 DEF ReloadRemember
  <1>24. CASE ReloadSet
    BY <1>24 DEF ReloadSet
  <1>25. CASE Crash
    <2>1. LockInv' BY <1>25 DEF Crash, NoRows, NoRow
    <2>2. RevInv' BY <1>25 DEF Crash, NoRows, NoRow
    <2>3. ResetSticks' BY <1>25 DEF Crash, NoRows, NoRow
    <2>4. FenceUp' BY <1>25 DEF Crash, NoRows, NoRow
    <2>5. WriteInv' BY <1>25 DEF Crash, NoRows, NoRow
    <2>6. SnapInv' BY <1>25 DEF Crash, NoRows, NoRow
    <2>7. InstalledInv' BY <1>25 DEF Crash, NoRows, NoRow
    <2>8. TrustInv' BY <1>25 DEF Crash, NoRows, NoRow
    <2> QED BY <2>1, <2>2, <2>3, <2>4, <2>5, <2>6, <2>7, <2>8
  <1>26. ASSUME NEW rows \in [Users -> Row], Load(rows),
                \A u \in Users : StaleIn(rows, u) => raced[u]
         PROVE  FenceInv'
    BY <1>26 DEF Load
  <1>27. CASE BootSave
    <2>1. LockInv' BY <1>27 DEF BootSave
    <2>2. RevInv' BY <1>27 DEF BootSave
    <2>3. ResetSticks' BY <1>27 DEF BootSave
    <2>4. FenceUp' BY <1>27 DEF BootSave
    <2>5. WriteInv' BY <1>27 DEF BootSave
    <2>6. SnapInv' BY <1>27 DEF BootSave
    <2>7. InstalledInv' BY <1>27 DEF BootSave
    <2>8. TrustInv' BY <1>27 DEF BootSave
    <2> QED BY <2>1, <2>2, <2>3, <2>4, <2>5, <2>6, <2>7, <2>8
  <1>28. CASE BootSaveFails
    BY <1>28 DEF BootSaveFails
  <1>29. CASE BootRemember
    <2>1. LockInv' BY <1>29 DEF BootRemember, Remember, Larger
    <2>2. RevInv' BY <1>29 DEF BootRemember, Remember, Larger
    <2>3. ResetSticks' BY <1>29 DEF BootRemember, Remember, Larger
    <2>4. FenceUp' BY <1>29 DEF BootRemember, Remember, Larger
    <2>5. WriteInv' BY <1>29 DEF BootRemember, Remember, Larger
    <2>6. SnapInv' BY <1>29 DEF BootRemember, Remember, Larger
    <2>7. InstalledInv' BY <1>29 DEF BootRemember, Remember, Larger
    <2>8. TrustInv' BY <1>29 DEF BootRemember, Remember, Larger
    <2> QED BY <2>1, <2>2, <2>3, <2>4, <2>5, <2>6, <2>7, <2>8
  <1>30. CASE UNCHANGED vars
    BY <1>30 DEF vars
  <1>31. ASSUME NEW t \in Flushers, FlushUnchecked(t) PROVE FenceInv'
    BY <1>31 DEF FlushUnchecked, Unchecked, FlushLock
  <1>32. CASE ReloadSnapshot
    BY <1>32 DEF ReloadSnapshot
  <1>33. CASE ReloadRememberFromDisk
    BY <1>33 DEF ReloadRememberFromDisk, Remember, Larger
  <1>34. CASE ReloadLoadFails
    BY <1>34 DEF ReloadLoadFails, ReloadFailed
  <1>35. CASE Stop
    BY <1>35 DEF Stop
  <1>36. CASE BootLoad
    BY <1>26, <1>36 DEF BootLoad
  <1>37. CASE BootLoadFails
    <2>1. Load(NoRows) BY <1>37 DEF BootLoadFails
    <2>2. NoRows \in [Users -> Row] BY EmptyRows
    <2>3. \A u \in Users : ~StaleIn(NoRows, u) BY EmptyRows
    <2> QED BY <1>26, <2>1, <2>2, <2>3
  <1> HIDE DEF TypeOK, FenceInv, LockInv, RevInv, ResetSticks, FenceUp,
               WriteInv, TrustInv, SnapInv, InstalledInv, StaleIn, Reloading, At, Goto,
               Threads, Flushers, Free, Row, Mark, Overtaken, CrossedByReload
  <1> QED
    BY <1>1, <1>2, <1>3, <1>4, <1>5, <1>6, <1>7, <1>8, <1>9, <1>10,
       <1>11, <1>12, <1>13, <1>14, <1>15, <1>16, <1>17, <1>18, <1>19, <1>20,
       <1>21, <1>22, <1>23, <1>24, <1>25, <1>27, <1>28, <1>29, <1>30,
       <1>31, <1>32, <1>33, <1>34, <1>35, <1>36, <1>37
    DEF Next, PanelStep, EditStart, StatsStep, FlushStep, EditStep, ReloadStep,
        BootStep, Flushers

\* The inductive invariant holds in every reachable state.
THEOREM FenceInvariant == Spec => []FenceInv
  BY TypeCorrect, InitFenceInv, NextFenceInv, PTL DEF Spec

\* A traffic reset the panel has committed is never undone on disk by the
\* server's flushes, reloads and edits, except through a named window.
THEOREM ResetIsKept == Spec => []ResetSticks
  <1>1. FenceInv => ResetSticks BY DEF FenceInv
  <1> QED BY FenceInvariant, <1>1, PTL

\* While the server's table holds units from before a reset, the revision
\* fence is up (or the reset met a window).
THEOREM FenceIsUp == Spec => []FenceUp
  <1>1. FenceInv => FenceUp BY DEF FenceInv
  <1> QED BY FenceInvariant, <1>1, PTL
=============================================================================
