---------------------------- MODULE TrafficSync ----------------------------
(***************************************************************************)
(* The server's in-memory user table and the rows of panel.db, which the   *)
(* panel and the server both write.                                        *)
(*                                                                         *)
(* The server works on a map (db.Passwords) guarded by dbMutex and copies  *)
(* its traffic counters to panel.db now and then.  The panel commits its   *)
(* own transactions ("reset traffic", "create user") without that mutex    *)
(* and bumps users_rev in each.  The server remembers the last revision it *)
(* has loaded (appliedUsersRev); a traffic flush is fenced while users_rev *)
(* is ahead of it.  One action of this module is one database operation or *)
(* one stretch of code between two of them.                                *)
(*                                                                         *)
(* A local variable is reset when its value is dead.                       *)
(*                                                                         *)
(* Abstractions: the two counters of a user are one; device bindings and   *)
(* expiry are left out (an edit of bindings is a transaction that bumps    *)
(* users_rev); LoadStore's selects are one atomic read (each row is read   *)
(* by one select), and initDB's read and its assignment of db one step.    *)
(***************************************************************************)
EXTENDS Integers

CONSTANTS
    Users,      \* passwords (rows of wdtt_users)
    Quota,      \* total_bytes of every user, in traffic units
    ReadFails,  \* whether a read of users_rev may fail
    Restarts,   \* whether the server may be stopped and restarted in place
    MaxRev,     \* bound: the largest users_rev of a run
    MaxSince    \* bound: units counted for a user between two resets

ASSUME QuotaAssumption == Quota \in Nat \ {0}
ASSUME BoundsAssumption == MaxRev \in Nat /\ MaxSince \in Nat /\ {ReadFails, Restarts} \subseteq BOOLEAN

VARIABLES
    disk,     \* wdtt_users
    rev,      \* wdtt_global.users_rev
    mem,      \* db.Passwords
    applied,  \* appliedUsersRev
    dirty,    \* trafficDirty
    mu,       \* holder of dbMutex across a database operation, or Free
    pc,       \* control state of each thread
    seen,     \* the revision syncPanelDeviceEditsLocked has read
    rrev,     \* diskRev of reloadDBFromDisk
    trust,    \* trustDisk of reloadDBFromDisk
    snap,     \* memTraffic, later incoming, of reloadDBFromDisk
    target,   \* the user whose row the edit thread is writing
    entry,    \* that row, as the edit thread holds it
    want,     \* what the panel still has to ask for after its own commit
    since,    \* history: units counted for a user since its row was reset
    resetRev, \* history: the revision of that reset
    raced     \* history: that reset met one of the windows named below

vars == <<disk, rev, mem, applied, dirty, mu, pc, seen, rrev, trust, snap,
          target, entry, want, since, resetRev, raced>>

reloadVars == <<rrev, trust, snap>>
editVars == <<target, entry>>
history == <<since, resetRev, raced>>

Free == "free"
\* "boot" is the main loop: it starts the server, stops it and starts it again.
Flushers == {"stats", "relay", "reload", "boot"}
Threads == Flushers \cup {"edit"}

PCs == {"idle", "load", "synced", "flush", "write", "read", "snapshot", "copy",
        "install", "remember", "set", "patched", "upsert", "up", "down", "loaded",
        "saved", "again", "reloaded", "resaved"}

\* A reload that fails owes the panel's fallback, a restart of the server.
Wants == {"nothing", "reload", "restart"}

\* live: the row exists; off: is_deactivated
Row == [live : BOOLEAN, used : Nat, off : BOOLEAN]
NoRow == [live |-> FALSE, used |-> 0, off |-> FALSE]
NewRow == [NoRow EXCEPT !.live = TRUE]
NoRows == [u \in Users |-> NoRow]
NoUser == "none"

Larger(a, b) == IF a > b THEN a ELSE b

Init ==
    /\ disk \in [Users -> {NewRow, NoRow}]
    /\ rev = 1
    /\ mem = disk
    /\ applied = 1
    /\ dirty = FALSE
    /\ mu = Free
    /\ pc = [t \in Threads |-> IF t = "boot" THEN "up" ELSE "idle"]
    /\ seen = 0
    /\ rrev = 0
    /\ trust = FALSE
    /\ snap = NoRows
    /\ target = NoUser
    /\ entry = NoRow
    /\ want = "nothing"
    /\ since = [u \in Users |-> 0]
    /\ resetRev = [u \in Users |-> 0]
    /\ raced = [u \in Users |-> FALSE]

At(t, s) == pc[t] = s
Goto(t, s) == pc' = [pc EXCEPT ![t] = s]
Up == At("boot", "up")

\* The process has its goroutines.  While it restarts in place, the loops and
\* handlers of the old run finish what they are at, and the bot and the
\* connections that were not drained in time go on.
Alive == pc["boot"] \notin {"down", "loaded", "saved"}
Ask == want' = IF want = "restart" THEN want ELSE "reload"

\* f is mem, disk or snap: it holds units that were counted before the reset.
StaleIn(f, u) == f[u].used > since[u]

Reloading == pc["reload"] \in {"copy", "install"}

(***************************************************************************)
(* The windows in which a reset is not protected by the revision fence.    *)
(* The first is entered by the panel's commit; the others by a server step *)
(* that runs while the reset is unread.                                    *)
(***************************************************************************)
\* The panel commits between a flush's revision check and its UPDATE, or
\* between the load and the rewrite of a starting server.
InOpenWindow == \/ \E t \in Flushers : At(t, "write")
                \/ pc["boot"] \in {"loaded", "saved", "reloaded", "resaved"}

\* A server-side edit or the boot rewrite is persisted, or its revision is
\* remembered, before the server has loaded the reset.
Overtaken(u) == StaleIn(mem, u) \/ (Reloading /\ StaleIn(snap, u))

\* The same for the row an edit holds.
EntryOvertaken(u) == Overtaken(u) \/ (u = target /\ entry.used > since[u])

\* The reset is loaded by the stats loop while a reload holds an older copy.
CrossedByReload(u) == Reloading /\ (StaleIn(mem, u) \/ StaleIn(snap, u))

\* A flush goes ahead because users_rev could not be read.
Unchecked(u) == StaleIn(mem, u)

Mark(P(_)) == raced' = [u \in Users |-> raced[u] \/ P(u)]

-----------------------------------------------------------------------------
(***************************************************************************)
(* The panel                                                               *)
(***************************************************************************)
\* ResetUserTraffic: zero the counters, clear the deactivation, bump, commit;
\* then the handler posts /admin/reload.
PanelReset(u) ==
    /\ disk[u].live
    /\ rev < MaxRev
    /\ disk' = [disk EXCEPT ![u].used = 0, ![u].off = FALSE]
    /\ rev' = rev + 1
    /\ Ask
    /\ since' = [since EXCEPT ![u] = 0]
    /\ resetRev' = [resetRev EXCEPT ![u] = rev + 1]
    /\ raced' = [raced EXCEPT ![u] = InOpenWindow]
    /\ UNCHANGED <<mem, applied, dirty, mu, pc, seen, editVars, reloadVars>>

\* createUser: the password must not exist in panel.db.
PanelCreate(u) ==
    /\ ~disk[u].live
    /\ rev < MaxRev
    /\ disk' = [disk EXCEPT ![u] = NewRow]
    /\ rev' = rev + 1
    /\ Ask
    /\ since' = [since EXCEPT ![u] = 0]
    /\ resetRev' = [resetRev EXCEPT ![u] = rev + 1]
    /\ raced' = [raced EXCEPT ![u] = InOpenWindow]
    /\ UNCHANGED <<mem, applied, dirty, mu, pc, seen, editVars, reloadVars>>

-----------------------------------------------------------------------------
(***************************************************************************)
(* Traffic accounting (relay goroutines) and the stats loop                *)
(***************************************************************************)
Admitted(r) == r.live /\ ~r.off /\ r.used < Quota

\* addTrafficLocked: a user that reaches the quota is deactivated and the
\* counters are flushed at once, still under dbMutex.
AddTraffic(u) ==
    /\ Alive /\ mu = Free /\ At("relay", "idle")
    /\ Admitted(mem[u])
    /\ since[u] < MaxSince
    /\ LET full == mem[u].used + 1 >= Quota IN
       /\ mem' = [mem EXCEPT ![u].used = @ + 1, ![u].off = full]
       /\ mu' = IF full THEN "relay" ELSE Free
       /\ IF full THEN Goto("relay", "flush") ELSE pc' = pc
    /\ dirty' = TRUE
    /\ since' = [since EXCEPT ![u] = @ + 1]
    /\ UNCHANGED <<disk, rev, applied, seen, editVars, want, resetRev, raced, reloadVars>>

\* The head of syncPanelDeviceEditsLocked: load only if users_rev is ahead.
StatsSync ==
    /\ Up /\ mu = Free /\ At("stats", "idle")
    /\ IF rev <= applied
       THEN Goto("stats", "synced") /\ mu' = mu /\ seen' = seen
       ELSE Goto("stats", "load") /\ mu' = "stats" /\ seen' = rev
    /\ UNCHANGED <<disk, rev, mem, applied, dirty, editVars, want, history, reloadVars>>

\* The rest of it: the rows on disk replace the table, the revision read
\* before the load is remembered.
StatsLoad ==
    /\ At("stats", "load")
    /\ mem' = disk
    /\ applied' = Larger(applied, seen)
    /\ mu' = Free
    /\ Goto("stats", "synced")
    /\ Mark(CrossedByReload)
    /\ seen' = 0
    /\ UNCHANGED <<disk, rev, dirty, editVars, want, since, resetRev, reloadVars>>

\* A database error leaves table and revision alone until the next tick.
StatsLoadFails ==
    /\ At("stats", "load")
    /\ mu' = Free
    /\ Goto("stats", "synced")
    /\ seen' = 0
    /\ UNCHANGED <<disk, rev, mem, applied, dirty, editVars, want, history, reloadVars>>

StatsDirtyCheck ==
    /\ At("stats", "synced")
    /\ Goto("stats", IF dirty THEN "flush" ELSE "idle")
    /\ UNCHANGED <<disk, rev, mem, applied, dirty, mu, seen, editVars, want, history, reloadVars>>

\* saveTrafficToSQLiteLocked, first operation: the fence.
After(t) == CASE t = "reload" -> "remember" [] t = "boot" -> "again" [] OTHER -> "idle"
FlushDone(t) == Goto(t, After(t)) /\ mu' = Free

\* The relay and the reload flush inside a critical section they are in.
FlushLock(t) == mu = IF t \in {"stats", "boot"} THEN Free ELSE t

\* A server that is stopping clears the flag whatever became of its flush.
KeepDirty(t) == dirty' = (dirty /\ t # "boot")

\* Mutant: no revision check before the UPDATE.
FlushCheck_NoFence(t) ==
    /\ At(t, "flush")
    /\ FlushLock(t)
    /\ mu' = t /\ Goto(t, "write")
    /\ UNCHANGED <<disk, rev, mem, applied, dirty, seen, editVars, want, history, reloadVars>>

FlushCheck(t) ==
    /\ At(t, "flush")
    /\ FlushLock(t)
    /\ IF rev > applied
       THEN FlushDone(t) /\ KeepDirty(t)
       ELSE mu' = t /\ Goto(t, "write") /\ dirty' = dirty
    /\ UNCHANGED <<disk, rev, mem, applied, seen, editVars, want, history, reloadVars>>

\* A failed read of users_rev does not stop the flush.
FlushUnchecked(t) ==
    /\ ReadFails
    /\ At(t, "flush")
    /\ FlushLock(t)
    /\ mu' = t /\ Goto(t, "write")
    /\ Mark(Unchecked)
    /\ UNCHANGED <<disk, rev, mem, applied, dirty, seen, editVars, want, since,
                   resetRev, reloadVars>>

\* second operation: UPDATE of every row the table knows.
FlushWrite(t) ==
    /\ At(t, "write")
    /\ disk' = [u \in Users |->
                  IF disk[u].live /\ mem[u].live
                  THEN [disk[u] EXCEPT !.used = mem[u].used, !.off = mem[u].off]
                  ELSE disk[u]]
    /\ dirty' = FALSE
    /\ FlushDone(t)
    /\ UNCHANGED <<rev, mem, applied, seen, editVars, want, history, reloadVars>>

\* A reload that returns an error: the panel's request, if it was the
\* panel's, falls back to a restart of the server.
ReloadFailed == rrev' = 0 /\ want' = "restart"

\* The UPDATE fails: still dirty; a reload returns the error to its caller.
FlushFails(t) ==
    /\ At(t, "write")
    /\ mu' = Free
    /\ Goto(t, IF t = "boot" THEN "again" ELSE "idle")
    /\ KeepDirty(t)
    /\ IF t = "reload" THEN ReloadFailed ELSE UNCHANGED <<rrev, want>>
    /\ UNCHANGED <<disk, rev, mem, applied, seen, editVars, trust, snap, history>>

-----------------------------------------------------------------------------
(***************************************************************************)
(* Server-side edits: GETCONF, the admin API and the bot                   *)
(***************************************************************************)
EditCanStart == Alive /\ mu = Free /\ At("edit", "idle")

\* The edit's transaction commits and bumps users_rev, or fails; the table
\* has been changed before it and is not restored.
Saved(rows, next) ==
    /\ rev < MaxRev
    /\ disk' = rows
    /\ rev' = rev + 1
    /\ mu' = "edit" /\ Goto("edit", next)
NotSaved == UNCHANGED <<disk, rev, mu, pc>>

\* GETCONF of a device the password does not have yet: only the bindings,
\* which are not modelled, are written.
BindDevice(u) ==
    /\ EditCanStart
    /\ Admitted(mem[u])
    /\ Saved(disk, "remember")
    /\ UNCHANGED <<mem, applied, dirty, seen, editVars, want, history, reloadVars>>

\* The bot's deact_ and react_ buttons.
SetDeactivated(u, off) ==
    /\ EditCanStart
    /\ mem[u].live
    /\ mem' = [mem EXCEPT ![u].off = off]
    /\ \/ Saved([disk EXCEPT ![u].off = IF disk[u].live THEN off ELSE @], "remember")
       \/ NotSaved
    /\ UNCHANGED <<applied, dirty, seen, editVars, want, history, reloadVars>>

\* deletePanelUserLocked and the bot's delpass_.
DeleteUser(u) ==
    /\ EditCanStart
    /\ mem[u].live
    /\ mem' = [mem EXCEPT ![u] = NoRow]
    /\ Saved([disk EXCEPT ![u] = NoRow], "remember") \/ NotSaved
    /\ UNCHANGED <<applied, dirty, seen, editVars, want, history, reloadVars>>

\* applyPanelUserUpdateLocked as the panel's form sends it (with device_ids):
\* the bindings are patched in one transaction ...
UpdateUser(u, off) ==
    /\ EditCanStart
    /\ mem[u].live
    /\ mem' = [mem EXCEPT ![u].off = off]
    /\ \/ /\ rev + 1 < MaxRev
          /\ Saved(disk, "patched")
          /\ target' = u /\ entry' = mem'[u]
       \/ NotSaved /\ UNCHANGED editVars
    /\ UNCHANGED <<applied, dirty, seen, want, history, reloadVars>>

\* Every persist helper ends with rememberUsersRevFromDisk: it reads the
\* revision that is on disk by then; if the read fails it does nothing.
Remember == \/ applied' = Larger(applied, rev) /\ Mark(Overtaken)
            \/ ReadFails /\ UNCHANGED <<applied, raced>>

UpdatePatched ==
    /\ At("edit", "patched")
    /\ Remember
    /\ Goto("edit", "upsert")
    /\ UNCHANGED <<disk, rev, mem, dirty, mu, seen, editVars, want, since, resetRev, reloadVars>>

\* ... and the whole row, counters included, is upserted in another.  It is
\* the row of the table the edit began with: a restart may have replaced it.
UpdateUpsert ==
    /\ At("edit", "upsert") /\ rev < MaxRev
    /\ disk' = [disk EXCEPT ![target] = entry]
    /\ rev' = rev + 1
    /\ Goto("edit", "remember")
    /\ target' = NoUser /\ entry' = NoRow
    /\ Mark(EntryOvertaken)
    /\ UNCHANGED <<mem, applied, dirty, mu, seen, want, since, resetRev, reloadVars>>

\* The upsert fails: the bindings are saved, the row is not.
UpdateFails ==
    /\ At("edit", "upsert")
    /\ mu' = Free /\ Goto("edit", "idle")
    /\ target' = NoUser /\ entry' = NoRow
    /\ UNCHANGED <<disk, rev, mem, applied, dirty, seen, want, history, reloadVars>>

EditRemember ==
    /\ At("edit", "remember")
    /\ Remember
    /\ mu' = Free /\ Goto("edit", "idle")
    /\ UNCHANGED <<disk, rev, mem, dirty, seen, editVars, want, since, resetRev, reloadVars>>

-----------------------------------------------------------------------------
(***************************************************************************)
(* POST /admin/reload: reloadDBFromDisk (serialised by adminReloadMu)      *)
(***************************************************************************)
\* panelUsersRevOnDisk returns 0 when it cannot read.
ReloadRead ==
    /\ Up /\ At("reload", "idle")
    /\ rrev' = rev \/ (ReadFails /\ rrev' = 0)
    /\ want' = IF want = "restart" THEN want ELSE "nothing"
    /\ Goto("reload", "read")
    /\ UNCHANGED <<disk, rev, mem, applied, dirty, mu, seen, editVars, trust, snap, history>>

\* Mutant: the memory counters are merged back whatever the revision.
ReloadTrust_Never ==
    /\ At("reload", "read") /\ mu = Free
    /\ trust' = FALSE
    /\ Goto("reload", "snapshot")
    /\ snap' = NoRows
    /\ UNCHANGED <<disk, rev, mem, applied, dirty, mu, seen, editVars, want, rrev, history>>

\* trustPanelTrafficCounters, in a critical section of its own ...
ReloadTrust ==
    /\ At("reload", "read") /\ mu = Free
    /\ trust' = (rrev > applied)
    /\ Goto("reload", IF rrev > applied THEN "copy" ELSE "snapshot")
    /\ snap' = NoRows
    /\ UNCHANGED <<disk, rev, mem, applied, dirty, mu, seen, editVars, want, rrev, history>>

\* ... and, if it says no, trafficSnapshotLocked in the next.
ReloadSnapshot ==
    /\ At("reload", "snapshot") /\ mu = Free
    /\ snap' = mem
    /\ Goto("reload", "copy")
    /\ UNCHANGED <<disk, rev, mem, applied, dirty, mu, seen, editVars, want, rrev, trust, history>>

\* MergeTrafficSnapshots: the larger counter, either deactivation.
Merge(d, m) ==
    IF d.live /\ m.live
    THEN [d EXCEPT !.used = Larger(d.used, m.used), !.off = d.off \/ m.off]
    ELSE d

\* Mutant: a reload that finds no newer revision keeps the table it has.
ReloadLoad_KeepsTable ==
    /\ At("reload", "copy")
    /\ snap' = IF trust THEN disk ELSE snap
    /\ Goto("reload", "install")
    /\ UNCHANGED <<disk, rev, mem, applied, dirty, mu, seen, editVars, want, rrev, trust, history>>

ReloadLoad ==
    /\ At("reload", "copy")
    /\ snap' = IF trust THEN disk ELSE [u \in Users |-> Merge(disk[u], snap[u])]
    /\ Goto("reload", "install")
    /\ UNCHANGED <<disk, rev, mem, applied, dirty, mu, seen, editVars, want, rrev, trust, history>>

\* The load fails, and with it the reload.
ReloadLoadFails ==
    /\ At("reload", "copy")
    /\ ReloadFailed
    /\ trust' = FALSE /\ snap' = NoRows
    /\ Goto("reload", "idle")
    /\ UNCHANGED <<disk, rev, mem, applied, dirty, mu, seen, editVars, history>>

ReloadInstall ==
    /\ At("reload", "install") /\ mu = Free
    /\ mem' = snap
    /\ IF dirty /\ ~trust
       THEN mu' = "reload" /\ Goto("reload", "flush") /\ dirty' = dirty
       ELSE mu' = mu /\ Goto("reload", "remember") /\ dirty' = FALSE
    /\ trust' = FALSE /\ snap' = NoRows
    /\ UNCHANGED <<disk, rev, applied, seen, editVars, want, rrev, history>>

\* Outside dbMutex: rememberUsersRev(diskRev), whose test and store are not
\* atomic with the other writers of appliedUsersRev; after a failed first
\* read, rememberUsersRevFromDisk (its test and store taken as one step).
ReloadRemember ==
    /\ At("reload", "remember") /\ rrev > 0
    /\ IF rrev > applied
       THEN Goto("reload", "set") /\ rrev' = rrev
       ELSE Goto("reload", "idle") /\ rrev' = 0
    /\ UNCHANGED <<disk, rev, mem, applied, dirty, mu, seen, editVars, want, trust, snap, history>>

ReloadRememberFromDisk ==
    /\ At("reload", "remember") /\ rrev = 0
    /\ Remember
    /\ Goto("reload", "idle")
    /\ UNCHANGED <<disk, rev, mem, dirty, mu, seen, editVars, want, since, resetRev, reloadVars>>

ReloadSet ==
    /\ At("reload", "set")
    /\ applied' = rrev
    /\ rrev' = 0
    /\ Goto("reload", "idle")
    /\ UNCHANGED <<disk, rev, mem, dirty, mu, seen, editVars, want, trust, snap, history>>

-----------------------------------------------------------------------------
(***************************************************************************)
(* Process exit, start and in-process restart (RunManaged)                 *)
(***************************************************************************)
\* Killed, or the end of a stop: the panel's fallback is done.
Crash ==
    /\ Alive
    /\ mem' = NoRows
    /\ applied' = 0
    /\ dirty' = FALSE
    /\ mu' = Free
    /\ pc' = [t \in Threads |-> IF t = "boot" THEN "down" ELSE "idle"]
    /\ seen' = 0 /\ rrev' = 0 /\ trust' = FALSE /\ snap' = NoRows
    /\ target' = NoUser /\ entry' = NoRow
    /\ want' = IF want = "restart" THEN "nothing" ELSE want
    /\ UNCHANGED <<disk, rev, history>>

\* A signal or POST /admin/restart ends the run: counters not yet saved are
\* flushed.  The other goroutines run on, and so does appliedUsersRev.
Stop ==
    /\ Restarts /\ Up /\ rev < MaxRev
    /\ Goto("boot", IF dirty THEN "flush" ELSE "again")
    /\ UNCHANGED <<disk, rev, mem, applied, dirty, mu, seen, editVars, want, reloadVars, history>>

\* initDB: LoadStore, or an empty table if that fails.  Its assignment of db
\* does not take dbMutex; a flush that has taken its snapshot is let finish.
Load(rows) ==
    /\ \/ At("boot", "down") /\ Goto("boot", "loaded")
       \/ At("boot", "again") /\ Goto("boot", "reloaded")
    /\ \A t \in Flushers : ~At(t, "write")
    /\ mem' = rows
    /\ UNCHANGED <<disk, rev, applied, dirty, mu, seen, editVars, want, reloadVars, history>>

BootLoad == Load(disk)
BootLoadFails == Load(NoRows)

\* ... then saveDB: SaveStore deletes every row and inserts what was loaded.
BootSave ==
    /\ rev < MaxRev /\ mu = Free
    /\ \/ At("boot", "loaded") /\ Goto("boot", "saved")
       \/ At("boot", "reloaded") /\ Goto("boot", "resaved")
    /\ disk' = mem
    /\ rev' = rev + 1
    /\ mu' = "boot"
    /\ Mark(Overtaken)
    /\ UNCHANGED <<mem, applied, dirty, seen, editVars, want, since, resetRev, reloadVars>>

\* saveDB's error is dropped: the server runs with the appliedUsersRev it has.
BootSaveFails ==
    /\ pc["boot"] \in {"loaded", "reloaded"}
    /\ Goto("boot", "up")
    /\ UNCHANGED <<disk, rev, mem, applied, dirty, mu, seen, editVars, want, reloadVars, history>>

BootRemember ==
    /\ pc["boot"] \in {"saved", "resaved"}
    /\ Remember
    /\ mu' = Free /\ Goto("boot", "up")
    /\ UNCHANGED <<disk, rev, mem, dirty, seen, editVars, want, since, resetRev, reloadVars>>

-----------------------------------------------------------------------------
PanelStep(u) == PanelReset(u) \/ PanelCreate(u)
FlushStep(t) == FlushCheck(t) \/ FlushUnchecked(t) \/ FlushWrite(t) \/ FlushFails(t)
StatsStep == \/ StatsSync \/ StatsLoad \/ StatsLoadFails \/ StatsDirtyCheck
             \/ FlushStep("stats")
EditStart(u) == \/ BindDevice(u) \/ DeleteUser(u)
                \/ \E off \in BOOLEAN : SetDeactivated(u, off) \/ UpdateUser(u, off)
EditStep == UpdatePatched \/ UpdateUpsert \/ UpdateFails \/ EditRemember
ReloadStep == \/ ReloadTrust \/ ReloadSnapshot \/ ReloadLoad \/ ReloadLoadFails
              \/ ReloadInstall
              \/ FlushStep("reload")
              \/ ReloadRemember \/ ReloadRememberFromDisk \/ ReloadSet
BootStep == \/ BootLoad \/ BootLoadFails \/ BootSave \/ BootSaveFails \/ BootRemember
            \/ FlushStep("boot")

Next ==
    \/ \E u \in Users : PanelStep(u) \/ AddTraffic(u) \/ EditStart(u)
    \/ StatsStep \/ FlushStep("relay") \/ EditStep
    \/ ReloadRead \/ ReloadStep
    \/ Crash \/ Stop \/ BootStep

Spec == Init /\ [][Next]_vars

(***************************************************************************)
(* A thread that has something to do does it.  Strong fairness where the   *)
(* thread waits for dbMutex (Go's mutex does not starve a waiter); a       *)
(* database load that the stats loop retries for ever succeeds once; the   *)
(* panel's POST arrives, and so does the restart it falls back to; a       *)
(* supervised server that has exited is started again.                     *)
(***************************************************************************)
Fairness ==
    /\ SF_vars(StatsStep) /\ SF_vars(StatsLoad)
    /\ SF_vars(FlushStep("relay"))
    /\ WF_vars(EditStep)
    /\ SF_vars(want = "reload" /\ ReloadRead) /\ SF_vars(ReloadStep)
    /\ WF_vars(want = "restart" /\ Crash) /\ SF_vars(BootStep)

FairSpec == Spec /\ Fairness

-----------------------------------------------------------------------------
(***************************************************************************)
(* Properties                                                              *)
(***************************************************************************)
TypeOK ==
    /\ disk \in [Users -> Row]
    /\ mem \in [Users -> Row]
    /\ snap \in [Users -> Row]
    /\ rev \in Nat /\ applied \in Nat /\ seen \in Nat /\ rrev \in Nat
    /\ dirty \in BOOLEAN /\ trust \in BOOLEAN /\ want \in Wants
    /\ mu \in Threads \cup {Free}
    /\ pc \in [Threads -> PCs]
    /\ target \in Users \cup {NoUser} /\ entry \in Row
    /\ since \in [Users -> Nat]
    /\ resetRev \in [Users -> Nat]
    /\ raced \in [Users -> BOOLEAN]

\* "Reset traffic" sticks: once the panel has committed it, the row on disk
\* never shows units counted before it, unless the reset met a window.
ResetSticks == \A u \in Users : StaleIn(disk, u) => raced[u]

\* The fence covers every reset the server has not loaded: while the table
\* still holds units from before the reset, appliedUsersRev is below it.
FenceUp == \A u \in Users : StaleIn(mem, u) => raced[u] \/ applied < resetRev[u]

\* What the regression test of the fence claims, with no exception.
ResetAlwaysSticks == \A u \in Users : ~StaleIn(disk, u)

\* A reset is loaded: the table does not keep old units for ever.
ResetIsLoaded ==
    \A u \in Users : StaleIn(mem, u) ~> (raced[u] \/ ~StaleIn(mem, u))

\* A user the panel has created reaches the table, even if a server-side
\* edit has already moved appliedUsersRev past the creation.
CreatedUserIsServed ==
    \A u \in Users : (want # "nothing" /\ disk[u].live /\ ~mem[u].live)
                     ~> (mem[u].live \/ ~disk[u].live)

-----------------------------------------------------------------------------
(***************************************************************************)
(* The inductive invariant behind ResetSticks and FenceUp                  *)
(***************************************************************************)
\* dbMutex is held throughout each thread's critical section.
LockInv ==
    /\ pc["stats"] \in {"load", "write"} => mu = "stats"
    /\ pc["relay"] \in {"flush", "write"} => mu = "relay"
    /\ pc["reload"] \in {"flush", "write"} => mu = "reload"
    /\ pc["edit"] \in {"patched", "upsert", "remember"} => mu = "edit"
    /\ pc["boot"] \in {"write", "saved", "resaved"} => mu = "boot"
    /\ pc["edit"] \in {"patched", "upsert"} => target \in Users

RevInv == /\ applied <= rev /\ seen <= rev /\ rrev <= rev
          /\ \A u \in Users : resetRev[u] <= rev

\* A flush that has passed its check holds no unit from before a reset.
WriteInv == \A t \in Flushers : At(t, "write") =>
              \A u \in Users : StaleIn(mem, u) => raced[u]

\* A reload that is about to copy the table's counters has seen no newer
\* revision than the server has loaded.
TrustInv == At("reload", "snapshot") => rrev <= applied

\* The copy a reload carries is older than a reset only if both the fence and
\* the revision the reload will remember are below that reset.
SnapInv == Reloading =>
             \A u \in Users : StaleIn(snap, u) =>
               raced[u] \/ (applied < resetRev[u] /\ rrev < resetRev[u])

\* The same once the copy is installed, until the revision is remembered.
InstalledInv == pc["reload"] \in {"flush", "write", "remember", "set"} =>
                  \A u \in Users : StaleIn(mem, u) => raced[u] \/ rrev < resetRev[u]

\* The fence's books: everything above together with the two properties.
FenceInv == /\ LockInv /\ RevInv /\ ResetSticks /\ FenceUp
            /\ WriteInv /\ TrustInv /\ SnapInv /\ InstalledInv
=============================================================================
