---------------------------- MODULE DeviceBinding ----------------------------
(***************************************************************************)
(* Which device belongs to which password, at which address, with which    *)
(* peer of WireGuard and which key of the WRAP listener.  The server keeps  *)
(* all of it in memory under dbMutex and writes each edit to panel.db; the  *)
(* panel writes to the same file and asks for a reload.                     *)
(*                                                                         *)
(* Every action is one critical section of dbMutex, with the transactions   *)
(* it makes: an edit first changes memory, then commits, and may fail at    *)
(* any of its commits.  Only the reload reads the file before it takes the  *)
(* mutex.                                                                   *)
(*                                                                         *)
(* Abstractions: a WireGuard key pair is a number, fresh for each device    *)
(* record; `on' stands for a password that is neither deactivated nor       *)
(* expired nor over its quota; devices of a password are a set, the one     *)
(* that stands first in wdtt_users.device_id being any of them.             *)
(***************************************************************************)
EXTENDS Integers, FiniteSets

CONSTANTS
    Users,      \* generated passwords; the main one is not among them
    Devices,
    NoDevice,
    MaxAddr,    \* addresses 1..MaxAddr of the tunnel's network
    MaxSlots,   \* device limits a profile may have: 1..MaxSlots
    MaxKeys,    \* bound: device records made in a run
    MaxEdits    \* bound: edits of profiles and new bindings in a run

ASSUME FiniteAssumption == IsFiniteSet(Users) /\ IsFiniteSet(Devices)
ASSUME NoDeviceAssumption == NoDevice \notin Devices
ASSUME BoundAssumption == MaxAddr \in Nat \ {0} /\ MaxSlots \in Nat \ {0}
                          /\ MaxKeys \in Nat /\ MaxEdits \in Nat

VARIABLES
    table,    \* db.Passwords: there, on, max, devs
    dev,      \* db.Devices: key and address, 0 for none
    rows,     \* wdtt_users with wdtt_user_devices; first is its column device_id
    devrows,  \* wdtt_devices
    peers,    \* the key WireGuard routes each address to, 0 for none
    wrap,     \* passwords with a key in serverWrapKeys
    behind,   \* users_rev > appliedUsersRev
    form,     \* the profile open in the panel: user and devices shown
    snap,     \* what a reload under way has read
    made,     \* device records made so far
    edits,    \* edits so far
    torn,     \* history: memory may differ from the file
    halfway,  \* history: an edit failed after it had changed memory, or a reload undid one
    ghosts,   \* history: keys whose device record was dropped before its peer
    stale,    \* goroutines of a run before the last restart are left, with its closed device
    unkeyed,  \* history: passwords switched on with the keys left as they were
    lost      \* history: devices whose row in the file was not their record

vars == <<table, dev, rows, devrows, peers, wrap, behind, form, snap, made,
          edits, torn, halfway, ghosts, stale, unkeyed, lost>>

Addrs == 1..MaxAddr
Keys == 1..MaxKeys
Entry == [there : BOOLEAN, on : BOOLEAN, max : 0..MaxSlots, devs : SUBSET Devices]
Row == [there : BOOLEAN, on : BOOLEAN, max : 0..MaxSlots, devs : SUBSET Devices,
        first : Devices \cup {NoDevice}]
Record == [key : 0..MaxKeys, ip : 0..MaxAddr]

Absent == [there |-> FALSE, on |-> FALSE, max |-> 0, devs |-> {}]
NoRow == [there |-> FALSE, on |-> FALSE, max |-> 0, devs |-> {}, first |-> NoDevice]
NoRecord == [key |-> 0, ip |-> 0]
NoForm == [user |-> "none", devs |-> {}]
NoSnap == [there |-> FALSE]

-----------------------------------------------------------------------------
(***************************************************************************)
(* Helpers of the critical sections                                        *)
(***************************************************************************)
Usable(t) == {u \in Users : t[u].there /\ t[u].on}
Owners(t, d) == {u \in Users : d \in t[u].devs}

\* What the file keeps of a table, as far as the agreement of the two goes.
Core(t) == [u \in Users |-> [there |-> t[u].there, max |-> t[u].max, devs |-> t[u].devs]]

\* removeDeviceFromEntry for a set of devices.
Unbind(t, u, S) == [t EXCEPT ![u].devs = @ \ S]

\* Mutant: the device stays with its former password.
Bind_KeepsOthers(t, u, d) == [t EXCEPT ![u].devs = @ \cup {d}]

\* bindDeviceToEntry, which takes the device from every other entry.
Bind(t, u, d) == [v \in Users |-> IF v = u THEN [t[v] EXCEPT !.devs = @ \cup {d}]
                                           ELSE [t[v] EXCEPT !.devs = @ \ {d}]]

\* Records dropped from a map of devices.
Drop(f, S) == [d \in Devices |-> IF d \in S THEN NoRecord ELSE f[d]]

\* wgIpcSet: a peer added, or removed, by its key.
Upsert(p, r) == [a \in Addrs |-> IF a = r.ip THEN r.key ELSE p[a]]
RemovePeers(p, ks) == [a \in Addrs |-> IF p[a] \in ks THEN 0 ELSE p[a]]
KeysOf(f, S) == {f[d].key : d \in S} \ {0}

\* A goroutine writes to the device it was started with: WireGuard's own or, if it
\* is left of an earlier run, the closed one, and then the peers ks stay.
Routed(p, ks) ==
    \/ peers' = p /\ ghosts' = ghosts
    \/ stale /\ peers' = peers /\ ghosts' = ghosts \cup ks
RemovedFrom(ks) == Routed(RemovePeers(peers, ks), ks)

\* Mutant: the address of a device no password has is given out again.
NextIP_Bound ==
    LET free == {a \in Addrs : \A d \in Devices : dev[d].ip # a \/ Owners(table, d) = {}}
    IN  IF free = {} THEN 0 ELSE CHOOSE a \in free : \A b \in free : a <= b

\* getNextIP: the first address no device in memory has; 0 if all are taken.
NextIP ==
    LET free == {a \in Addrs : \A d \in Devices : dev[d].ip # a}
    IN  IF free = {} THEN 0 ELSE CHOOSE a \in free : \A b \in free : a <= b

\* Mutant: the key of a deleted password is kept.
RemoveKey_Keeps(w, u) == w

\* WrapKeyCache.RemovePassword.
RemoveKey(w, u) == w \ {u}

\* The statements the commits make.
WriteBindings(r, u, S, f) ==
    [r EXCEPT ![u].devs = S, ![u].first = IF r[u].there THEN f ELSE NoDevice]
WriteUser(r, u, e, f) == [r EXCEPT ![u].there = TRUE, ![u].on = e.on,
                                   ![u].max = e.max, ![u].first = f]
Firsts(S) == IF S = {} THEN {NoDevice} ELSE S

\* The foreign key of wdtt_user_devices: bindings need their password's row, and a
\* password that has bindings keeps its name.
MayHold(u, S) == rows[u].there \/ S = {}
MayRename(u, v) == rows[u].devs = {} /\ ~rows[v].there

\* What LoadStore and NormalizeUser make of a row: the column device_id counts
\* as a binding, bindings of a missing user as none.
Loaded(r) == [u \in Users |->
    IF r[u].there
    THEN [there |-> TRUE, on |-> r[u].on, max |-> r[u].max,
          devs |-> r[u].devs \cup ({r[u].first} \ {NoDevice})]
    ELSE Absent]

\* dedupeDeviceBindings keeps one owner of each device, whichever it meets first.
Deduped(t) == {[u \in Users |-> [t[u] EXCEPT !.devs = {d \in @ : pick[d] = u}]] :
                 pick \in {f \in [Devices -> Users] :
                             \A d \in Devices : Owners(t, d) # {} => f[d] \in Owners(t, d)}}

\* The end of an edit.  A commit remembers the revision it finds, though others may
\* have moved it; a reload that carries what it has read does not see the edit.
After(some, all, why) ==
    /\ behind' = (behind /\ ~some)
    /\ snap' = IF snap.there
               THEN [snap EXCEPT !.crossed = TRUE, !.newer = @ /\ ~some] ELSE snap
    /\ torn' = (torn \/ why \/ ~all \/ behind)
    /\ halfway' = (halfway \/ ~all)

\* For the history: a device forgotten while its row stays, or whose row is newer
\* than the record a reload brought back.
Forget == lost' = lost \cup {d \in Devices : devrows'[d].key # 0 /\ dev'[d] # devrows'[d]}

Edit == edits < MaxEdits /\ edits' = edits + 1

\* The bound again: what only an edit can make matter is not begun after the last.
Left == edits < MaxEdits

\* A server that has loaded the profiles of some passwords, at most one device of
\* which is in use.
Init ==
    \E U \in SUBSET Users, m \in [Users -> 1..MaxSlots], d \in Devices, n \in 0..1, o \in Users :
    LET held == IF n = 1 /\ o \in U THEN {d} ELSE {} IN
    /\ n <= MaxKeys /\ (n = 1 => o \in U)
    /\ rows = [u \in Users |->
          IF u \notin U THEN NoRow
          ELSE [there |-> TRUE, on |-> TRUE, max |-> m[u],
                devs |-> IF u = o THEN held ELSE {},
                first |-> IF u = o /\ n = 1 THEN d ELSE NoDevice]]
    /\ table = Loaded(rows)
    /\ dev = [e \in Devices |-> IF e \in held THEN [key |-> 1, ip |-> 1] ELSE NoRecord]
    /\ devrows = dev
    /\ peers = [a \in Addrs |-> IF a = 1 THEN n ELSE 0]
    /\ made = n /\ edits = 0
    /\ wrap = Usable(table)
    /\ behind = FALSE
    /\ form = NoForm
    /\ snap = NoSnap
    /\ torn = FALSE /\ halfway = FALSE /\ stale = FALSE
    /\ ghosts = {} /\ unkeyed = {} /\ lost = {}

-----------------------------------------------------------------------------
(***************************************************************************)
(* GETCONF                                                                 *)
(***************************************************************************)
\* The record of the device is made, unless it exists or no address is left,
\* and its peer is added; a failed insert takes it back.
Configure(d) ==
    IF dev[d].key # 0
    THEN Routed(Upsert(peers, dev[d]), {}) /\ UNCHANGED <<dev, devrows, made>>
    ELSE LET r == [key |-> made + 1, ip |-> NextIP] IN
         \/ UNCHANGED <<dev, devrows, peers, ghosts, made>>
         \/ /\ r.ip # 0 /\ made < MaxKeys /\ made' = made + 1
            /\ dev' = [dev EXCEPT ![d] = r]
            /\ devrows' = [devrows EXCEPT ![d] = r]
            /\ Routed(Upsert(peers, r), {})

\* Mutant: the limit itself is let through.
MayBind_AtLimit(u, d) ==
    u \in Usable(table) /\ d \notin table[u].devs /\ Cardinality(table[u].devs) <= table[u].max

MayBind(u, d) ==
    u \in Usable(table) /\ d \notin table[u].devs /\ Cardinality(table[u].devs) < table[u].max

\* A password that may have the device binds it: memory first, then its own rows,
\* and only if that works the device record and the peer.
GetConf(u, d) ==
    /\ MayBind(u, d)
    /\ Edit
    /\ table' = Bind(table, u, d)
    /\ \E ok \in BOOLEAN :
         /\ ok => MayHold(u, table'[u].devs)
         /\ After(ok, ok, Owners(table, d) # {})
         /\ IF ok
            THEN /\ \E f \in table'[u].devs : rows' = WriteBindings(rows, u, table'[u].devs, f)
                 /\ Configure(d)
            ELSE UNCHANGED <<rows, dev, devrows, peers, ghosts, made>>
    /\ UNCHANGED <<wrap, form, stale, unkeyed>>
    /\ Forget

\* A device that is bound already, or that comes with the main password, which
\* has no bindings.
GetConfKnown(d) ==
    /\ Configure(d)
    /\ snap' = IF snap.there /\ dev' # dev THEN [snap EXCEPT !.crossed = TRUE] ELSE snap
    /\ UNCHANGED <<table, rows, wrap, behind, form, edits, torn, halfway, stale, unkeyed>>
    /\ Forget

-----------------------------------------------------------------------------
(***************************************************************************)
(* The panel's profile form and what the server makes of it                *)
(***************************************************************************)
OpenForm(u) ==
    /\ rows[u].there /\ Left
    /\ form' = [user |-> u, devs |-> Loaded(rows)[u].devs]
    /\ UNCHANGED <<table, dev, rows, devrows, peers, wrap, behind, snap, made,
                   edits, torn, halfway, ghosts, stale, unkeyed>>
    /\ Forget

\* createUser and the users_rev it bumps; the reload is a step of its own.
PanelCreate(u) ==
    /\ Edit /\ ~rows[u].there
    /\ \E m \in 1..MaxSlots :
         rows' = [rows EXCEPT ![u] = [@ EXCEPT !.there = TRUE, !.on = TRUE, !.max = m,
                                              !.first = NoDevice]]
    /\ behind' = TRUE
    /\ snap' = IF snap.there THEN [snap EXCEPT !.newer = TRUE] ELSE snap
    /\ UNCHANGED <<table, dev, devrows, peers, wrap, form, made, torn, halfway,
                   ghosts, stale, unkeyed>>
    /\ Forget

\* The commits of an update, in order; the first n of them are made.
Written(u, v, e, f, n) ==
    LET renamed == [rows EXCEPT ![u] = NoRow, ![v] = rows[u]]
        steps == IF u = v
                 THEN <<rows, WriteBindings(rows, v, e.devs, f),
                        WriteUser(WriteBindings(rows, v, e.devs, f), v, e, f)>>
                 ELSE <<rows, renamed, WriteUser(renamed, v, e, f),
                        WriteBindings(WriteUser(renamed, v, e, f), v, e.devs, f),
                        WriteBindings(WriteUser(renamed, v, e, f), v, e.devs, f)>>
    IN  steps[n + 1]

\* The update of u, perhaps renamed to v, from the form: memory takes the new
\* entry, then the limit is checked, then records are dropped - without the peers,
\* which are looked up in the records - and the rest is committed.  Only a rename
\* renews the keys.
PanelUpdate(u, v, e) ==
    LET gone == table[u].devs \ e.devs
        last == IF u = v THEN 2 ELSE 4
    IN
    /\ form.user = u /\ table[u].there /\ (u = v \/ ~table[v].there)
    /\ e.there /\ e.max > 0 /\ e.devs \subseteq form.devs
    /\ Edit
    /\ form' = NoForm
    /\ table' = [table EXCEPT ![u] = Absent, ![v] = e]
    /\ IF Cardinality(e.devs) > e.max
       THEN /\ After(FALSE, FALSE, FALSE)
            /\ unkeyed' = unkeyed \cup (Usable(table') \ wrap)
            /\ UNCHANGED <<rows, dev, devrows, wrap, ghosts>>
       ELSE \E n \in 0..last, f \in Firsts(e.devs) :
            LET reached == n >= last - 2
            IN
            /\ n > 0 => IF u = v THEN MayHold(u, e.devs) ELSE MayRename(u, v)
            /\ rows' = Written(u, v, e, f, n)
            /\ After(n > 0, n = last, FALSE)
            /\ dev' = IF reached THEN Drop(dev, gone) ELSE dev
            /\ ghosts' = IF reached THEN ghosts \cup KeysOf(dev, gone) ELSE ghosts
            /\ devrows' = IF n >= last - 1 THEN Drop(devrows, gone) ELSE devrows
            /\ IF n = last /\ u # v
               THEN wrap' = Usable(table') /\ unkeyed' = {}
               ELSE wrap' = wrap /\ unkeyed' = unkeyed \cup (Usable(table') \ wrap)
    /\ UNCHANGED <<peers, made, stale>>
    /\ Forget

\* The whole-profile update of the VK pages, which leaves the devices alone and
\* renews the keys; its fields were read from the file some time ago.
ProfileUpdate(u, on) ==
    /\ table[u].there
    /\ Edit
    /\ table' = [table EXCEPT ![u].on = on]
    /\ wrap' = Usable(table') /\ unkeyed' = {}
    /\ \E ok \in BOOLEAN :
         /\ After(ok, ok, FALSE)
         /\ IF ok THEN \E f \in Firsts(table[u].devs) : rows' = WriteUser(rows, u, table'[u], f)
                  ELSE UNCHANGED rows
    /\ UNCHANGED <<dev, devrows, peers, form, made, ghosts, stale>>
    /\ Forget

\* Mutant: the rows of its devices stay.
DeletedRows_User(u, S) == rows' = [rows EXCEPT ![u] = NoRow] /\ devrows' = devrows

\* DeleteUser with the devices memory knew.
DeletedRows(u, S) == /\ rows' = [rows EXCEPT ![u] = NoRow]
                     /\ devrows' = Drop(devrows, S)

PanelDelete(u) ==
    LET S == table[u].devs IN
    /\ table[u].there
    /\ Edit
    /\ RemovedFrom(KeysOf(dev, S))
    /\ dev' = Drop(dev, S)
    /\ table' = [table EXCEPT ![u] = Absent]
    /\ \E ok \in BOOLEAN :
         /\ After(ok, ok, FALSE)
         /\ IF ok THEN DeletedRows(u, S) /\ wrap' = Usable(table') /\ unkeyed' = {}
                  ELSE UNCHANGED <<rows, devrows, wrap, unkeyed>>
    /\ UNCHANGED <<form, made, stale>>
    /\ Forget

-----------------------------------------------------------------------------
(***************************************************************************)
(* The bot, whose edits go on when their commit has failed                 *)
(***************************************************************************)
\* A password with its key; both are taken back if it cannot be saved.
BotCreate(u) ==
    /\ ~table[u].there /\ ~rows[u].there
    /\ Edit
    /\ After(TRUE, TRUE, FALSE)
    /\ table' = [table EXCEPT ![u] = [Absent EXCEPT !.there = TRUE, !.on = TRUE, !.max = 1]]
    /\ rows' = WriteUser(rows, u, table'[u], NoDevice)
    /\ wrap' = wrap \cup {u}
    /\ UNCHANGED <<dev, devrows, peers, form, made, ghosts, stale, unkeyed>>
    /\ Forget

BotDelete(u) ==
    LET S == table[u].devs IN
    /\ table[u].there
    /\ Edit
    /\ RemovedFrom(KeysOf(dev, S))
    /\ dev' = Drop(dev, S)
    /\ table' = [table EXCEPT ![u] = Absent]
    /\ wrap' = RemoveKey(wrap, u)
    /\ \E ok \in BOOLEAN :
         /\ After(ok, ok, FALSE)
         /\ IF ok THEN DeletedRows(u, S) ELSE UNCHANGED <<rows, devrows>>
    /\ UNCHANGED <<form, made, stale, unkeyed>>
    /\ Forget

\* One device of a password, or all of them.
BotUnbind(u, S) ==
    /\ table[u].there /\ S # {} /\ S \subseteq table[u].devs
    /\ Edit
    /\ RemovedFrom(KeysOf(dev, S))
    /\ dev' = Drop(dev, S)
    /\ table' = Unbind(table, u, S)
    /\ \E ok \in BOOLEAN :
         /\ ok => MayHold(u, table'[u].devs)
         /\ After(ok, ok, FALSE)
         /\ IF ok THEN /\ \E f \in Firsts(table'[u].devs) :
                              rows' = WriteBindings(rows, u, table'[u].devs, f)
                        /\ devrows' = Drop(devrows, S)
                  ELSE UNCHANGED <<rows, devrows>>
    /\ UNCHANGED <<wrap, form, made, stale, unkeyed>>
    /\ Forget

\* A device of whoever has it.  DeleteDevice leaves the column device_id of the
\* user's row, which the next load takes for a binding.
BotDeleteDevice(d) ==
    /\ dev[d].key # 0
    /\ Edit
    /\ RemovedFrom({dev[d].key})
    /\ dev' = Drop(dev, {d})
    /\ table' = [u \in Users |-> [table[u] EXCEPT !.devs = @ \ {d}]]
    /\ \E ok \in BOOLEAN :
         /\ After(ok, ok, \E u \in Users : rows[u].first = d)
         /\ IF ok THEN /\ rows' = [u \in Users |-> [rows[u] EXCEPT !.devs = @ \ {d}]]
                        /\ devrows' = Drop(devrows, {d})
                  ELSE UNCHANGED <<rows, devrows>>
    /\ UNCHANGED <<wrap, form, made, stale, unkeyed>>
    /\ Forget

\* Off: its peers go.  On again: neither its key nor its peers come back.
BotSwitch(u, on) ==
    /\ table[u].there /\ table[u].on # on
    /\ Edit
    /\ table' = [table EXCEPT ![u].on = on]
    /\ RemovedFrom(IF on THEN {} ELSE KeysOf(dev, table[u].devs))
    /\ unkeyed' = IF on /\ u \notin wrap THEN unkeyed \cup {u} ELSE unkeyed
    /\ \E ok \in BOOLEAN :
         /\ After(ok, ok, FALSE)
         /\ rows' = IF ok /\ rows[u].there THEN [rows EXCEPT ![u].on = on] ELSE rows
    /\ UNCHANGED <<dev, devrows, wrap, form, made, stale>>
    /\ Forget

-----------------------------------------------------------------------------
(***************************************************************************)
(* The file is loaded                                                      *)
(***************************************************************************)
\* Every device of the new map gets its peer, or loses it when the password it
\* belongs to may not be used; a device of no password is the main one's.
Barred(t, d) == Owners(t, d) # {} /\ Owners(t, d) \cap Usable(t) = {}
PeersAfter(p, t, f, q) ==
    \A a \in Addrs :
        LET here == {d \in Devices : f[d].key # 0 /\ f[d].ip = a /\ ~Barred(t, d)}
            out == KeysOf(f, {d \in Devices : Barred(t, d)})
        IN  IF here # {} THEN q[a] \in KeysOf(f, here)
            ELSE q[a] = IF p[a] \in out THEN 0 ELSE p[a]

\* Mutant: the peers of devices that are gone are not removed.
Repeer_Keeps(f) ==
    \E q \in [Addrs -> 0..MaxKeys] :
        /\ PeersAfter(peers, table', f, q)
        /\ peers' = q /\ ghosts' = ghosts

\* The peers of the new map f.  A device whose record has another key now keeps
\* the peer of the old one.
Repeer(f) ==
    LET gone == {d \in Devices : f[d].key = 0} IN
    \E q \in [Addrs -> 0..MaxKeys] :
        /\ PeersAfter(RemovePeers(peers, KeysOf(dev, gone)), table', f, q)
        /\ peers' = q
        /\ ghosts' = ghosts \cup KeysOf(dev, {d \in Devices \ gone : dev[d].key # f[d].key})

\* What syncPanelDeviceEditsLocked and reloadDBFromDisk have in common.
Install(r, f) ==
    /\ table' \in Deduped(Loaded(r))
    /\ dev' = f
    /\ wrap' = Usable(table') /\ unkeyed' = {}

\* The file may bind a device twice, of which a load keeps one, hold bindings of a
\* password that has no row, which a load leaves out, or a device_id that is not
\* among the bindings.
Muddled(r) == \/ \E d \in Devices : Cardinality(Owners(Loaded(r), d)) > 1
              \/ \E u \in Users : Loaded(r)[u].devs # r[u].devs

\* The statistics loop, when it finds users_rev ahead; it asks for the device of
\* the running server each time.
StatsSync ==
    /\ behind /\ behind' = FALSE
    /\ Install(rows, devrows) /\ Repeer(devrows)
    /\ torn' = Muddled(rows)
    /\ snap' = IF snap.there THEN [snap EXCEPT !.crossed = TRUE, !.newer = FALSE] ELSE snap
    /\ UNCHANGED <<rows, devrows, form, made, edits, halfway, stale>>
    /\ Forget

\* reloadDBFromDisk reads before it takes dbMutex.
ReloadRead ==
    /\ ~snap.there /\ Left
    /\ snap' = [there |-> TRUE, rows |-> rows, dev |-> devrows,
                crossed |-> FALSE, newer |-> FALSE]
    /\ UNCHANGED <<table, dev, rows, devrows, peers, wrap, behind, form, made,
                   edits, torn, halfway, ghosts, stale, unkeyed>>
    /\ Forget

\* The read failed, and the panel is told so.
ReloadFails ==
    /\ snap.there
    /\ snap' = NoSnap
    /\ UNCHANGED <<table, dev, rows, devrows, peers, wrap, behind, form, made,
                   edits, torn, halfway, ghosts, stale, unkeyed>>
    /\ Forget

ReloadInstall ==
    /\ snap.there
    /\ Install(snap.rows, snap.dev)
    /\ \/ Repeer(snap.dev)
       \/ stale /\ peers' = peers
          /\ ghosts' = ghosts \cup KeysOf(dev, {d \in Devices : dev[d].key # snap.dev[d].key})
    /\ behind' = (behind /\ snap.newer)
    /\ torn' = (snap.crossed \/ Muddled(snap.rows))
    /\ halfway' = (halfway \/ snap.crossed)
    /\ snap' = NoSnap
    /\ UNCHANGED <<rows, devrows, form, made, edits, stale>>
    /\ Forget

\* A new WireGuard is given the peers of all devices; those an expired password has
\* are removed, those of one that is deactivated are not.
FirstPeers(t, f) == [a \in Addrs |->
    LET all == {d \in Devices : f[d].key # 0 /\ f[d].ip = a}
        here == {d \in all : ~Barred(t, d)}
    IN  IF here # {} THEN KeysOf(f, here) ELSE KeysOf(f, all) \cup {0}]

\* initDB: the file is loaded, or taken for empty when it cannot be read, and
\* written back as it was understood.
InitDB(read, ok) ==
    /\ IF read THEN table' \in Deduped(Loaded(rows)) /\ dev' = devrows
               ELSE table' = [u \in Users |-> Absent] /\ dev' = [d \in Devices |-> NoRecord]
    /\ wrap' = Usable(table') /\ unkeyed' = {}
    /\ LET first == FirstPeers(table', dev')
       IN  \E q \in [Addrs -> 0..MaxKeys] : (\A a \in Addrs : q[a] \in first[a]) /\ peers' = q
    /\ ghosts' = {}
    /\ IF ok
       THEN /\ \E f \in [Users -> Devices \cup {NoDevice}] :
                 /\ \A u \in Users : f[u] \in Firsts(table'[u].devs)
                 /\ rows' = [u \in Users |-> IF table'[u].there
                      THEN [there |-> TRUE, on |-> table'[u].on, max |-> table'[u].max,
                            devs |-> table'[u].devs, first |-> f[u]]
                      ELSE NoRow]
            /\ devrows' = dev'
       ELSE UNCHANGED <<rows, devrows>>
    /\ torn' = (~ok /\ (Muddled(rows) \/ Core(table') # Core(Loaded(rows)) \/ dev' # devrows))

\* The process starts.  It has applied no revision until it has saved.
Boot ==
    /\ \E read, ok \in BOOLEAN :
         /\ InitDB(read, ok)
         /\ IF read THEN edits' = edits ELSE Edit
         /\ behind' \in IF ok THEN {FALSE} ELSE {behind, TRUE}
    /\ snap' = NoSnap /\ stale' = FALSE
    /\ UNCHANGED <<form, made, halfway>>
    /\ Forget

\* The server starts anew in its process: the bot of the last run and the requests
\* under way go on, a reload among them.
Restart ==
    /\ Edit
    /\ \E read, ok \in BOOLEAN :
         /\ InitDB(read, ok)
         /\ behind' = (behind /\ ~ok)
         /\ snap' = IF snap.there
                    THEN [snap EXCEPT !.crossed = @ \/ ok, !.newer = @ /\ ~ok] ELSE snap
    /\ stale' = TRUE
    /\ UNCHANGED <<form, made, halfway>>
    /\ Forget

-----------------------------------------------------------------------------
Next ==
    \/ \E u \in Users :
         \/ \E d \in Devices : GetConf(u, d)
         \/ OpenForm(u) \/ PanelCreate(u) \/ PanelDelete(u)
         \/ form.user = u /\ \E v \in Users, e \in Entry : PanelUpdate(u, v, e)
         \/ \E on \in BOOLEAN : ProfileUpdate(u, on) \/ BotSwitch(u, on)
         \/ BotCreate(u) \/ BotDelete(u)
         \/ \E S \in SUBSET Devices : BotUnbind(u, S)
    \/ \E d \in Devices : GetConfKnown(d) \/ BotDeleteDevice(d)
    \/ StatsSync \/ ReloadRead \/ ReloadFails \/ ReloadInstall \/ Boot \/ Restart

Spec == Init /\ [][Next]_vars

-----------------------------------------------------------------------------
(***************************************************************************)
(* Properties                                                              *)
(***************************************************************************)
\* Memory and file agree on who has which device, and on the records of the
\* devices, unless one of the named reasons stands or a load is due.
FileAgrees ==
    ~torn /\ ~behind => Core(table) = Core(Loaded(rows)) /\ dev = devrows

\* No two devices have one address, unless the row one of them has in the file was
\* once not its record: forgotten while the row stayed, or older than it.
AddressesDiffer ==
    \A d, e \in Devices : d # e /\ dev[d].key # 0 /\ dev[e].key # 0 =>
        dev[d].ip # dev[e].ip \/ lost \cap {d, e} # {}

\* Every peer is that of a device the server knows, at the address it gave it, unless
\* its record was dropped before the peer, or with the peer being removed from the
\* closed device of an earlier run.
PeersKnown ==
    \A a \in Addrs : peers[a] # 0 =>
        \/ \E d \in Devices : dev[d] = [key |-> peers[a], ip |-> a]
        \/ peers[a] \in ghosts

\* A password that may be used can open a connection, unless it was switched on
\* without its key; a key belongs to a password there is, unless an edit failed.
KeysMatch ==
    /\ Usable(table) \subseteq wrap \cup unkeyed
    /\ ~torn => \A u \in wrap : table[u].there

\* No password has more devices than its limit, in memory or in the file, as long
\* as no edit was left halfway.
WithinLimit ==
    ~halfway => \A u \in Users : /\ Cardinality(table[u].devs) <= table[u].max
                                 /\ Cardinality(Loaded(rows)[u].devs) <= rows[u].max

\* Two passwords come to share a device only through a form that still showed it
\* when its password no longer had it.
SharesByStaleForm ==
    \A d \in Devices : Cardinality(Owners(table', d)) > 1 =>
        \/ Cardinality(Owners(table, d)) > 1
        \/ /\ form # NoForm /\ form' = NoForm
           /\ d \in form.devs \ table[form.user].devs
OnlyStaleFormsShare == [][SharesByStaleForm]_vars
=============================================================================
