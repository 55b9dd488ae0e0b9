# A verification project for WDTT

WDTT is a tunnel server for clients that reach it through the TURN relays of a
video-call service, with a web panel that manages its users. Both are Go
programs in `src/`: the server (`src/server`) and the panel (`src/panel`) run
as one binary (`src/cmd/wdtt`) in two processes, share the SQLite file
`panel.db` through `src/pkg/paneldb`, and talk over a local admin HTTP port.

This directory holds TLA+ models of the parts of that code where goroutines,
two processes and restarts meet, the TLC runs that check them and TLAPS proofs
of what matters most. Every definition that models code is listed in
`PROJECT.json` under `map` with the lines it stands for.

## 1. Inventory

### Processes, shared state, interactions

```
 client --DTLS/WRAP--> server: Accept -> handleConn -> 2 pumps + flush --UDP--> wireguard-go
 client --RAW--------> server: runRawRelay -> TUN               | counters (UAPI)
                         |  db.Passwords (dbMutex), onlineUsers (presenceMu),
                         |  relaySessions, rawSessionsByIP, appliedUsersRev
                         v
                      panel.db  <-- transactions, users_rev --  panel (HTTP, VK, Xray)
                         ^                                         |
                         +------- POST /admin/reload, /admin/... --+
 browser --HTTPS--> one port: mux listener -> http.Server -> login limiter, handlers
                    pages: editor of Xray's outbounds (JavaScript)
```

| component | state it keeps | operations | hard behaviour | what makes it correct |
|---|---|---|---|---|
| User table and traffic counters (`server/panel_db.go`, `admin.go`, `server_stats.go`, `pkg/paneldb`) | `db.Passwords`, `wdtt_users`, `users_rev`, `appliedUsersRev`, `trafficDirty` | flush, sync, reload, server edits, panel transactions, boot | two writers of one table with only a revision between them; some steps under `dbMutex`, some not | a reset sticks, a created user is served, a deleted user is gone |
| RAW sessions (`server_raw.go`) | `rawSessionsByIP` (a `sync.Map` of groups with a mutex each), `rawActiveSessions`, deadlines | authorise, count, join, read, reap, leave | the registry and the group are two locks; cancellation races the reader's own deadline | books agree, limits hold, a joined session is reachable, what is cancelled ends |
| DTLS sessions (`server_conn.go`, `relay_sessions.go`, `server_presence.go`) | `onlineUsers`, `relaySessions`, `activeConns`, `dtlsHandshakeSem` | accept, handshake, GETCONF, enter, pump, flush, evict, leave, restart | four goroutines may enter a session, one is not waited for | entered once, left once; limits hold; everything cancelled ends |
| Presence by WireGuard counters (`server_presence.go`) | `wgActivity` (counters and time of their last change), `onlineUsers` | refresh, two looks, evict, list | decided in one critical section, carried out in another | a session that was counted is not evicted, who is silent goes offline, who moves is shown |
| Listener: WRAP keys, relays that fail (`server_wrap.go`, `relay_fail.go`) | keys by password, failures by address | set, add, remove, refresh; record, clear, drop | keys follow edits made elsewhere | every password of the table can connect |
| Device bindings (`devices.go`, `store_admin.go`) | `Devices`, limits, IP assignment | bind, unbind, rename, limit | memory changed before a commit that may fail | table and database agree, no address is given twice |
| RAW downlink and reordering (`server_raw.go`, `server_raw_frame.go`) | flow table, queues, reorder window | enqueue, pick, push, flush | sessions come and go under a flow | each frame once, in order or given up |
| VK calls (`panel/vk_*.go`, `pkg/paneldb/reconcile_vk.go`) | sessions table, a profile's hashes | create, apply, status, stop, reconcile | the external call is not in the transaction | no orphan call, no lost hash |
| HTTP and TLS on one port (`panel/network/mux_listener.go`) | channel of connections, closed flag | accept, sniff, hand over, close | a channel closed while others send on it | no send after close, no early end |
| Login limiter (`panel/login_limit.go`) | failures by address | allow, record | check and record are separate | the bound on attempts |
| Xray totals (`panel/traffic_totals.go`) | last sample and sum | sample, add, persist | samples applied out of order | no byte counted twice |
| Editor of outbounds (`panel/web/assets/js/model/outbound.js`, `html/modals/xray_outbound_modal.html`, `html/xray.html`) | the list as text and as a parsed copy, the outbound in the form, its JSON editor, cached validity | open, edit, switch protocol or transport, edit as text, import a link, confirm, cancel, delete | objects shared with the parsed copy, an editor that loads while the form goes on, exceptions half-way, checks made earlier | what is saved reads back as itself; nothing else changes; tags differ |

The remaining components (Telegram dialogue, templates, certificates, firewall,
Xray configuration, share links, shell scripts) turn input into commands or text
and keep no state that is contended for. `PROJECT.json` lists all of them with
the reason they are not modelled, and under `hazards` every place found where
this code can go wrong in a way a unit test would hardly reach.

### Plan

Done: `TrafficSync`, `RawGroups`, `RelaySession` and `WGPresence` with their
proofs; `SessionPool`, the abstract specification that `RawGroups` implements,
with the proofs of the refinement and of the limits it carries over; `DeviceBinding` (with the WRAP keys, which
follow the same edits) and `VkCalls`, both with the proofs of all their safety
properties; `CallBook`, the abstract specification that `VkCalls` implements, with the
proofs of the refinement and of what it promises; `PanelPort` (listener, server and login limiter) with the proof of
its bound; `OutboundForm` with the proofs of all its safety properties.

What would come next: the RAW downlink with its queues; the totals of Xray's
counters; an abstract
specification of `TrafficSync` (one table with atomic edits), which it implements
outside its named windows; the inbound classes of the pages as one more set of
tables.

## 2. The modules

### TrafficSync

Two processes write the rows of `wdtt_users`. One action is one database
operation, or one stretch of code between two of them; `mu` is the holder of
`dbMutex` while such an operation is under way. Threads: the statistics loop
(`stats`), a relay goroutine that reaches a user's quota (`relay`), a handler of
a server-side edit (`edit`), the handler of `POST /admin/reload` (`reload`), and
the main loop (`boot`), which starts the process's one server and restarts it in place.

| code | model |
|---|---|
| `ResetUserTraffic`, `createUser` in the panel, then the reload request and the restart it falls back to | `PanelReset`, `PanelCreate`, `want` |
| `addTrafficLocked` | `AddTraffic` |
| `syncPanelDeviceEditsLocked` | `StatsSync`, `StatsLoad`, `StatsLoadFails` |
| `saveTrafficToSQLiteLocked` | `FlushCheck`, `FlushUnchecked`, `FlushWrite`, `FlushFails` |
| persist helpers, the bot's buttons, admin edits, GETCONF | `BindDevice`, `SetDeactivated`, `DeleteUser`, `UpdateUser`..., `EditRemember` |
| `reloadDBFromDisk` and its errors | `ReloadRead` ... `ReloadSet`, `ReloadLoadFails` |
| kill; signal or `/admin/restart` with the flush at the end of a run | `Crash`; `Stop`, `FlushStep("boot")` |
| `initDB`, of a new process or of an in-process restart | `BootLoad`, `BootLoadFails`, `BootSave`, `BootSaveFails`, `BootRemember` |

An in-process restart (`RunManaged`) keeps `appliedUsersRev` and stops no goroutine that is in
the middle of something: while `initDB` replaces the table, without `dbMutex`, a reload, a
statistics round or an edit goes on with what it holds, the bot starts new edits, and
connections that were not drained in time count traffic (`Alive`). A load error leaves an
empty table, which `saveDB` then writes over `panel.db`.

*What is promised.* `users_rev` and `appliedUsersRev` form a fence: while the
disk is ahead of what the server has loaded, memory must not overwrite it. The
history variables `since` (units counted after the last reset) and `resetRev`
let the model say what "old units" are: `StaleIn(f, u) == f[u].used > since[u]`.
The fence has holes, and the model names each one rather than weakening the
property without saying where: `InOpenWindow` (a commit between the flush's
check and its `UPDATE`, or between the load and the rewrite of a starting or restarting
server), `Overtaken` (an edit remembers a revision whose reset was never
loaded), `EntryOvertaken` (an edit upserts the row of a table that a restart has
replaced), `CrossedByReload` (a reset is loaded while a reload carries an older
copy), `Unchecked` (`users_rev` could not be read). `raced[u]` records that the
last reset of `u` met one of them; `ResetSticks` and `FenceUp` say that nothing
else undoes a reset, and that holds.

*Not modelled.* The bot's change of a password's text, contents of bindings, expiry,
a `panel.db` without users and main password (which no load installs), and the error of
`refreshWrapKeys` in a reload, which cannot occur (see `DeviceBinding`). The two byte
counters are one. `LoadStore` reads the rows of users in one `SELECT`; its other tables are
in `DeviceBinding`. The load of `initDB` and its assignment of `db` are one step, and wait for
a flush that is in its `UPDATE`.

### RawGroups

One action is one step of `runRawRelay` between two points where another
goroutine can get in: the atomic counter, `LoadOrStore` on the registry,
`tryAdd` under the group's mutex, `userSessionEnter`, `relaySessionRegister`,
the reader's loop, and the deferred calls in their order. `Expire` is the
`context.AfterFunc`, a goroutine of its own. `Reap`, `EvictIdle` and `Sweep` are
the loops that cancel sessions, `FlushTick` and `DownWriterFails` the session's own goroutines
that do; `Suspend`, `Resume`, `DeleteUser` change the
password. A group object is named by the session that allocated it, so that "the
group one has joined" and "the group that is registered" can differ.
`reused[id]` records that a session joined a group that was no longer
registered: the one way in which a session becomes unreachable.

`SessionPool` says what all of this is for, without counters, registry and locks:
three rooms one inside the other (the server, a group, the devices that count as
present), each with a limit, entered in one order and left in the opposite one.
`Pool == INSTANCE SessionPool WITH ...` maps the control states to the rooms;
`ImplementsPool` is checked as a property and proved. It is not obvious: the
global counter overshoots before it is taken back, a group is found in one step
and joined in another, and the device limit compares a counter that other
goroutines change.

*Not modelled.* TUN setup, packets, downlink, the challenge. A password is that
of one identity.

### RelaySession

One `handleConn` per connection. `pc` walks the handler through the semaphore,
handshake, first packet or GETCONF, the dial to WireGuard, the pumps and the
deferred functions; `pumps` and `flush` are its other goroutines. `EnterSession`
is the code's `enterSession`, called by the handler, by either pump and by the
flush goroutine, and atomic because all of it runs under `sessionMu`. `Stop` and
`Boot` are the restart inside the process: contexts cancelled, 30 seconds of
patience, books cleared. History variables: `left` (taken out of `onlineUsers`),
`late` (entered after the handler had looked), `dropped` (a restart did not wait
for some handler; the books may then be off until everything old has ended, and
if the UDP library still holds the port the process ends in `log.Fatalf`, which
is a behaviour that stops at `Boot`).

*Not modelled.* What GETCONF binds (see `DeviceBinding`) and answers; several
passwords of a device; the unsynchronised reads of `relaySess` by the keepalive branch are taken as
reads of the current value.

### WGPresence

`EXTENDS RelaySession`: the sessions step as they do there (`RelayStep`, `WGBoot`),
and beside them the statistics loop makes one round after another. The loop holds
a lock within each of its steps and none between two of them, so every place
where a session may come in between is a boundary of actions.

| code | model |
|---|---|
| `refreshWGActivityFromPeers`: read the peers, update the samples, collect the stale | `Refresh`, `RefreshFails` |
| its first look at `onlineUsers`, one stale device at a time | `CheckStale` |
| its second look, just before the eviction | `Recheck` |
| `relayEvictDevice` | `EvictDevice` |
| `snapshotOnlineUsers` | `Show` |
| `clearWGActivity`, `clearOnlineUsers` at a start of the server | `WGBoot` |
| traffic of a peer, time | `Move`, `Age` |

A sample is one of four classes of the age of `lastChange`, as the code compares
it with one timeout only. `fresh` records the sessions that have entered since the
second look, `mover` the devices whose counters have moved since the start.

*What is promised.* A session that was counted at the second look is not evicted
by the sweep. The window that remains, a session that enters between the second
look and the eviction, is the one the property names (`fresh`): such a session is
cancelled although it has just begun, where `src/docs/SERVER.md:344` says that live
sessions are left alone. A device that has sessions but whose counters stand
still is renewed at every look, so it stays listed.

*Not modelled.* RAW sessions in the counts and in the list; peers that are added
and removed, and which device a peer belongs to; the last round of an old loop
beside the first of the new one after a restart.

### DeviceBinding

Which device belongs to which password, at which address, with which peer and
which WRAP key. The same facts are kept five times (`table` and `dev` in memory,
`rows` and `devrows` in the file, `peers` in WireGuard, `wrap` in the listener),
and every edit writes some of them in one critical section of `dbMutex`, with
commits that may fail. Each edit is one action with the outcome of its commits as
a choice: GETCONF (`GetConf`, `GetConfKnown`), the panel's form
(`OpenForm`, `PanelUpdate`, `ProfileUpdate`, `PanelCreate`, `PanelDelete`), the bot
(`BotCreate`, `BotDelete`, `BotUnbind`, `BotDeleteDevice`, `BotSwitch`), the
statistics loop (`StatsSync`), the reload, which reads the file before it takes
the mutex (`ReloadRead`, `ReloadFails`, `ReloadInstall`), and the two ways to start,
in a new process (`Boot`) or in the old one (`Restart`). Both run `InitDB`, which
takes the file for empty when it cannot be read and writes back what it has. After
a `Restart` goroutines of the run before it may be left (`stale`): the bot is never
stopped, and requests under way end when they end. They share the table and the
file with the new run, but hold the WireGuard device of the old one, which is
closed; `Routed` is the choice between the two devices. The foreign key of
`wdtt_user_devices` is part of the commits (`MayHold`, `MayRename`).

*What is promised*, and where it ends: history variables name the reasons for
which a promise may fail. `torn`: a commit failed after memory had changed, a
reload undid an edit made since it read, or a start could not read or write the file. `halfway`: an edit was refused, or undone, after it
had changed something. `ghosts`: a record was dropped before its peer, or with the peer being removed
from the closed device. `unkeyed`: a password was
switched on with the keys left as they were. `lost`: the devices whose row in the
file was at some time not their record, because it outlived the record or because a
load brought back a record older than the row; marking only the rows without
a record is not enough, as three devices show: a reload of what was read earlier
gives a device an address that the file has given to another. Without these reasons memory and file agree, addresses
differ, peers are known, passwords have keys and limits hold; two passwords
share a device only through a form that was stale when it was sent.

*Not modelled.* Expiry, names of devices, NAT rules; the main password, which has
no limit; a server that is disabled in `panel.db` and so runs without WireGuard; steps
of others between the load and the save of a start (`TrafficSync` takes these
apart). Two errors that cannot occur have no branch: that of `genSubID` after memory has
changed (`store_admin.go:164`), as `rand.Read` of the Go version in `go.mod` never fails,
and that of `refreshWrapKeys` (`admin.go:108`, `panel_db.go:401`), as the derivation of 32 bytes from
a password that is not empty never fails.

### VkCalls

A profile's hash list is read, merged and written by requests that create calls
(`maker`), finish them (`stop`), show their state (`poll`) and by the profile's
form, each with several steps between the read and the write; `mu` is
`vkCreatorMu`, which only the first two take. VK may lose an answer, return a call
without a link, finish some of the calls only or not say whether one runs; reading and
writing the profile and writing a row may fail. A status request lists the rows once and
then previews one call after another, dropping what has ended (`PollList`, `PollAlive`,
`DropRead`, `DropWrite`, `DropRow`). The profile may be deleted under any of it: a call can be
created for it or stopped all the same, but `removeVKHashFromUser` refuses, so no row is dropped any
more (`StoppedIsDropped` excepts it). `page.crossed` records that something was written
after a page had been read: `OnlyStaleWritesUndo` says that only such writers
bring back a hash or a switch that someone else has changed. `adrift` holds the calls left
running at VK for one of the reasons `NoStrayCall` lists.

`CallBook` is what all of this amounts to for the calls of a profile: one is
started at a time while the book has room for it, its row is entered at once or
the call is let go, and a row is struck out only when its call is over or was let
go. A request, a page or the mutex is not in it. `VkCalls` implements it with its
`vk_creator_sessions` as the book and the maker that stands between
`vkCreateCallLink` and `insertVKCreatorSession` as `starting`; the hash list and all reads are
stutters. What it adds to `CallLimit` and `NoStrayCall` is the order of steps: the room is
there for the call under way as well, the panel finishes no call while one is started,
and a row never goes before its call. VK's calls are interchangeable, so the new
one is always the same of those not used yet (`NewCall`).

*Not modelled.* Several profiles, the renaming of one, the steps between resolving a
profile and loading its rows, a listing that fails, the preview's text, the other fields of a
profile (which a stale page overwrites in the same way).

### PanelPort

The accept loop and the goroutine of each connection share an unbuffered channel
with `http.Server.Serve`; the loop closes it after its first error. The end of
`Serve`, and a send on the closed channel, end the process, VPN server included,
and systemd starts it again: the model has both in one, so `NeverDeaf` says what
holds of the port as a client sees it. The login handler checks the limiter,
compares and records in separate critical sections (`Login`, `Compared`).

*Not modelled.* Bytes, certificates, sessions and CSRF tokens; clients have one
address.

### OutboundForm

The classes are tables: for each, its fields with the constructor's defaults, what
`fromJson` adds to filling in absent fields, and what `toJson` leaves out.
A value is one of six tokens, enough to tell what was lost, kept, defaulted or read
back as something else ("loose": custom tables of a Sudoku mask typed as text where the
class reads an array, a cleared number of a mask, reserved bytes that are no numbers);
fields that are read and written alike are one. `Settled` says what becomes of a saved
outbound that is opened and saved untouched. Around them are the modal (`Show`,
`Cancel`, `Ok`, `Check`), the form (one action per kind of change), the JSON tab
with its loader and the list. `Render` is part of every change, because
`canEnableMux`, asked while the form is rendered, switches mux off.
`alias` says which parts of the outbound in the form are objects of the parsed
list: edits of these (`SharedFields`, the items of TCP and UDP masks among them) are in
the list at once, though not in the text.

| code | model |
|---|---|
| `Outbound.fromJson`, `toJson`, `canEnable...` | `FromJson`, `ToJson`, `CanEnable...` |
| `outModal.show`, a `fromJson` that throws | `Show`, `Readable`, `kept` |
| `v-model` fields, the setter of `protocol`, `streamNetworkChange` | `SetField`, `SetProtocol`, `SetNetwork`, ... |
| `toggleJson`, `CodeMirrorLoader.load`, the editor's change handler | `ToJsonTab`, `Loaded`, `LoadFails`, `ToFormTab`, `Type` |
| `convertLink` | `ConvertLink`, for the outbounds `Links` that `fromLink` may return |
| `templateSettings`, `outboundSettings` | `list`, `parsed`, `Store` |

*Not modelled.* The text of links and of JSON; wordings; numbers and their ranges;
second and later entries of arrays of which `fromJson` reads the first; and the page's
other writers of the list, which all write it through `templateSettings` while the
modal is closed: the WARP modal, `syncRulesWithOutbound`, the tab with the
whole configuration as text and its reset to the default.

## 3. The runs

| run | instance | question | states |
|---|---|---|---|
| `TrafficSync_safety` | 1 user, quota 2, 3 revisions after the first, 1 unit per reset, failing reads, in-process restarts | is a reset undone only through a named window? | 2.0 M |
| `TrafficSync_liveness` | 1 user, quota 1, 2 revisions, 1 unit, crashes but no in-process restart | is every reset loaded, every created user served? | 201 k |
| `TrafficSync_reset_violated` | 1 user, quota 1 | does a reset always stick, as a test says? **no** | |
| `RawGroups_safety` | 3 sessions of one identity, groups of 1, 2 in all, 1 per device | do the books agree on every path in and out, and is the whole a pool of sessions? | 299 k |
| `RawGroups_liveness` | 2 sessions, groups of 2, no device limit | does what is cancelled or suspended end? is a joined session reachable? | 46 k |
| `RelaySession_safety` | 2 connections, 1 handshake slot, 1 session per device, 1 restart | do the books agree with the open connections? | 148 k |
| `RelaySession_liveness` | the same without restart | do cancelled, idle and suspended sessions end, does a waiting handshake begin? | 22 k |
| `WGPresence` | 1 connection of 1 device, 1 restart | does the sweep spare what is counted, does the list show who moves and only them? | 25 k |
| `DeviceBinding` | 2 passwords, 2 devices, 2 addresses, 2 edits or in-process restarts | do memory, file, peers and keys agree, up to the named reasons? | 645 k |
| `VkCalls` | 2 calls, a typed hash, lists of 1, 2 makers, 1 poller, 1 failure | are hashes lost or revived only by stale writers, calls left only for named reasons, and is the whole a book of calls? | 586 k |
| `PanelPort` | 3 connections, 2 failures | does one client block others, is the port ever deaf, does the limit hold? | 11 k |
| `OutboundForm` | 11 protocols, 5 lists, 2 changes, 2 uses of the page | does what is saved reopen as it was but for what `Settled` names, and does nothing else change? | 1.3 M |

*Why these bounds are enough to be interesting.* One user suffices in
`TrafficSync`, because the code treats rows independently and couples them only
by the revision, which the single user's own edits move as well. Three
revisions after the start are a reset, an edit or a restart that overtakes it and a second
reset; a unit before each reset fills the quota of two when an old unit is still counted. The safety
run's `VIEW` and `CONSTRAINT` (`MC_TrafficSync`) leave out `want`, which no guard of that run
reads, the history of a user of whom no old unit is left, and what follows the last
revision when no user is left of whom an invariant could fail. Three RAW sessions are what the orphan needs: one that leaves, one
that has loaded the group and one that registers another. Two DTLS connections
with one slot and one session per device already contend for everything there
is. In `WGPresence` the race is one session that enters
between two looks, which one connection shows; the theorems cover any number.
`DeviceBinding` needs two passwords that claim one device and two devices that
claim one address; two edits are a mistake and what it leads to, or a restart in the process and
an edit by the bot it left. A form that is open once no edit is left plays no further part, so the
run's `VIEW` (`BindingView`) drops it. A limit of one
hash makes every second call exceed it. In `OutboundForm` two uses of the page are an
edit that is given up and the one that writes it, two changes are a switch and
what follows it; the lists hold old forms, an unreadable entry and combinations
the form itself never makes.
Limits are set so that each is hit. Bounds cut runs short: `MaxRev`,
`MaxSince`, `MaxBoots`, `MaxKeys`, `MaxEdits`, `MaxEvents`, `MaxUses` bound counters, and sessions and connections are used
once, so every run may stop: `CHECK_DEADLOCK FALSE` stands for that. Symmetry is
used for interchangeable sessions, passwords and devices, and only where no liveness is checked.

*Finding.* `TrafficSync_reset_violated` shows the code at odds with a test of its
own, which `PROJECT.json` quotes: a reset that is committed between the check of a
flush and its `UPDATE` is undone.

*Fairness.* A goroutine that can run does (weak fairness of its steps).
`sync.Mutex` hands over to a waiter after a millisecond, and a channel used as a
semaphore queues its senders: strong fairness for steps that wait for `dbMutex` or
a handshake slot. Tickers keep ticking. A handshake has a timeout and a read a
deadline, so those steps end. A database load that is tried for ever succeeds
once (`StatsLoad`); nothing is assumed of a flush, nor of the client. Peers that are read round after
round are read successfully again and again, and time passes (`WGFairness`). The panel's
reload request is assumed to arrive at a server that is up, the restart it falls back to
(`applyWdttConfigChange`) to be carried out, and the process to be started again by its
supervisor (`deploy.sh` installs the unit with `Restart=always`). A sender on the listener's channel is taken in
turn, the deadline of a connection's first byte passes. The panel's page asks for the
state of VK calls again and again (`WF_vars(Poll(y))`); failures of VK and of the database are
bounded by `MaxEvents`, so from some point on both answer.
`DeviceBinding` and `OutboundForm` state no liveness: clients and administrators
promise nothing, and what would have to happen is an edit of theirs.

*Mutants.* Beside the definitions stand their mutated forms (`FlushCheck_NoFence`
and so on): one plausible bug for every checked property, which makes TLC report
that property violated.

## 4. The proofs

Eight modules (`TrafficSync_proofs`, `RawGroups_proofs`, `RelaySession_proofs`,
`WGPresence_proofs`, `DeviceBinding_proofs`, `VkCalls_proofs`,
`PanelPort_proofs`, `OutboundForm_proofs`) prove, for
every value of the constants that satisfies the named assumptions, that an
inductive invariant holds in every reachable state; the safety properties of the
runs are conjuncts of it or follow from it, as the action properties do for the steps
that start where it holds. Each proof has one lemma per action or group of
actions, cited by name in the step lemma. Type correctness of the seven
larger models is proved (`TypeCorrect`, `WGTypeCorrect`) and therefore not checked in runs.

- **TrafficSync**: `TypeCorrect`, `FenceInvariant`, `ResetIsKept`, `FenceIsUp`, with and
  without in-process restarts.
  `ResetSticks` is not inductive: a flush writes what the table holds, so the
  table must be free of old units when the flush writes (`WriteInv`), which
  follows from its check only if the fence is up whenever the table is stale
  (`FenceUp`), which a reload preserves only if the copy it carries and the
  revision it will remember are both older than the reset (`SnapInv`,
  `InstalledInv`, `TrustInv`), and all of that needs who holds `dbMutex`
  (`LockInv`) and that no revision exceeds the disk's (`RevInv`).
- **RawGroups**: `GroupInvariant`, `JoinedReachable`, `NoDeadGroupEver`.
  `MembersInv` ties the members of a group object to the control states of the
  sessions that loaded it; from that the emptiness test in `remove` means what
  the code wants it to mean. `BooksInv` counts sessions by control state and gives
  `BooksAlwaysAgree`; both together give `PoolImplemented`, `Spec => Pool!Spec`:
  each action maps to one door of the pool or to a stutter, and the door is open
  because the counter the code compared is the number of sessions behind it.
  `LimitsHold` is proved of the pool, where it is inductive (`PoolInv`), and holds of
  the server by the refinement: the limits of the server, of a group and of a device.
- **RelaySession**: `SessionInvariant`, `BooksAlwaysAgree`, `OnlyTheLateLeak`,
  `ListIsLive`. `FlowInv` says how far a connection has come when a session can
  be entered or left; the counters are cardinalities of sets of connections, so
  the proof adds and removes one element at a time (`FiniteSetTheorems`).
- **WGPresence**: `WGInvariant`, `SweepSparesCounted`, `MoversOnly`, `BooksBesideSweep`. `WGInv` is
  `SessionInv` with the books of the sweep: after the second look nothing of the
  device was counted, so what is counted since has entered since, and only
  movement makes a sample recent. The steps of the sessions are covered by
  citing `RelaySession_proofs`' step lemma; what is left to prove is that an
  eviction keeps `SessionInv` and that entering is what makes a session counted. So what
is proved of `RelaySession` alone holds with the sweep beside it.
- **DeviceBinding**: `TypeCorrect`, `AddressesApart`, `PeersAreKnown`,
  `KeysAreRight`, `LimitHolds`, `FileKeepsUp`, `StaleFormsOnly`; each invariant
  stands on the types alone. Records come back from two places, the file and what
  a reload has read, so what is said of the records in memory must hold of
  those two as well. `AddrInv` adds that the file agrees with memory but
  for the lost devices: `NextIP` looks at memory only. `KeyInv` says instead that a key names
  one record wherever it is kept, so no load can move the device of a peer, whichever device of
  WireGuard the goroutine holds.
  `LimitInv` compares an entry with its row (`Fits`: the two together
  keep the limit, since an edit writes the devices of one beside the `device_id` of the
  other) and needs that what a reload carries is still the row (`Fresh`).
  `FileInv` needs that a load is due whenever what was read is newer than memory
  (`ReadIs`).
- **VkCalls**: `TypeCorrect`, `CallLimitHolds`, `NoStray`, `BookImplemented`, `BookIsKept`,
  `StaleWritesOnly`.
  `CallInv` says who holds `vkCreatorMu` and that a row about to be inserted has room;
  what is to be dropped (`finishing` rows, the set that `stop` carries, the call a status
  request has settled on) is of calls that are over or named in `adrift` (`GoneInv`), hence a
  dropped row leaves no call behind; what a status request has listed was started before, so it
  is not the call that another maker starts next (`SureIn`). The same two facts carry `Spec => Book!Spec`: by `MutexInv` at most one
  maker stands before its insert and no request that finishes calls runs then, so each action
  is one of the book's or a stutter. `Book!Kept` is inductive in the book (`BookInv`) and
  holds of the panel by the refinement. `StaleInv` says that a page nothing has crossed
  still is the profile; each write then changes only what its writer has added or taken.
- **PanelPort**: `AttemptsBounded`. `AttemptBound` is inductive once `fails` is a
  number: an attempt is let in below the limit only, and there it cannot matter
  how many are under way, as connections bound them; a comparison turns one
  attempt under way into at most one failure.

- **OutboundForm**: `TypeCorrect`, `WhatIsSavedReopens`, `MuxExcludes`,
  `EditorIsCurrent`, `OnlyItsEntry`, `TagsApart`. The round trip is a fact about the
  tables alone (`SettingsAgain`, `StreamAgain`): what `toJson` leaves out of a complete
  object is what `fromJson` fills in the same way, what the next `toJson` leaves out again, or
  one of the fields `Settled` names. For
  the program to use it, an outbound in the form must always be complete and rendered
  (`FormType`, with `Shown`), which has to hold of whatever gets there: an entry of the parsed
  list with what leaked into it, an imported link, a text. `OnlyItsEntry` needs
  that the parsed copy agrees with the text but for the shared fields (`Alike`), and
  `TagsApart` that the cached verdict `isValid` is still about the tag in the form and
  the tags of the others about the list (`TagInv`), which `show` breaks when `fromJson` throws.

Assumptions: `QuotaAssumption`, `BoundsAssumption` (`TrafficSync`);
`IdAssumption`, `LimitAssumption`, `NameAssumption` (`RawGroups`);
`ConnAssumption` (finitely many connections), `DeviceAssumption`,
`SlotAssumption` (`RelaySession`); `NoDeviceAssumption` (`WGPresence`);
`FiniteAssumption`, `NoDeviceAssumption`, `BoundAssumption` (`DeviceBinding`, with one
address at least); `CallsAssumption`, `ActorsAssumption`, `BoundsAssumption` (`VkCalls`);
`ListsAssumption`, `TextsAssumption`, `LinksAssumption` (`OutboundForm`: JSON has no
undefined values, `fromLink` calls the constructors, and a loaded list has distinct tags, as Xray
refuses others);
`PortAssumption` (`PanelPort`). TLC evaluates all of them in the runs.

*Only model-checked.* Liveness under fairness (outside the prover's reach), that of
`TrafficSync` and `RelaySession` in instances without an in-process restart (with them the
graph of `TrafficSync` is too large for a liveness check); every safety property of the runs is proved. `Without` is a function and not the library's `SelectSeq`, which
is recursive: what it returns could not be proved.

## 5. Observations

Behaviour met while modelling that no checked statement of the repository
forbids; each is in the models, as a named exception or an outcome.

- A user deleted between the reading and the installing of a reload comes back in
  memory (`server/admin.go:71`).
- A RAW session outlives its deleted password: the sweep looks for suspended
  entries of the table (`server/server_raw.go:1148`, `store_admin.go:245`).
- A RAW session can sit in a group that is not registered, and gets no downlink
  (`server/server_raw.go:1110`; the comment at `:529` expects otherwise).
- The reader of a RAW session may set its deadline right after the cancellation has set it to
  the present (`server/server_raw.go:1192`): the session then ends with the client's next packet
  or after 30 minutes; `SessionsEnd` says that it ends, not how soon.
- The flush goroutine of a DTLS connection is not waited for and may enter a
  session after the deferred functions have looked (`server/server_conn.go:355`).
- The reasons of `DeviceBinding`: memory changed before a commit that fails
  (`server_conn.go:142`) or before a limit refuses it (`store_admin.go:197`), records dropped
  before peers (`store_admin.go:236`), a deleted device's row that is read again at
  the next load (`user_patch.go:204`), keys not refreshed when a password is
  switched on (`server_bot.go:221`).
- An in-process restart does not stop the bot (`server.go:597`): a second loop polls the
  same token, and what the first removes is removed from the closed device, so the
  peer of a password it deletes stays in the running one until the next load.
- `startUserspaceWG` gives every device of the table a peer; those of a deactivated
  password are not removed again (`server_wg.go:526`, `server_bot.go:560`).
- A password that has devices cannot be renamed in `panel.db`: `UPDATE wdtt_users` meets the foreign key
  of `wdtt_user_devices`, which has no `ON UPDATE` (`user_patch.go:74`, `panel/db_norm.go:57`), while memory has the new
  name already. The tests' schema has no such key (`pkg/paneldb/store_test.go:35`).
- A load error at a start leaves memory empty, and the save that follows deletes every
  user from `panel.db` (`server.go:169`, `:189`). If the save fails as well, the table stays
  empty until the statistics loop's first round; an edit of the main password's entry, which is
  there from the command line, before that moves `appliedUsersRev` and so hides the other
  users until the next commit of the panel or a reload.
- The row of a call whose profile has been deleted, or that is created for a deleted profile, is
  never dropped: `removeVKHashFromUser` fails without the profile (`panel/vk_creator.go:397`), so a
  stopped one stays "finishing" for ever, and counts against the limit of a profile of that name.
- Reconciling may list more hashes than `vkhash.MaxHashes`; the next writer cuts the tail.
- After three failed handshakes nothing but a restart resets an address's counter
  (`server/relay_fail.go:81`; compare `docs/SERVER.md:345`).
- Any error of `Accept`, one that `http.Server` would retry included, ends the
  panel's listener and, by `log.Fatalf`, the process with the VPN server
  (`cmd/wdtt/main.go:35`). `redirectHTTP` reads without a deadline; it blocks no one
  else.
- `rawReorder` (`server/server_raw_frame.go:58`) is allocated for every group, and its `Push` is called nowhere.
- Opening an outbound that `fromJson` cannot read (no `servers`, `vnext` or `peers`, a
  server without `users`, an HTTP header whose request has no Host or path)
  leaves the previous outbound in the form with the new entry's OK: confirming
  writes it there (`xray_outbound_modal.html:36`).
- Edits of `xmux`, the Vision seed, `allowedIPs` and the items of masks survive Cancel in the parsed
  list and are written with the next change of the list (`outbound.js:388`).
- A VLESS outbound saved without address or port loses its id, flow and
  encryption when it is opened again (`outbound.js:1678`).
- A cleared `mtu`, `workers` or `keepAlive` of WireGuard is left out and comes back as
  the default (`outbound.js:1882`), a cleared or zero hop interval comes back as 30
  (`outbound.js:535`). The custom tables of a Sudoku mask are a text input, but are read only as an array
  and come back empty (`outbound.html:926`, `outbound.js:738`). The QUIC idle timeout, keep-alive and
  windows are inputs of the form that `QuicParams` neither reads nor writes
  (`outbound.html:1326`, `outbound.js:823`).
- `syncRulesWithOutbound` removes an unused outbound with `splice(index)`, which
  removes all that follow it too (`xray.html:435`).
- Mux stays set when the protocol is switched to one that has none, and is written
  (`outbound.js:1036`).

## 6. Not modelled

The RAW downlink, Xray's process and statistics, the VK login, certificates, share
links, firewall, templates and scripts: see the notes in `PROJECT.json`. Most of
the JavaScript by lines is vendored (CodeMirror with jshint and jsonlint) and has
no behaviour of this program; of its own, the outbound editor is modelled, and the
inbound classes (`inbound.js`) and view helpers are not. `TrafficSync` and
`DeviceBinding` share the user table but are not composed: the first follows
counters through the revision, the second bindings, and each takes the other's
edits as an edit that moves `users_rev`.
