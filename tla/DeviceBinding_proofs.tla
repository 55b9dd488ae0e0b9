------------------------- MODULE DeviceBinding_proofs -------------------------
(***************************************************************************)
(* Proofs about DeviceBinding for any passwords, devices, addresses and    *)
(* limits: types, the addresses, peers and keys of WireGuard, the keys of  *)
(* the WRAP listener, the limits of devices, and what memory and panel.db  *)
(* agree on.                                                               *)
(***************************************************************************)
EXTENDS DeviceBinding, FiniteSetTheorems, NaturalsInduction, WellFoundedInduction, TLAPS

-----------------------------------------------------------------------------
(***************************************************************************)
(* The helpers                                                             *)
(***************************************************************************)
\* What is not in a table has no devices.
Table == {t \in [Users -> Entry] : \A u \in Users : ~t[u].there => t[u].devs = {}}

\* No two entries have one device.
Single(t) == \A u, v \in Users : u # v => t[u].devs \cap t[v].devs = {}

LEMMA LeastOf ==
    ASSUME NEW T, T \subseteq Nat, T # {}
    PROVE  \E x \in T : \A y \in T : x <= y
<1> DEFINE R == OpToRel(<, Nat)
<1>1. IsWellFoundedOn(R, Nat)
    BY NatLessThanWellFounded
<1>2. R = {ss \in Nat \X Nat : ss[1] < ss[2]}
    BY DEF OpToRel
<1> HIDE DEF R
<1>3. \E x \in T : \A y \in T : ~ (<<y, x>> \in R)
    BY <1>1, WFMin
<1>4. PICK x \in T : \A y \in T : ~ (<<y, x>> \in R)
    BY <1>3
<1>5. ASSUME NEW y \in T PROVE x <= y
    <2>1. x \in Nat /\ y \in Nat
        OBVIOUS
    <2>2. <<y, x>> \in Nat \X Nat /\ <<y, x>>[1] = y /\ <<y, x>>[2] = x
        BY <2>1
    <2>3. ~(y < x)
        BY <1>2, <1>4, <2>2
    <2> QED BY <2>1, <2>3
<1> QED BY <1>5

\* getNextIP gives an address that no device in memory has, or 0.
LEMMA NextIPIs ==
    ASSUME dev \in [Devices -> Record]
    PROVE  /\ NextIP \in 0..MaxAddr
           /\ NextIP # 0 => NextIP \in Addrs /\ \A d \in Devices : dev[d].ip # NextIP
<1> DEFINE free == {a \in Addrs : \A d \in Devices : dev[d].ip # a}
<1>1. CASE free = {}
    BY <1>1, BoundAssumption DEF NextIP, BoundAssumption
<1>2. CASE free # {}
    <2>1. free \subseteq Nat
        BY BoundAssumption DEF BoundAssumption, Addrs
    <2>2. \E a \in free : \A b \in free : a <= b
        BY <1>2, <2>1, LeastOf
    <2>3. NextIP \in free
        BY <1>2, <2>2 DEF NextIP
    <2> QED BY <2>3, BoundAssumption DEF BoundAssumption, Addrs
<1> QED BY <1>1, <1>2

LEMMA LoadedIs ==
    ASSUME NEW r \in [Users -> Row]
    PROVE  /\ Loaded(r) \in Table
           /\ \A u \in Users : /\ Loaded(r)[u].there = r[u].there
                               /\ r[u].there => /\ Loaded(r)[u].max = r[u].max
                                                /\ Loaded(r)[u].devs =
                                                     r[u].devs \cup ({r[u].first} \ {NoDevice})
                               /\ ~r[u].there => Loaded(r)[u] = Absent
<1>1. \A u \in Users : /\ Loaded(r)[u] = IF r[u].there
                                           THEN [there |-> TRUE, on |-> r[u].on, max |-> r[u].max,
                                                 devs |-> r[u].devs \cup ({r[u].first} \ {NoDevice})]
                                           ELSE Absent
                       /\ r[u] \in Row
    BY DEF Loaded
<1>2. ASSUME NEW u \in Users
      PROVE  Loaded(r)[u] \in Entry /\ (Loaded(r)[u].there <=> r[u].there)
    <2>1. r[u] \in Row /\ r[u].there \in BOOLEAN
        BY DEF Row
    <2>2. CASE r[u].there
        <3>1. [there |-> TRUE, on |-> r[u].on, max |-> r[u].max,
               devs |-> r[u].devs \cup ({r[u].first} \ {NoDevice})] \in Entry
            BY <2>1 DEF Row, Entry
        <3> QED BY <1>1, <2>2, <3>1
    <2>3. CASE ~r[u].there
        <3>1. Absent \in Entry /\ Absent.there = FALSE
            BY BoundAssumption DEF Absent, Entry, BoundAssumption
        <3> QED BY <1>1, <2>1, <2>3, <3>1
    <2> QED BY <2>2, <2>3
<1>3. Loaded(r) \in [Users -> Entry]
    BY <1>2 DEF Loaded
<1>4. \A u \in Users : Loaded(r)[u].there \in BOOLEAN /\ r[u].there \in BOOLEAN
    BY <1>3 DEF Entry, Row
<1> QED BY <1>1, <1>2, <1>3, <1>4 DEF Table, Absent

\* A load keeps one owner of each device, and all of the bindings if each has one.
LEMMA DedupedIs ==
    ASSUME NEW t \in Table, NEW x \in Deduped(t)
    PROVE  /\ x \in Table /\ Single(x)
           /\ \A u \in Users : /\ x[u].there = t[u].there /\ x[u].on = t[u].on
                               /\ x[u].max = t[u].max /\ x[u].devs \subseteq t[u].devs
           /\ Single(t) => x = t
<1>1. PICK pick \in [Devices -> Users] :
          /\ \A d \in Devices : Owners(t, d) # {} => pick[d] \in Owners(t, d)
          /\ x = [u \in Users |-> [t[u] EXCEPT !.devs = {d \in @ : pick[d] = u}]]
    BY DEF Deduped
<1>2. t \in [Users -> Entry] /\ \A u \in Users : t[u] \in Entry
    BY DEF Table
<1>3. \A u \in Users : /\ x[u] \in Entry
                       /\ x[u].there = t[u].there /\ x[u].on = t[u].on /\ x[u].max = t[u].max
                       /\ x[u].devs = {d \in t[u].devs : pick[d] = u}
    BY <1>1, <1>2 DEF Entry
<1>4. x \in Table
    BY <1>1, <1>3 DEF Table
<1>5. Single(x)
    BY <1>3 DEF Single
<1>6. ASSUME Single(t) PROVE x = t
    <2>1. ASSUME NEW u \in Users PROVE x[u].devs = t[u].devs
        <3>1. ASSUME NEW d \in t[u].devs PROVE pick[d] = u
            <4>1. d \in Devices /\ u \in Owners(t, d)
                BY <1>2 DEF Entry, Owners
            <4>2. pick[d] \in Owners(t, d)
                BY <1>1, <4>1
            <4> QED BY <1>6, <4>2 DEF Owners, Single
        <3>2. x[u].devs = {d \in t[u].devs : pick[d] = u}
            BY <1>3
        <3> QED BY <3>1, <3>2
    <2>2. \A u \in Users : x[u] = t[u]
        BY <1>2, <1>3, <2>1 DEF Entry
    <2> QED BY <1>1, <1>2, <2>2
<1> QED BY <1>3, <1>4, <1>5, <1>6

LEMMA DropIs ==
    ASSUME NEW f \in [Devices -> Record], NEW S
    PROVE  /\ Drop(f, S) \in [Devices -> Record]
           /\ \A d \in Devices : Drop(f, S)[d].key # 0 => d \notin S /\ Drop(f, S)[d] = f[d]
           /\ \A d \in Devices \ S : Drop(f, S)[d] = f[d]
<1>1. NoRecord \in Record /\ NoRecord.key = 0
    BY BoundAssumption DEF BoundAssumption, NoRecord, Record
<1> QED BY <1>1 DEF Drop

LEMMA PeersAre ==
    ASSUME NEW p \in [Addrs -> 0..MaxKeys]
    PROVE  /\ \A r \in Record : /\ Upsert(p, r) \in [Addrs -> 0..MaxKeys]
                                /\ \A a \in Addrs : Upsert(p, r)[a] = IF a = r.ip THEN r.key ELSE p[a]
           /\ \A ks : /\ RemovePeers(p, ks) \in [Addrs -> 0..MaxKeys]
                      /\ \A a \in Addrs : RemovePeers(p, ks)[a] # 0 =>
                                              RemovePeers(p, ks)[a] = p[a] /\ p[a] \notin ks
<1>1. 0 \in 0..MaxKeys
    BY BoundAssumption DEF BoundAssumption
<1> QED BY <1>1 DEF Upsert, RemovePeers, Record

LEMMA KeysOfIs ==
    ASSUME NEW f \in [Devices -> Record], NEW S \in SUBSET Devices
    PROVE  KeysOf(f, S) \in SUBSET Keys
BY BoundAssumption DEF KeysOf, Record, Keys, BoundAssumption

LEMMA BindIs ==
    ASSUME NEW t \in Table, NEW u \in Users, NEW d \in Devices, t[u].there
    PROVE  /\ Bind(t, u, d) \in Table
           /\ \A v \in Users : /\ Bind(t, u, d)[v].there = t[v].there
                               /\ Bind(t, u, d)[v].on = t[v].on
                               /\ Bind(t, u, d)[v].max = t[v].max
                               /\ Bind(t, u, d)[v].devs = IF v = u THEN t[v].devs \cup {d}
                                                          ELSE t[v].devs \ {d}
BY DEF Bind, Table, Entry

\* A table whose entries are replaced, changed in one field or thinned out.
LEMMA EntriesAre ==
    ASSUME NEW t \in Table, NEW u \in Users
    PROVE  /\ Absent \in Entry
           /\ \A v \in Users, e \in Entry : e.there =>
                /\ [t EXCEPT ![u] = Absent, ![v] = e] \in Table
                /\ \A w \in Users : [t EXCEPT ![u] = Absent, ![v] = e][w] =
                                        IF w = v THEN e ELSE IF w = u THEN Absent ELSE t[w]
           /\ [t EXCEPT ![u] = Absent] \in Table
           /\ \A w \in Users : [t EXCEPT ![u] = Absent][w] = IF w = u THEN Absent ELSE t[w]
           /\ \A S : /\ Unbind(t, u, S) \in Table
                     /\ \A w \in Users : Unbind(t, u, S)[w] =
                                             IF w = u THEN [t[u] EXCEPT !.devs = @ \ S] ELSE t[w]
           /\ \A on \in BOOLEAN :
                /\ [t EXCEPT ![u].on = on] \in Table
                /\ \A w \in Users : [t EXCEPT ![u].on = on][w] =
                                        IF w = u THEN [t[u] EXCEPT !.on = on] ELSE t[w]
<1>1. Absent \in Entry /\ Absent.devs = {}
    BY BoundAssumption DEF Absent, Entry, BoundAssumption
<1>2. t \in [Users -> Entry] /\ \A w \in Users : t[w] \in Entry
    BY DEF Table
<1>3. ASSUME NEW v \in Users, NEW e \in Entry, e.there
      PROVE  /\ [t EXCEPT ![u] = Absent, ![v] = e] \in Table
             /\ \A w \in Users : [t EXCEPT ![u] = Absent, ![v] = e][w] =
                                     IF w = v THEN e ELSE IF w = u THEN Absent ELSE t[w]
    BY <1>1, <1>2, <1>3 DEF Table
<1>4. /\ [t EXCEPT ![u] = Absent] \in Table
      /\ \A w \in Users : [t EXCEPT ![u] = Absent][w] = IF w = u THEN Absent ELSE t[w]
    BY <1>1, <1>2 DEF Table
<1>5. ASSUME NEW S
      PROVE  /\ Unbind(t, u, S) \in Table
             /\ \A w \in Users : Unbind(t, u, S)[w] =
                                     IF w = u THEN [t[u] EXCEPT !.devs = @ \ S] ELSE t[w]
    BY <1>2 DEF Table, Entry, Unbind
<1>6. ASSUME NEW on \in BOOLEAN
      PROVE  /\ [t EXCEPT ![u].on = on] \in Table
             /\ \A w \in Users : [t EXCEPT ![u].on = on][w] =
                                     IF w = u THEN [t[u] EXCEPT !.on = on] ELSE t[w]
    BY <1>2 DEF Table, Entry
<1> QED BY <1>1, <1>3, <1>4, <1>5, <1>6

LEMMA BindingsAre ==
    ASSUME NEW r \in [Users -> Row], NEW u \in Users, NEW e \in Entry,
           NEW f \in Devices \cup {NoDevice}
    PROVE  /\ WriteBindings(r, u, e.devs, f) \in [Users -> Row]
           /\ \A w \in Users \ {u} : WriteBindings(r, u, e.devs, f)[w] = r[w]
           /\ r[u].there => WriteBindings(r, u, e.devs, f)[u].there
           /\ ~r[u].there => ~WriteBindings(r, u, e.devs, f)[u].there
           /\ WriteBindings(r, u, e.devs, f)[u].on = r[u].on
           /\ WriteBindings(r, u, e.devs, f)[u].max = r[u].max
           /\ WriteBindings(r, u, e.devs, f)[u].devs = e.devs
           /\ r[u].there => WriteBindings(r, u, e.devs, f)[u].first = f
           /\ ~r[u].there => WriteBindings(r, u, e.devs, f)[u].first = NoDevice
<1> DEFINE x == [r[u] EXCEPT !.devs = e.devs, !.first = IF r[u].there THEN f ELSE NoDevice]
<1>1. /\ x \in Row /\ (x.there <=> r[u].there) /\ x.on = r[u].on /\ x.max = r[u].max
      /\ x.devs = e.devs /\ x.first = IF r[u].there THEN f ELSE NoDevice
    BY DEF Row, Entry
<1>2. WriteBindings(r, u, e.devs, f) = [r EXCEPT ![u] = x]
    BY DEF WriteBindings
<1> HIDE DEF x
<1> QED BY <1>1, <1>2

LEMMA UserRowIs ==
    ASSUME NEW r \in [Users -> Row], NEW u \in Users, NEW e \in Entry,
           NEW f \in Devices \cup {NoDevice}
    PROVE  /\ WriteUser(r, u, e, f) \in [Users -> Row]
           /\ \A w \in Users \ {u} : WriteUser(r, u, e, f)[w] = r[w]
           /\ WriteUser(r, u, e, f)[u].there
           /\ WriteUser(r, u, e, f)[u].on = e.on
           /\ WriteUser(r, u, e, f)[u].max = e.max
           /\ WriteUser(r, u, e, f)[u].devs = r[u].devs
           /\ WriteUser(r, u, e, f)[u].first = f
<1> DEFINE x == [r[u] EXCEPT !.there = TRUE, !.on = e.on, !.max = e.max, !.first = f]
<1>1. /\ x \in Row /\ x.there /\ x.on = e.on /\ x.max = e.max
      /\ x.devs = r[u].devs /\ x.first = f
    BY DEF Row, Entry
<1>2. WriteUser(r, u, e, f) = [r EXCEPT ![u] = x]
    BY DEF WriteUser
<1> HIDE DEF x
<1> QED BY <1>1, <1>2

LEMMA NoRowIs ==
    ASSUME NEW r \in [Users -> Row], NEW u \in Users
    PROVE  /\ NoRow \in Row /\ ~NoRow.there /\ NoRow.devs = {}
           /\ [r EXCEPT ![u] = NoRow] \in [Users -> Row]
           /\ \A w \in Users : [r EXCEPT ![u] = NoRow][w] = IF w = u THEN NoRow ELSE r[w]
BY BoundAssumption DEF Row, NoRow, BoundAssumption

\* A row as the last commits of an update leave it.
RowOf(x, e, f) == x.there /\ x.on = e.on /\ x.max = e.max /\ x.devs = e.devs /\ x.first = f

\* What the commits of an update leave in the file, and what all of them do.
LEMMA WrittenIs ==
    ASSUME rows \in [Users -> Row], NEW u \in Users, NEW v \in Users, NEW e \in Entry,
           NEW f \in Firsts(e.devs), NEW n \in 0..(IF u = v THEN 2 ELSE 4)
    PROVE  /\ Written(u, v, e, f, n) \in [Users -> Row]
           /\ n = (IF u = v THEN 2 ELSE 4) =>
                /\ RowOf(Written(u, v, e, f, n)[v], e, f)
                /\ u # v => Written(u, v, e, f, n)[u] = NoRow
                /\ \A w \in Users \ {u, v} : Written(u, v, e, f, n)[w] = rows[w]
<1>1. f \in Devices \cup {NoDevice} /\ e.devs \in SUBSET Devices
    BY DEF Firsts, Entry
<1>2. CASE u = v
    <2> DEFINE w1 == WriteBindings(rows, v, e.devs, f)
               w2 == WriteUser(w1, v, e, f)
    <2>1. /\ w1 \in [Users -> Row] /\ w1[v].devs = e.devs
          /\ \A w \in Users \ {v} : w1[w] = rows[w]
        BY ONLY <1>1, BindingsAre, rows \in [Users -> Row], v \in Users
    <2>2. /\ w2 \in [Users -> Row] /\ RowOf(w2[v], e, f)
          /\ \A w \in Users \ {v} : w2[w] = rows[w]
        <3>1. ASSUME NEW r \in [Users -> Row], r[v].devs = e.devs
              PROVE  /\ WriteUser(r, v, e, f) \in [Users -> Row] /\ RowOf(WriteUser(r, v, e, f)[v], e, f)
                     /\ \A w \in Users \ {v} : WriteUser(r, v, e, f)[w] = r[w]
            BY ONLY <1>1, <3>1, UserRowIs, r \in [Users -> Row], v \in Users, e \in Entry DEF RowOf
        <3> HIDE DEF w1
        <3> QED BY <2>1, <3>1
    <2>3. Written(u, v, e, f, n) = <<rows, w1, w2>>[n + 1] /\ n \in {0, 1, 2}
        BY <1>2 DEF Written
    <2> HIDE DEF w1, w2
    <2>4. \/ n = 0 /\ Written(u, v, e, f, n) = rows
          \/ n = 1 /\ Written(u, v, e, f, n) = w1
          \/ n = 2 /\ Written(u, v, e, f, n) = w2
        BY <2>3
    <2> QED BY <1>2, <2>1, <2>2, <2>4
<1>3. CASE u # v
    <2> DEFINE w0 == [rows EXCEPT ![u] = NoRow, ![v] = rows[u]]
               w1 == WriteUser(w0, v, e, f)
               w2 == WriteBindings(w1, v, e.devs, f)
    <2>1. w0 \in [Users -> Row] /\ w0[u] = NoRow /\ \A w \in Users \ {u, v} : w0[w] = rows[w]
        BY <1>3, NoRowIs
    <2>2. /\ w1 \in [Users -> Row] /\ w1[v].there /\ w1[v].on = e.on /\ w1[v].max = e.max
          /\ \A w \in Users \ {v} : w1[w] = w0[w]
        <3> HIDE DEF w0
        <3> QED BY ONLY <1>1, <2>1, UserRowIs, v \in Users, e \in Entry
    <2>3. /\ w2 \in [Users -> Row] /\ RowOf(w2[v], e, f)
          /\ \A w \in Users \ {v} : w2[w] = w1[w]
        <3>1. ASSUME NEW r \in [Users -> Row], r[v].there, r[v].on = e.on, r[v].max = e.max
              PROVE  /\ WriteBindings(r, v, e.devs, f) \in [Users -> Row]
                     /\ RowOf(WriteBindings(r, v, e.devs, f)[v], e, f)
                     /\ \A w \in Users \ {v} : WriteBindings(r, v, e.devs, f)[w] = r[w]
            BY <1>1, <3>1, BindingsAre DEF RowOf
        <3> HIDE DEF w1
        <3> QED BY <2>2, <3>1
    <2>4. Written(u, v, e, f, n) = <<rows, w0, w1, w2, w2>>[n + 1] /\ n \in {0, 1, 2, 3, 4}
        BY <1>3 DEF Written
    <2> HIDE DEF w0, w1, w2
    <2>5. \/ n = 0 /\ Written(u, v, e, f, n) = rows
          \/ n = 1 /\ Written(u, v, e, f, n) = w0
          \/ n = 2 /\ Written(u, v, e, f, n) = w1
          \/ n = 3 /\ Written(u, v, e, f, n) = w2
          \/ n = 4 /\ Written(u, v, e, f, n) = w2
        BY <2>4
    <2> QED BY <1>3, <2>1, <2>2, <2>3, <2>5
<1> QED BY <1>2, <1>3

-----------------------------------------------------------------------------
(***************************************************************************)
(* Types                                                                   *)
(***************************************************************************)
Snap == [there : {TRUE}, rows : [Users -> Row], dev : [Devices -> Record],
         crossed : BOOLEAN, newer : BOOLEAN]
SnapType == snap = NoSnap \/ snap \in Snap
DevType == /\ dev \in [Devices -> Record] /\ devrows \in [Devices -> Record]
           /\ peers \in [Addrs -> 0..MaxKeys]
           /\ made \in 0..MaxKeys
           /\ ghosts \in SUBSET Keys /\ lost \in SUBSET Devices
MarksType == /\ behind \in BOOLEAN /\ torn \in BOOLEAN /\ halfway \in BOOLEAN /\ stale \in BOOLEAN
             /\ wrap \in SUBSET Users /\ unkeyed \in SUBSET Users
             /\ edits \in Nat
FormType == form \in [user : Users \cup {"none"}, devs : SUBSET Devices]

BindType == /\ table \in Table /\ rows \in [Users -> Row]
            /\ SnapType /\ DevType /\ MarksType /\ FormType

LEMMA SnapThere ==
    ASSUME SnapType, snap.there
    PROVE  snap \in Snap /\ snap.rows \in [Users -> Row] /\ snap.dev \in [Devices -> Record]
<1>1. snap # NoSnap
    BY DEF NoSnap
<1> QED BY <1>1 DEF SnapType, Snap

\* What the end of an edit does.
LEMMA AfterIs ==
    ASSUME SnapType, behind \in BOOLEAN, torn \in BOOLEAN, halfway \in BOOLEAN,
           NEW some \in BOOLEAN, NEW all \in BOOLEAN, NEW why \in BOOLEAN, After(some, all, why)
    PROVE  /\ behind' \in BOOLEAN /\ torn' \in BOOLEAN /\ halfway' \in BOOLEAN
           /\ SnapType'
           /\ ~snap.there => snap' = snap
           /\ snap.there => /\ snap' \in Snap
                            /\ snap'.rows = snap.rows /\ snap'.dev = snap.dev /\ snap'.crossed
                            /\ snap'.newer = (snap.newer /\ ~some)
           /\ behind' = (behind /\ ~some)
           /\ ~torn' => ~torn /\ ~why /\ all /\ ~behind
           /\ ~halfway' => ~halfway /\ all
<1>1. CASE snap.there
    <2>1. snap \in Snap
        BY <1>1, SnapThere
    <2>2. snap' = [snap EXCEPT !.crossed = TRUE, !.newer = snap.newer /\ ~some]
        BY <1>1 DEF After
    <2> QED BY <1>1, <2>1, <2>2 DEF After, Snap, SnapType
<1>2. CASE ~snap.there
    BY <1>2 DEF After, SnapType
<1> QED BY <1>1, <1>2

-----------------------------------------------------------------------------
(***************************************************************************)
(* What a step does to the records, the peers and a reload under way       *)
(***************************************************************************)
At(k, a) == [key |-> k, ip |-> a]

KeepRecords ==
    /\ UNCHANGED <<dev, devrows, made>> /\ ghosts \subseteq ghosts'
    /\ \A a \in Addrs : \/ peers'[a] \in {0, peers[a]}
                        \/ \E d \in Devices : dev[d] = At(peers'[a], a)

NewRecord ==
    \E d \in Devices, r \in Record :
        /\ dev[d].key = 0 /\ r.key = made + 1 /\ made' = made + 1
        /\ r.ip \in Addrs /\ \A e \in Devices : dev[e].ip # r.ip
        /\ dev' = [dev EXCEPT ![d] = r] /\ devrows' = [devrows EXCEPT ![d] = r]
        /\ peers' \in {peers, Upsert(peers, r)} /\ ghosts \subseteq ghosts'

DropRecords ==
    \E S \in SUBSET Devices :
        /\ made' = made /\ dev' = Drop(dev, S)
        /\ devrows' = devrows \/ devrows' = Drop(devrows, S)
        /\ ghosts \subseteq ghosts'
        /\ \A a \in Addrs : peers'[a] # 0 =>
               peers'[a] = peers[a] /\ (peers[a] \notin KeysOf(dev, S) \/ peers[a] \in ghosts')

LoadRecords ==
    \E f \in [Devices -> Record] :
        /\ f = devrows \/ (snap.there /\ f = snap.dev)
        /\ made' = made /\ devrows' = devrows /\ dev' = f
        /\ \A a \in Addrs : peers'[a] # 0 =>
              \/ \E d \in Devices : f[d] = At(peers'[a], a)
              \/ /\ peers'[a] = peers[a] /\ ghosts \subseteq ghosts'
                 /\ \A d \in Devices : dev[d].key = peers[a] =>
                        f[d].key = peers[a] \/ peers[a] \in ghosts'

\* A start that could not read the file.
StartEmpty ==
    /\ made' = made /\ dev' = [d \in Devices |-> NoRecord]
    /\ devrows' = devrows \/ devrows' = dev'
    /\ \A a \in Addrs : peers'[a] = 0

\* A reload under way keeps what it has read.
SnapMoves ==
    \/ snap' = NoSnap
    \/ /\ ~snap.there /\ snap' \in Snap
       /\ snap'.rows = rows /\ snap'.dev = devrows /\ ~snap'.crossed /\ ~snap'.newer
       /\ UNCHANGED <<table, rows, dev, devrows, behind, torn, halfway>>
    \/ /\ snap.there /\ snap' \in Snap
       /\ snap'.rows = snap.rows /\ snap'.dev = snap.dev
       /\ snap.crossed => snap'.crossed
    \/ ~snap.there /\ snap' = snap

DevMoves == KeepRecords \/ NewRecord \/ DropRecords \/ LoadRecords \/ StartEmpty

LEMMA ForgetIs == ASSUME DevType, Forget PROVE lost' \in SUBSET Devices /\ lost \subseteq lost'
                                               /\ \A d \in Devices : devrows'[d].key # 0 =>
                                                      dev'[d] = devrows'[d] \/ d \in lost'
BY DEF DevType, Forget

LEMMA ConfigureIs ==
    ASSUME DevType, NEW d \in Devices, Configure(d), Forget
    PROVE  DevType' /\ (KeepRecords \/ NewRecord)
<1> USE DEF DevType
<1>1. dev[d] \in Record /\ NextIP \in 0..MaxAddr
    BY NextIPIs
<1>2. CASE dev[d].key # 0
    <2>1. /\ peers' \in {peers, Upsert(peers, dev[d])} /\ ghosts' = ghosts
          /\ UNCHANGED <<dev, devrows, made>>
        BY <1>2 DEF Configure, Routed
    <2>2. /\ Upsert(peers, dev[d]) \in [Addrs -> 0..MaxKeys]
          /\ \A a \in Addrs : Upsert(peers, dev[d])[a] = IF a = dev[d].ip THEN dev[d].key ELSE peers[a]
        BY <1>1, PeersAre
    <2>3. dev[d] = At(dev[d].key, dev[d].ip)
        BY <1>1 DEF Record, At
    <2>4. KeepRecords
        BY <2>1, <2>2, <2>3 DEF KeepRecords
    <2> QED BY <2>1, <2>2, <2>4, ForgetIs
<1>3. CASE dev[d].key = 0
    <2> DEFINE r == [key |-> made + 1, ip |-> NextIP]
    <2>1. CASE UNCHANGED <<dev, devrows, peers, ghosts, made>>
        BY <2>1, ForgetIs DEF KeepRecords
    <2>2. CASE /\ r.ip # 0 /\ made < MaxKeys /\ made' = made + 1
               /\ dev' = [dev EXCEPT ![d] = r]
               /\ devrows' = [devrows EXCEPT ![d] = r]
               /\ Routed(Upsert(peers, r), {})
        <3>1. peers' \in {peers, Upsert(peers, r)} /\ ghosts' = ghosts
            BY <2>2 DEF Routed
        <3>2. r \in Record /\ made' \in 0..MaxKeys /\ r.key = made + 1 /\ r.ip = NextIP
            BY <1>1, <2>2, BoundAssumption DEF Record, BoundAssumption
        <3>3. NextIP \in Addrs /\ \A e \in Devices : dev[e].ip # NextIP
            BY <2>2, NextIPIs
        <3> HIDE DEF r
        <3>4. NewRecord
            BY <1>3, <2>2, <3>1, <3>2, <3>3 DEF NewRecord
        <3>5. peers' \in [Addrs -> 0..MaxKeys]
            BY <3>1, <3>2, PeersAre
        <3> QED BY <2>2, <3>1, <3>2, <3>4, <3>5, ForgetIs
    <2> QED BY <1>3, <2>1, <2>2 DEF Configure
<1> QED BY <1>2, <1>3

LEMMA UntouchedDev ==
    ASSUME DevType, UNCHANGED <<dev, devrows, peers, made, ghosts>>, Forget
    PROVE  DevType' /\ KeepRecords
BY ForgetIs DEF DevType, KeepRecords

\* Records dropped with their peers, or with their keys remembered as ghosts.
LEMMA DropsDev ==
    ASSUME DevType, Forget, NEW S \in SUBSET Devices, made' = made, dev' = Drop(dev, S),
           devrows' = devrows \/ devrows' = Drop(devrows, S),
           \/ peers' = RemovePeers(peers, KeysOf(dev, S)) /\ ghosts' = ghosts
           \/ peers' = peers /\ ghosts' = ghosts \cup KeysOf(dev, S)
    PROVE  DevType' /\ DropRecords
<1> USE DEF DevType
<1>1. dev' \in [Devices -> Record] /\ devrows' \in [Devices -> Record]
    BY DropIs
<1>2. CASE peers' = RemovePeers(peers, KeysOf(dev, S)) /\ ghosts' = ghosts
    <2>1. /\ peers' \in [Addrs -> 0..MaxKeys]
          /\ \A a \in Addrs : peers'[a] # 0 => peers'[a] = peers[a] /\ peers[a] \notin KeysOf(dev, S)
        BY <1>2, PeersAre
    <2>2. DropRecords
        BY <1>2, <2>1 DEF DropRecords
    <2> QED BY <1>1, <1>2, <2>1, <2>2, ForgetIs
<1>3. CASE peers' = peers /\ ghosts' = ghosts \cup KeysOf(dev, S)
    <2>1. KeysOf(dev, S) \in SUBSET Keys
        BY KeysOfIs
    <2>2. DropRecords
        BY <1>3 DEF DropRecords
    <2> QED BY <1>1, <1>3, <2>1, <2>2, ForgetIs
<1> QED BY <1>2, <1>3

\* Every peer is of a device of the new records, or was there before.
LEMMA PeersAfterIs ==
    ASSUME NEW p \in [Addrs -> 0..MaxKeys], NEW t, NEW f \in [Devices -> Record],
           NEW q \in [Addrs -> 0..MaxKeys], PeersAfter(p, t, f, q), NEW a \in Addrs, q[a] # 0
    PROVE  q[a] = p[a] \/ \E d \in Devices : f[d] = At(q[a], a)
<1> DEFINE here == {d \in Devices : f[d].key # 0 /\ f[d].ip = a /\ ~Barred(t, d)}
           out == KeysOf(f, {d \in Devices : Barred(t, d)})
<1>1. IF here # {} THEN q[a] \in KeysOf(f, here)
      ELSE q[a] = IF p[a] \in out THEN 0 ELSE p[a]
    BY DEF PeersAfter
<1>2. CASE here # {}
    <2>1. PICK d \in here : f[d].key = q[a]
        BY <1>1, <1>2 DEF KeysOf
    <2>2. d \in Devices /\ f[d].ip = a /\ f[d] \in Record
        BY <2>1
    <2>3. f[d] = At(q[a], a)
        BY <2>1, <2>2 DEF Record, At
    <2> QED BY <2>2, <2>3
<1>3. CASE here = {}
    BY <1>1, <1>3
<1> QED BY <1>2, <1>3

LEMMA InstallDev ==
    ASSUME DevType, Forget, NEW r, NEW f \in [Devices -> Record], Install(r, f), Repeer(f),
           f = devrows \/ (snap.there /\ f = snap.dev), UNCHANGED <<devrows, made>>
    PROVE  DevType' /\ LoadRecords
<1> USE DEF DevType
<1> DEFINE gone == {d \in Devices : f[d].key = 0}
           new == {d \in Devices \ gone : dev[d].key # f[d].key}
           p == RemovePeers(peers, KeysOf(dev, gone))
<1>1. /\ dev' = f /\ peers' \in [Addrs -> 0..MaxKeys] /\ PeersAfter(p, table', f, peers')
      /\ ghosts' = ghosts \cup KeysOf(dev, new)
    BY DEF Install, Repeer
<1>2. KeysOf(dev, new) \in SUBSET Keys
    BY KeysOfIs
<1>3. /\ p \in [Addrs -> 0..MaxKeys]
      /\ \A a \in Addrs : p[a] # 0 => p[a] = peers[a] /\ peers[a] \notin KeysOf(dev, gone)
    BY PeersAre
<1>4. DevType'
    BY <1>1, <1>2, ForgetIs
<1>5. ASSUME NEW a \in Addrs, peers'[a] # 0, ~\E d \in Devices : f[d] = At(peers'[a], a)
      PROVE  /\ peers'[a] = peers[a]
             /\ \A d \in Devices : dev[d].key = peers[a] =>
                        f[d].key = peers[a] \/ peers[a] \in ghosts'
    <2> HIDE DEF p
    <2>1. peers'[a] = p[a]
        BY <1>1, <1>3, <1>5, PeersAfterIs
    <2>2. peers'[a] = peers[a] /\ peers[a] \notin KeysOf(dev, gone)
        BY <1>3, <1>5, <2>1
    <2>3. ASSUME NEW d \in Devices, dev[d].key = peers[a], f[d].key # peers[a]
          PROVE  peers[a] \in ghosts'
        <3>1. d \notin gone
            BY <1>5, <2>2, <2>3 DEF KeysOf
        <3>2. d \in new
            BY <2>3, <3>1
        <3> HIDE DEF new, gone
        <3>3. peers[a] \in KeysOf(dev, new)
            BY <1>5, <2>2, <2>3, <3>2 DEF KeysOf
        <3> QED BY <1>1, <3>3
    <2> QED BY <2>2, <2>3
<1> HIDE DEF p, new, gone
<1>6. LoadRecords
    BY <1>1, <1>5 DEF LoadRecords
<1> QED BY <1>4, <1>6

\* A reload whose request holds the device of an earlier run.
LEMMA DeafDev ==
    ASSUME DevType, Forget, NEW f \in [Devices -> Record], dev' = f, peers' = peers,
           ghosts' = ghosts \cup KeysOf(dev, {d \in Devices : dev[d].key # f[d].key}),
           f = devrows \/ (snap.there /\ f = snap.dev), UNCHANGED <<devrows, made>>
    PROVE  DevType' /\ LoadRecords
<1> USE DEF DevType
<1> DEFINE new == {d \in Devices : dev[d].key # f[d].key}
<1>1. KeysOf(dev, new) \in SUBSET Keys
    BY KeysOfIs
<1>2. ASSUME NEW a \in Addrs, peers'[a] # 0, NEW d \in Devices, dev[d].key = peers[a], f[d].key # peers[a]
      PROVE  peers[a] \in ghosts'
    <2>1. d \in new /\ dev[d].key # 0
        BY <1>2
    <2> HIDE DEF new
    <2>2. peers[a] \in KeysOf(dev, new)
        BY <1>2, <2>1 DEF KeysOf
    <2> QED BY <2>2 DEF new
<1> HIDE DEF new
<1>3. ghosts' = ghosts \cup KeysOf(dev, new)
    BY DEF new
<1>4. LoadRecords
    BY <1>2, <1>3 DEF LoadRecords
<1> QED BY <1>1, <1>3, <1>4, ForgetIs

LEMMA FirstPeersIs ==
    ASSUME NEW t, NEW f \in [Devices -> Record], NEW a \in Addrs, NEW k \in FirstPeers(t, f)[a], k # 0
    PROVE  \E d \in Devices : f[d] = At(k, a)
<1> DEFINE all == {d \in Devices : f[d].key # 0 /\ f[d].ip = a}
           here == {d \in all : ~Barred(t, d)}
<1>1. k \in IF here # {} THEN KeysOf(f, here) ELSE KeysOf(f, all) \cup {0}
    BY DEF FirstPeers
<1>2. here \subseteq all
    OBVIOUS
<1>3. k \in KeysOf(f, all)
    BY <1>1, <1>2 DEF KeysOf
<1>4. PICK d \in all : f[d].key = k
    BY <1>3 DEF KeysOf
<1>5. d \in Devices /\ f[d].ip = a /\ f[d] \in Record
    BY <1>4
<1> QED BY <1>4, <1>5 DEF Record, At

\* A start, with what it loads or with nothing.
LEMMA InitDev ==
    ASSUME DevType, Forget, made' = made, NEW read \in BOOLEAN, NEW ok \in BOOLEAN, InitDB(read, ok)
    PROVE  DevType' /\ (LoadRecords \/ StartEmpty)
<1> USE DEF DevType
<1>1. /\ dev' = devrows \/ dev' = [d \in Devices |-> NoRecord]
      /\ read => dev' = devrows
      /\ ~read => dev' = [d \in Devices |-> NoRecord]
      /\ peers' \in [Addrs -> 0..MaxKeys]
      /\ \A a \in Addrs : peers'[a] \in FirstPeers(table', dev')[a]
      /\ ghosts' = {} /\ (devrows' = dev' \/ devrows' = devrows)
    BY DEF InitDB
<1>2. NoRecord \in Record /\ NoRecord.key = 0
    BY BoundAssumption DEF BoundAssumption, NoRecord, Record
<1>3. dev' \in [Devices -> Record]
    BY <1>1, <1>2
<1>4. DevType'
    BY <1>1, <1>3, ForgetIs
<1>5. \A a \in Addrs : peers'[a] # 0 => \E d \in Devices : dev'[d] = At(peers'[a], a)
    BY <1>1, <1>3, FirstPeersIs
<1>6. CASE read
    <2>1. dev' = devrows /\ devrows' = devrows
        BY <1>1, <1>6
    <2>2. LoadRecords
        BY <1>5, <2>1 DEF LoadRecords
    <2> QED BY <1>4, <2>2
<1>7. CASE ~read
    <2>1. dev' = [d \in Devices |-> NoRecord]
        BY <1>1, <1>7
    <2>2. \A d \in Devices : dev'[d].key = 0
        BY <1>2, <2>1
    <2>3. \A k, a : At(k, a).key = k
        BY DEF At
    <2>4. \A a \in Addrs : peers'[a] = 0
        BY <1>5, <2>2, <2>3
    <2>5. StartEmpty
        BY <1>1, <2>1, <2>4 DEF StartEmpty
    <2> QED BY <1>4, <2>5
<1> QED BY <1>6, <1>7

LEMMA DevOfStep == ASSUME BindType, [Next]_vars PROVE DevType' /\ DevMoves
<1> USE DEF BindType, DevMoves
<1>1. ASSUME NEW u \in Users, NEW d \in Devices, GetConf(u, d) PROVE DevType' /\ DevMoves
    <2>1. Forget
        BY <1>1 DEF GetConf
    <2>2. Configure(d) \/ UNCHANGED <<dev, devrows, peers, ghosts, made>>
        BY <1>1 DEF GetConf
    <2> QED BY <2>1, <2>2, ConfigureIs, UntouchedDev
<1>2. ASSUME NEW d \in Devices, GetConfKnown(d) PROVE DevType' /\ DevMoves
    BY <1>2, ConfigureIs DEF GetConfKnown
<1>3. ASSUME NEW u \in Users, OpenForm(u) \/ PanelCreate(u) \/ BotCreate(u) PROVE DevType' /\ DevMoves
    BY <1>3, UntouchedDev DEF OpenForm, PanelCreate, BotCreate
<1>4. ASSUME NEW u \in Users, NEW v \in Users, NEW e \in Entry, PanelUpdate(u, v, e)
      PROVE  DevType' /\ DevMoves
    <2> DEFINE gone == table[u].devs \ e.devs
    <2>1. gone \in SUBSET Devices
        BY DEF Table, Entry
    <2>2. Forget /\ peers' = peers /\ made' = made
        BY <1>4 DEF PanelUpdate
    <2>3. CASE Cardinality(e.devs) > e.max
        BY <1>4, <2>3, UntouchedDev DEF PanelUpdate
    <2>4. CASE ~(Cardinality(e.devs) > e.max)
        <3>1. PICK n \in 0..(IF u = v THEN 2 ELSE 4) :
                 LET last == IF u = v THEN 2 ELSE 4
                     reached == n >= last - 2
                 IN /\ dev' = IF reached THEN Drop(dev, gone) ELSE dev
                    /\ ghosts' = IF reached THEN ghosts \cup KeysOf(dev, gone) ELSE ghosts
                    /\ devrows' = IF n >= last - 1 THEN Drop(devrows, gone) ELSE devrows
            BY <1>4, <2>4 DEF PanelUpdate
        <3> DEFINE last == IF u = v THEN 2 ELSE 4
        <3>2. last \in {2, 4}
            OBVIOUS
        <3> HIDE DEF gone
        <3>3. CASE n >= last - 2
            <4>1. /\ dev' = Drop(dev, gone) /\ ghosts' = ghosts \cup KeysOf(dev, gone)
                  /\ devrows' = devrows \/ devrows' = Drop(devrows, gone)
                BY <3>1, <3>3
            <4> QED BY <2>1, <2>2, <4>1, DropsDev
        <3>4. CASE ~(n >= last - 2)
            <4>1. dev' = dev /\ ghosts' = ghosts /\ devrows' = devrows
                BY <3>1, <3>2, <3>4
            <4> QED BY <2>2, <4>1, UntouchedDev
        <3> QED BY <3>3, <3>4
    <2> QED BY <2>3, <2>4
<1>5. ASSUME NEW u \in Users, NEW on \in BOOLEAN, ProfileUpdate(u, on) PROVE DevType' /\ DevMoves
    BY <1>5, UntouchedDev DEF ProfileUpdate
<1>6. ASSUME NEW u \in Users, NEW on \in BOOLEAN, BotSwitch(u, on) PROVE DevType' /\ DevMoves
    <2> DEFINE S == IF on THEN {} ELSE table[u].devs
               ks == IF on THEN {} ELSE KeysOf(dev, table[u].devs)
    <2>1. S \in SUBSET Devices /\ table[u].devs \in SUBSET Devices
        BY DEF Table, Entry
    <2>2. ks \in SUBSET Keys
        BY <2>1, KeysOfIs DEF DevType
    <2>3. Forget /\ UNCHANGED <<dev, devrows, made>> /\ RemovedFrom(ks)
        BY <1>6 DEF BotSwitch
    <2> HIDE DEF S, ks
    <2>4. /\ peers' = peers \/ peers' = RemovePeers(peers, ks)
          /\ ghosts' = ghosts \/ ghosts' = ghosts \cup ks
        BY <2>3 DEF RemovedFrom, Routed
    <2>5. /\ peers' \in [Addrs -> 0..MaxKeys]
          /\ \A a \in Addrs : peers'[a] \in {0, peers[a]}
        BY <2>4, PeersAre DEF DevType
    <2>6. KeepRecords
        BY <2>3, <2>4, <2>5 DEF KeepRecords
    <2> QED BY <2>2, <2>3, <2>4, <2>5, <2>6, ForgetIs DEF DevType
<1>7. ASSUME NEW u \in Users, PanelDelete(u) \/ BotDelete(u) PROVE DevType' /\ DevMoves
    <2>1. table[u].devs \in SUBSET Devices
        BY DEF Table, Entry
    <2>2. /\ Forget /\ made' = made /\ dev' = Drop(dev, table[u].devs)
          /\ devrows' = devrows \/ devrows' = Drop(devrows, table[u].devs)
          /\ RemovedFrom(KeysOf(dev, table[u].devs))
        BY <1>7 DEF PanelDelete, BotDelete, DeletedRows
    <2> QED BY <2>1, <2>2, DropsDev DEF RemovedFrom, Routed
<1>8. ASSUME NEW u \in Users, NEW S \in SUBSET Devices, BotUnbind(u, S) PROVE DevType' /\ DevMoves
    <2>1. /\ Forget /\ made' = made /\ dev' = Drop(dev, S)
          /\ devrows' = devrows \/ devrows' = Drop(devrows, S)
          /\ RemovedFrom(KeysOf(dev, S))
        BY <1>8 DEF BotUnbind
    <2> QED BY <2>1, DropsDev DEF RemovedFrom, Routed
<1>9. ASSUME NEW d \in Devices, BotDeleteDevice(d) PROVE DevType' /\ DevMoves
    <2>1. KeysOf(dev, {d}) = {dev[d].key}
        BY <1>9 DEF BotDeleteDevice, KeysOf
    <2>2. /\ Forget /\ made' = made /\ dev' = Drop(dev, {d})
          /\ devrows' = devrows \/ devrows' = Drop(devrows, {d})
          /\ RemovedFrom(KeysOf(dev, {d}))
        BY <1>9, <2>1 DEF BotDeleteDevice
    <2>3. {d} \in SUBSET Devices
        OBVIOUS
    <2> QED BY <2>2, <2>3, DropsDev DEF RemovedFrom, Routed
<1>10. CASE StatsSync
    <2>1. /\ Install(rows, devrows) /\ Repeer(devrows) /\ Forget
          /\ UNCHANGED <<devrows, made>> /\ devrows \in [Devices -> Record]
        BY <1>10 DEF StatsSync, DevType
    <2> QED BY <2>1, InstallDev
<1>11. CASE ReloadRead \/ ReloadFails
    BY <1>11, UntouchedDev DEF ReloadRead, ReloadFails
<1>12. CASE ReloadInstall
    <2>1. /\ Install(snap.rows, snap.dev) /\ Forget /\ UNCHANGED <<devrows, made>> /\ snap.there
          /\ dev' = snap.dev
        BY <1>12 DEF ReloadInstall, Install
    <2>2. snap.dev \in [Devices -> Record]
        BY <2>1, SnapThere
    <2>3. CASE Repeer(snap.dev)
        BY <2>1, <2>2, <2>3, InstallDev
    <2>4. CASE ~Repeer(snap.dev)
        <3>1. /\ peers' = peers
              /\ ghosts' = ghosts \cup KeysOf(dev, {d \in Devices : dev[d].key # snap.dev[d].key})
            BY <1>12, <2>4 DEF ReloadInstall
        <3> QED BY <2>1, <2>2, <3>1, DeafDev
    <2> QED BY <2>3, <2>4
<1>13. CASE Boot \/ Restart
    <2>1. Forget /\ made' = made /\ \E read, ok \in BOOLEAN : InitDB(read, ok)
        BY <1>13 DEF Boot, Restart
    <2> QED BY <2>1, InitDev
<1>14. CASE UNCHANGED vars
    BY <1>14 DEF vars, DevType, KeepRecords
<1> QED BY <1>1, <1>2, <1>3, <1>4, <1>5, <1>6, <1>7, <1>8, <1>9, <1>10, <1>11, <1>12, <1>13, <1>14 DEF Next

LEMMA EditSnap ==
    ASSUME SnapType, MarksType, NEW some \in BOOLEAN, NEW all \in BOOLEAN, NEW why \in BOOLEAN,
           After(some, all, why)
    PROVE  /\ SnapType' /\ SnapMoves
           /\ behind' \in BOOLEAN /\ torn' \in BOOLEAN /\ halfway' \in BOOLEAN
<1>1. /\ behind' \in BOOLEAN /\ torn' \in BOOLEAN /\ halfway' \in BOOLEAN
      /\ SnapType' /\ (~snap.there => snap' = snap)
      /\ snap.there => snap' \in Snap /\ snap'.rows = snap.rows /\ snap'.dev = snap.dev /\ snap'.crossed
    BY AfterIs DEF MarksType
<1>2. CASE snap.there
    BY <1>1, <1>2 DEF SnapMoves
<1>3. CASE ~snap.there
    BY <1>1, <1>3 DEF SnapMoves, After
<1> QED BY <1>2, <1>3

\* Which steps end with After.
LEMMA Edits ==
    ASSUME BindType,
           \/ \E u \in Users, d \in Devices : GetConf(u, d)
           \/ \E u \in Users : PanelDelete(u) \/ BotCreate(u) \/ BotDelete(u)
           \/ \E u \in Users, v \in Users, e \in Entry : PanelUpdate(u, v, e)
           \/ \E u \in Users, on \in BOOLEAN : ProfileUpdate(u, on) \/ BotSwitch(u, on)
           \/ \E u \in Users, S \in SUBSET Devices : BotUnbind(u, S)
           \/ \E d \in Devices : BotDeleteDevice(d)
    PROVE  \E some \in BOOLEAN, all \in BOOLEAN, why \in BOOLEAN : After(some, all, why)
<1>1. ASSUME NEW u \in Users, NEW d \in Devices, GetConf(u, d)
      PROVE  \E some \in BOOLEAN, all \in BOOLEAN, why \in BOOLEAN : After(some, all, why)
    <2>1. PICK ok \in BOOLEAN : After(ok, ok, Owners(table, d) # {})
        BY <1>1 DEF GetConf
    <2> QED BY <2>1
<1>2. ASSUME NEW u \in Users, PanelDelete(u) \/ BotCreate(u) \/ BotDelete(u)
      PROVE  \E some \in BOOLEAN, all \in BOOLEAN, why \in BOOLEAN : After(some, all, why)
    BY <1>2 DEF PanelDelete, BotCreate, BotDelete
<1>3. ASSUME NEW u \in Users, NEW v \in Users, NEW e \in Entry, PanelUpdate(u, v, e)
      PROVE  \E some \in BOOLEAN, all \in BOOLEAN, why \in BOOLEAN : After(some, all, why)
    <2>1. CASE Cardinality(e.devs) > e.max
        BY <1>3, <2>1 DEF PanelUpdate
    <2>2. CASE ~(Cardinality(e.devs) > e.max)
        <3> DEFINE last == IF u = v THEN 2 ELSE 4
        <3>1. PICK n \in 0..last : After(n > 0, n = last, FALSE)
            BY <1>3, <2>2 DEF PanelUpdate
        <3> DEFINE some == n > 0
                   all == n = last
        <3>2. After(some, all, FALSE)
            BY <3>1
        <3>3. some \in BOOLEAN /\ all \in BOOLEAN
            OBVIOUS
        <3> HIDE DEF some, all
        <3> QED BY <3>2, <3>3
    <2> QED BY <2>1, <2>2
<1>4. ASSUME NEW u \in Users, NEW on \in BOOLEAN, ProfileUpdate(u, on) \/ BotSwitch(u, on)
      PROVE  \E some \in BOOLEAN, all \in BOOLEAN, why \in BOOLEAN : After(some, all, why)
    BY <1>4 DEF ProfileUpdate, BotSwitch
<1>5. ASSUME NEW u \in Users, NEW S \in SUBSET Devices, BotUnbind(u, S)
      PROVE  \E some \in BOOLEAN, all \in BOOLEAN, why \in BOOLEAN : After(some, all, why)
    BY <1>5 DEF BotUnbind
<1>6. ASSUME NEW d \in Devices, BotDeleteDevice(d)
      PROVE  \E some \in BOOLEAN, all \in BOOLEAN, why \in BOOLEAN : After(some, all, why)
    <2>1. PICK ok \in BOOLEAN : After(ok, ok, \E u \in Users : rows[u].first = d)
        BY <1>6 DEF BotDeleteDevice
    <2> QED BY <2>1
<1> QED BY <1>1, <1>2, <1>3, <1>4, <1>5, <1>6

LEMMA SnapOfStep ==
    ASSUME BindType, [Next]_vars
    PROVE  /\ SnapType' /\ SnapMoves
           /\ behind' \in BOOLEAN /\ torn' \in BOOLEAN /\ halfway' \in BOOLEAN
<1> USE DEF BindType, MarksType
<1>1. ASSUME NEW some \in BOOLEAN, NEW all \in BOOLEAN, NEW why \in BOOLEAN, After(some, all, why)
      PROVE  /\ SnapType' /\ SnapMoves
             /\ behind' \in BOOLEAN /\ torn' \in BOOLEAN /\ halfway' \in BOOLEAN
    BY <1>1, EditSnap
<1>2. ASSUME snap' = snap \/ (snap.there /\ snap' = [snap EXCEPT !.crossed = TRUE])
                          \/ (snap.there /\ snap' = [snap EXCEPT !.newer = TRUE])
                          \/ (snap.there /\ snap' = [snap EXCEPT !.crossed = TRUE, !.newer = FALSE])
      PROVE  SnapType' /\ SnapMoves
    <2>1. CASE snap.there
        <3>1. snap \in Snap
            BY <2>1, SnapThere
        <3> QED BY <1>2, <2>1, <3>1 DEF SnapType, SnapMoves, Snap
    <2>2. CASE ~snap.there
        BY <1>2, <2>2 DEF SnapMoves, SnapType
    <2> QED BY <2>1, <2>2
<1>3. ASSUME NEW d \in Devices, GetConfKnown(d)
      PROVE  /\ SnapType' /\ SnapMoves
             /\ behind' \in BOOLEAN /\ torn' \in BOOLEAN /\ halfway' \in BOOLEAN
    BY <1>2, <1>3 DEF GetConfKnown
<1>4. ASSUME NEW u \in Users, OpenForm(u) \/ PanelCreate(u)
      PROVE  /\ SnapType' /\ SnapMoves
             /\ behind' \in BOOLEAN /\ torn' \in BOOLEAN /\ halfway' \in BOOLEAN
    BY <1>2, <1>4 DEF OpenForm, PanelCreate
<1>5. CASE StatsSync
    BY <1>2, <1>5 DEF StatsSync, Muddled
<1>6. CASE ReloadRead
    <2>1. snap' = [there |-> TRUE, rows |-> rows, dev |-> devrows, crossed |-> FALSE, newer |-> FALSE]
        BY <1>6 DEF ReloadRead
    <2>2. snap' \in Snap
        BY <2>1 DEF Snap, DevType
    <2> QED BY <1>6, <2>1, <2>2 DEF ReloadRead, SnapMoves, SnapType
<1>7. CASE ReloadInstall
    <2>1. snap \in Snap /\ snap' = NoSnap
        BY <1>7 DEF ReloadInstall, SnapType, NoSnap
    <2> QED BY <1>7, <2>1 DEF ReloadInstall, SnapMoves, SnapType, Snap, Muddled
<1>8. CASE Boot
    <2>1. snap' = NoSnap /\ behind' \in BOOLEAN /\ halfway' = halfway
        BY <1>8 DEF Boot
    <2>2. torn' \in BOOLEAN
        BY <1>8 DEF Boot, InitDB
    <2> QED BY <2>1, <2>2 DEF SnapMoves, SnapType
<1>9. CASE ReloadFails
    BY <1>9 DEF ReloadFails, SnapMoves, SnapType
<1>10. CASE Restart
    <2>1. PICK read \in BOOLEAN, ok \in BOOLEAN :
              /\ InitDB(read, ok) /\ behind' = (behind /\ ~ok)
              /\ snap' = IF snap.there
                         THEN [snap EXCEPT !.crossed = @ \/ ok, !.newer = @ /\ ~ok] ELSE snap
        BY <1>10 DEF Restart
    <2>2. torn' \in BOOLEAN /\ behind' \in BOOLEAN /\ halfway' = halfway
        BY <1>10, <2>1 DEF InitDB, Restart
    <2>3. CASE snap.there
        <3>1. snap \in Snap
            BY <2>3, SnapThere
        <3>2. snap' \in Snap /\ snap'.rows = snap.rows /\ snap'.dev = snap.dev /\ (snap.crossed => snap'.crossed)
            BY <2>1, <2>3, <3>1 DEF Snap
        <3> QED BY <2>2, <2>3, <3>2 DEF SnapType, SnapMoves
    <2>4. CASE ~snap.there
        BY <2>1, <2>2, <2>4 DEF SnapMoves, SnapType
    <2> QED BY <2>3, <2>4
<1>11. CASE UNCHANGED vars
    BY <1>2, <1>11 DEF vars
<1> QED BY <1>1, <1>3, <1>4, <1>5, <1>6, <1>7, <1>8, <1>9, <1>10, <1>11, Edits DEF Next

NewEntry == [Absent EXCEPT !.there = TRUE, !.on = TRUE, !.max = 1]

LEMMA NewEntryIs ==
    ASSUME NEW t \in Table, NEW u \in Users
    PROVE  /\ NewEntry \in Entry /\ NewEntry.there /\ NewEntry.on /\ NewEntry.max = 1
           /\ NewEntry.devs = {}
           /\ [t EXCEPT ![u] = NewEntry] \in Table
           /\ \A w \in Users : [t EXCEPT ![u] = NewEntry][w] = IF w = u THEN NewEntry ELSE t[w]
<1>1. Absent \in Entry /\ Absent.devs = {}
    BY BoundAssumption DEF Absent, Entry, BoundAssumption
<1>2. /\ NewEntry \in Entry /\ NewEntry.there /\ NewEntry.on /\ NewEntry.max = 1
      /\ NewEntry.devs = {}
    <2>1. ASSUME NEW e \in Entry, e.devs = {}, NEW x, x = [e EXCEPT !.there = TRUE, !.on = TRUE, !.max = 1]
          PROVE  x \in Entry /\ x.there /\ x.on /\ x.max = 1 /\ x.devs = {}
        <3>1. 1 \in 0..MaxSlots /\ {} \in SUBSET Devices
            BY BoundAssumption DEF BoundAssumption
        <3>2. x = [there |-> TRUE, on |-> TRUE, max |-> 1, devs |-> e.devs]
            BY <2>1 DEF Entry
        <3> QED BY <2>1, <3>1, <3>2 DEF Entry
    <2> QED BY <1>1, <2>1 DEF NewEntry
<1> QED BY <1>2 DEF Table

\* A device taken from all entries, or from all rows.
LEMMA AllUnbound ==
    ASSUME NEW t \in Table, NEW r \in [Users -> Row], NEW d \in Devices
    PROVE  /\ [u \in Users |-> [t[u] EXCEPT !.devs = @ \ {d}]] \in Table
           /\ [u \in Users |-> [r[u] EXCEPT !.devs = @ \ {d}]] \in [Users -> Row]
<1>1. ASSUME NEW e \in Entry
      PROVE  /\ [e EXCEPT !.devs = @ \ {d}] \in Entry
             /\ [e EXCEPT !.devs = @ \ {d}].there = e.there
             /\ [e EXCEPT !.devs = @ \ {d}].devs = e.devs \ {d}
    BY DEF Entry
<1>2. ASSUME NEW e \in Row PROVE [e EXCEPT !.devs = @ \ {d}] \in Row
    BY DEF Row
<1>3. t \in [Users -> Entry] /\ \A u \in Users : ~t[u].there => t[u].devs = {}
    BY DEF Table
<1>4. [u \in Users |-> [t[u] EXCEPT !.devs = @ \ {d}]] \in [Users -> Entry]
    BY <1>1, <1>3
<1>5. [u \in Users |-> [t[u] EXCEPT !.devs = @ \ {d}]] \in Table
    BY <1>1, <1>3, <1>4 DEF Table
<1>6. [u \in Users |-> [r[u] EXCEPT !.devs = @ \ {d}]] \in [Users -> Row]
    BY <1>2
<1> QED BY <1>5, <1>6

\* What a start makes of the file.
LEMMA BootRows ==
    ASSUME NEW t \in Table, NEW f \in [Users -> Devices \cup {NoDevice}],
           \A u \in Users : f[u] \in Firsts(t[u].devs),
           NEW r, r = [u \in Users |-> IF t[u].there
                         THEN [there |-> TRUE, on |-> t[u].on, max |-> t[u].max,
                               devs |-> t[u].devs, first |-> f[u]]
                         ELSE NoRow]
    PROVE  /\ r \in [Users -> Row]
           /\ \A u \in Users : /\ t[u].there => RowOf(r[u], t[u], f[u])
                               /\ ~t[u].there => r[u] = NoRow
<1>1. t \in [Users -> Entry]
    BY DEF Table
<1>2. ASSUME NEW u \in Users PROVE r[u] \in Row
    BY <1>1, BoundAssumption DEF Row, Entry, NoRow, BoundAssumption
<1> QED BY <1>2 DEF RowOf

LEMMA EmptyIs ==
    /\ [u \in Users |-> Absent] \in Table /\ Single([u \in Users |-> Absent])
    /\ \A u \in Users : [v \in Users |-> Absent][u] = Absent
    /\ ~Absent.there /\ Absent.devs = {} /\ Absent.max = 0
<1>1. Absent \in Entry /\ ~Absent.there /\ Absent.devs = {} /\ Absent.max = 0
    BY BoundAssumption DEF BoundAssumption, Absent, Entry
<1> QED BY <1>1 DEF Table, Single

LEMMA StartIs ==
    ASSUME BindType, NEW read \in BOOLEAN, NEW ok \in BOOLEAN, InitDB(read, ok)
    PROVE  /\ table' \in Table /\ Single(table') /\ rows' \in [Users -> Row]
           /\ read => table' \in Deduped(Loaded(rows)) /\ dev' = devrows
           /\ ~read => \A u \in Users : table'[u] = Absent
           /\ wrap' = Usable(table') /\ unkeyed' = {}
           /\ ~ok => rows' = rows /\ devrows' = devrows
           /\ ok => /\ devrows' = dev'
                    /\ \E f \in [Users -> Devices \cup {NoDevice}] :
                         \A u \in Users : /\ f[u] \in Firsts(table'[u].devs)
                                          /\ table'[u].there => RowOf(rows'[u], table'[u], f[u])
                                          /\ ~table'[u].there => rows'[u] = NoRow
<1> USE DEF BindType
<1>1. /\ read => table' \in Deduped(Loaded(rows)) /\ dev' = devrows
      /\ ~read => table' = [u \in Users |-> Absent]
      /\ wrap' = Usable(table') /\ unkeyed' = {}
      /\ ~ok => rows' = rows /\ devrows' = devrows
    BY DEF InitDB
<1>2. table' \in Table /\ Single(table')
    BY <1>1, EmptyIs, LoadedIs, DedupedIs
<1>3. CASE ok
    <2>1. /\ devrows' = dev'
          /\ \E f \in [Users -> Devices \cup {NoDevice}] :
                 /\ \A u \in Users : f[u] \in Firsts(table'[u].devs)
                 /\ rows' = [u \in Users |-> IF table'[u].there
                      THEN [there |-> TRUE, on |-> table'[u].on, max |-> table'[u].max,
                            devs |-> table'[u].devs, first |-> f[u]]
                      ELSE NoRow]
        BY <1>3 DEF InitDB
    <2>2. /\ rows' \in [Users -> Row]
          /\ \E f \in [Users -> Devices \cup {NoDevice}] :
                 \A u \in Users : /\ f[u] \in Firsts(table'[u].devs)
                                  /\ table'[u].there => RowOf(rows'[u], table'[u], f[u])
                                  /\ ~table'[u].there => rows'[u] = NoRow
        BY <1>2, <2>1, BootRows
    <2> QED BY <1>1, <1>2, <1>3, <2>1, <2>2, EmptyIs
<1>4. CASE ~ok
    BY <1>1, <1>2, <1>4, EmptyIs
<1> QED BY <1>3, <1>4

RestType == /\ table \in Table /\ rows \in [Users -> Row]
            /\ wrap \in SUBSET Users /\ unkeyed \in SUBSET Users
            /\ edits \in Nat /\ FormType /\ stale \in BOOLEAN

LEMMA RestOfStep == ASSUME BindType, [Next]_vars PROVE RestType'
<1> USE DEF BindType, MarksType
<1>1. \A t : Usable(t) \subseteq Users
    BY DEF Usable
<1>2. \A u \in Users : table[u] \in Entry /\ table[u].devs \in SUBSET Devices
    BY DEF Table, Entry
<1>3. \A e \in Entry : Firsts(e.devs) \subseteq Devices \cup {NoDevice}
    BY DEF Firsts, Entry
<1>4. \A t \in Table, u \in Users : t[u] \in Entry
    BY DEF Table
<1>5. \A u \in Users : [rows EXCEPT ![u] = NoRow] \in [Users -> Row]
    BY NoRowIs
<1>6. ASSUME NEW u \in Users, NEW d \in Devices, GetConf(u, d) PROVE RestType'
    <2>1. table[u].there
        BY <1>6 DEF GetConf, MayBind, Usable
    <2>2. table' = Bind(table, u, d) /\ table' \in Table
        BY <1>6, <2>1, BindIs DEF GetConf
    <2>3. rows' \in [Users -> Row]
        <3>1. rows' = rows \/ \E f \in table'[u].devs : rows' = WriteBindings(rows, u, table'[u].devs, f)
            BY <1>6 DEF GetConf
        <3>2. table'[u] \in Entry /\ table'[u].devs \subseteq Devices \cup {NoDevice}
            BY <2>2 DEF Table, Entry
        <3>3. ASSUME NEW e \in Entry, NEW f \in Devices \cup {NoDevice}
              PROVE  WriteBindings(rows, u, e.devs, f) \in [Users -> Row]
            BY BindingsAre
        <3>4. \A f \in table'[u].devs : WriteBindings(rows, u, table'[u].devs, f) \in [Users -> Row]
            BY <3>2, <3>3
        <3> QED BY <3>1, <3>4
    <2> QED BY <1>6, <2>2, <2>3 DEF GetConf, Edit, RestType, FormType
<1>7. ASSUME NEW d \in Devices, GetConfKnown(d) PROVE RestType'
    BY <1>7 DEF GetConfKnown, RestType, FormType
<1>8. ASSUME NEW u \in Users, OpenForm(u) PROVE RestType'
    <2>1. Loaded(rows)[u].devs \in SUBSET Devices
        <3>1. Loaded(rows)[u] \in Entry
            BY <1>4, LoadedIs
        <3> QED BY <3>1 DEF Entry
    <2>2. form' \in [user : Users \cup {"none"}, devs : SUBSET Devices]
        BY <1>8, <2>1 DEF OpenForm
    <2> QED BY <1>8, <2>2 DEF OpenForm, RestType, FormType
<1>9. ASSUME NEW u \in Users, PanelCreate(u) PROVE RestType'
    <2>1. PICK m \in 1..MaxSlots :
              rows' = [rows EXCEPT ![u] = [rows[u] EXCEPT !.there = TRUE, !.on = TRUE, !.max = m,
                                                          !.first = NoDevice]]
        BY <1>9 DEF PanelCreate
    <2>2. m \in 0..MaxSlots
        BY BoundAssumption DEF BoundAssumption
    <2>3. rows' \in [Users -> Row]
        <3>1. ASSUME NEW x \in Row
              PROVE  [x EXCEPT !.there = TRUE, !.on = TRUE, !.max = m, !.first = NoDevice] \in Row
            BY ONLY <2>2, x \in Row DEF Row
        <3> QED BY <2>1, <3>1
    <2> QED BY <1>9, <2>3 DEF PanelCreate, Edit, RestType, FormType
<1>10. ASSUME NEW u \in Users, NEW v \in Users, NEW e \in Entry, PanelUpdate(u, v, e) PROVE RestType'
    <2>1. /\ table' = [table EXCEPT ![u] = Absent, ![v] = e] /\ e.there
          /\ form' = NoForm /\ edits' = edits + 1 /\ stale' = stale
        BY <1>10 DEF PanelUpdate, Edit
    <2>2. table' \in Table
        BY <2>1, EntriesAre
    <2>3. rows' \in [Users -> Row]
        <3>1. rows' = rows \/ \E n \in 0..(IF u = v THEN 2 ELSE 4), f \in Firsts(e.devs) :
                                  rows' = Written(u, v, e, f, n)
            BY <1>10 DEF PanelUpdate
        <3>2. ASSUME NEW n \in 0..(IF u = v THEN 2 ELSE 4), NEW f \in Firsts(e.devs)
              PROVE  Written(u, v, e, f, n) \in [Users -> Row]
            BY ONLY WrittenIs, rows \in [Users -> Row], u \in Users, v \in Users, e \in Entry,
                    f \in Firsts(e.devs), n \in 0..(IF u = v THEN 2 ELSE 4)
        <3> QED BY <3>1, <3>2
    <2>4. wrap' \in SUBSET Users /\ unkeyed' \in SUBSET Users
        <3>1. CASE Cardinality(e.devs) > e.max
            BY <1>1, <1>10, <3>1 DEF PanelUpdate
        <3>2. CASE ~(Cardinality(e.devs) > e.max)
            <4>1. \/ wrap' = Usable(table') /\ unkeyed' = {}
                  \/ wrap' = wrap /\ unkeyed' = unkeyed \cup (Usable(table') \ wrap)
                BY <1>10, <3>2 DEF PanelUpdate
            <4> QED BY <1>1, <4>1
        <3> QED BY <3>1, <3>2
    <2>5. FormType'
        BY <2>1 DEF FormType, NoForm
    <2> QED BY <2>1, <2>2, <2>3, <2>4, <2>5 DEF RestType
<1>11. ASSUME NEW u \in Users, NEW on \in BOOLEAN, ProfileUpdate(u, on) PROVE RestType'
    <2>1. table' \in Table /\ table'[u] \in Entry
        BY <1>4, <1>11, EntriesAre DEF ProfileUpdate
    <2>2. rows' = rows \/ \E f \in Devices \cup {NoDevice} : rows' = WriteUser(rows, u, table'[u], f)
        BY <1>2, <1>3, <1>11 DEF ProfileUpdate
    <2>3. rows' \in [Users -> Row]
        BY <2>1, <2>2, UserRowIs
    <2> QED BY <1>1, <1>11, <2>1, <2>3 DEF ProfileUpdate, Edit, RestType, FormType
<1>12. ASSUME NEW u \in Users, PanelDelete(u) \/ BotDelete(u) PROVE RestType'
    <2>1. table' \in Table
        <3>1. table' = [table EXCEPT ![u] = Absent]
            BY <1>12 DEF PanelDelete, BotDelete
        <3> QED BY <3>1, EntriesAre
    <2>2. rows' = rows \/ rows' = [rows EXCEPT ![u] = NoRow]
        BY <1>12 DEF PanelDelete, BotDelete, DeletedRows
    <2>3. wrap' \in SUBSET Users /\ unkeyed' \in SUBSET Users
        BY <1>1, <1>12 DEF PanelDelete, BotDelete, RemoveKey
    <2>4. form' = form /\ edits' = edits + 1 /\ stale' = stale
        BY <1>12 DEF PanelDelete, BotDelete, Edit
    <2> QED BY <1>5, <2>1, <2>2, <2>3, <2>4 DEF RestType, FormType
<1>13. ASSUME NEW u \in Users, BotCreate(u) PROVE RestType'
    <2>1. table' = [table EXCEPT ![u] = NewEntry] /\ rows' = WriteUser(rows, u, table'[u], NoDevice)
        BY <1>13 DEF BotCreate, NewEntry
    <2>2. table' \in Table /\ table'[u] \in Entry
        BY <1>4, <2>1, NewEntryIs
    <2>3. rows' \in [Users -> Row]
        BY <2>1, <2>2, UserRowIs
    <2> QED BY <1>13, <2>2, <2>3 DEF BotCreate, Edit, RestType, FormType
<1>14. ASSUME NEW u \in Users, NEW S \in SUBSET Devices, BotUnbind(u, S) PROVE RestType'
    <2>1. table' = Unbind(table, u, S)
        BY <1>14 DEF BotUnbind
    <2>2. table' \in Table /\ table'[u] \in Entry
        BY <1>4, <2>1, EntriesAre
    <2>3. rows' = rows \/ \E f \in Firsts(table'[u].devs) : rows' = WriteBindings(rows, u, table'[u].devs, f)
        BY <1>14 DEF BotUnbind
    <2>4. rows' \in [Users -> Row]
        <3>1. ASSUME NEW e \in Entry, NEW f \in Firsts(e.devs)
              PROVE  WriteBindings(rows, u, e.devs, f) \in [Users -> Row]
            <4>1. f \in Devices \cup {NoDevice}
                BY <1>3
            <4> QED BY <4>1, BindingsAre
        <3> QED BY <2>2, <2>3, <3>1
    <2> QED BY <1>14, <2>2, <2>4 DEF BotUnbind, Edit, RestType, FormType
<1>15. ASSUME NEW d \in Devices, BotDeleteDevice(d) PROVE RestType'
    <2>1. /\ table' = [u \in Users |-> [table[u] EXCEPT !.devs = @ \ {d}]]
          /\ rows' = rows \/ rows' = [u \in Users |-> [rows[u] EXCEPT !.devs = @ \ {d}]]
        BY <1>15 DEF BotDeleteDevice
    <2> DEFINE x == [u \in Users |-> [table[u] EXCEPT !.devs = @ \ {d}]]
               y == [u \in Users |-> [rows[u] EXCEPT !.devs = @ \ {d}]]
    <2>3. x \in Table /\ y \in [Users -> Row]
        BY AllUnbound
    <2>4. table' = x /\ (rows' = rows \/ rows' = y)
        BY <2>1
    <2> HIDE DEF x, y
    <2>2. table' \in Table /\ rows' \in [Users -> Row]
        BY <2>3, <2>4
    <2> QED BY <1>15, <2>2 DEF BotDeleteDevice, Edit, RestType, FormType
<1>16. ASSUME NEW u \in Users, NEW on \in BOOLEAN, BotSwitch(u, on) PROVE RestType'
    <2>1. table' \in Table
        BY <1>16, EntriesAre DEF BotSwitch
    <2>2. rows' \in [Users -> Row]
        BY <1>16 DEF BotSwitch, Row
    <2>3. unkeyed' \in SUBSET Users
        BY <1>16 DEF BotSwitch
    <2> QED BY <1>16, <2>1, <2>2, <2>3 DEF BotSwitch, Edit, RestType, FormType
<1>17. ASSUME NEW r \in [Users -> Row], NEW f, Install(r, f), UNCHANGED <<rows, form, edits, stale>> PROVE RestType'
    <2>1. table' \in Table
        BY <1>17, LoadedIs, DedupedIs DEF Install
    <2> QED BY <1>1, <1>17, <2>1 DEF Install, RestType, FormType
<1>18. CASE StatsSync
    BY <1>17, <1>18 DEF StatsSync
<1>19. CASE ReloadRead \/ ReloadFails
    BY <1>19 DEF ReloadRead, ReloadFails, RestType, FormType
<1>20. CASE ReloadInstall
    BY <1>17, <1>20, SnapThere DEF ReloadInstall
<1>21. CASE Boot \/ Restart
    <2>1. PICK read \in BOOLEAN, ok \in BOOLEAN : InitDB(read, ok)
        BY <1>21 DEF Boot, Restart
    <2>2. /\ table' \in Table /\ rows' \in [Users -> Row]
          /\ wrap' = Usable(table') /\ unkeyed' = {}
        BY <2>1, StartIs
    <2>3. form' = form /\ stale' \in BOOLEAN
        BY <1>21 DEF Boot, Restart
    <2>4. edits' = edits \/ edits' = edits + 1
        BY <1>21 DEF Boot, Restart, Edit
    <2> QED BY <1>1, <2>2, <2>3, <2>4 DEF RestType, FormType
<1>22. CASE UNCHANGED vars
    BY <1>22 DEF vars, RestType, FormType
<1> QED BY <1>6, <1>7, <1>8, <1>9, <1>10, <1>11, <1>12, <1>13, <1>14, <1>15, <1>16, <1>18, <1>19,
           <1>20, <1>21, <1>22 DEF Next

LEMMA TypeStep == ASSUME BindType, [Next]_vars PROVE BindType'
BY DevOfStep, SnapOfStep, RestOfStep DEF BindType, MarksType, RestType

\* The states Init allows, by what it chooses.
Begin(U, m, d, n, o) ==
    LET held == IF n = 1 /\ o \in U THEN {d} ELSE {} IN
    /\ n <= MaxKeys /\ (n = 1 => o \in U)
    /\ rows = [u \in Users |->
          IF u \notin U THEN NoRow
          ELSE [there |-> TRUE, on |-> TRUE, max |-> m[u],
                devs |-> IF u = o THEN held ELSE {},
                first |-> IF u = o /\ n = 1 THEN d ELSE NoDevice]]
    /\ table = Loaded(rows)
    /\ dev = [e \in Devices |-> IF e \in held THEN [key |-> 1, ip |-> 1] ELSE NoRecord]
    /\ devrows = dev
    /\ peers = [a \in Addrs |-> IF a = 1 THEN n ELSE 0]
    /\ made = n /\ edits = 0
    /\ wrap = Usable(table)
    /\ behind = FALSE
    /\ form = NoForm
    /\ snap = NoSnap
    /\ torn = FALSE /\ halfway = FALSE /\ stale = FALSE
    /\ ghosts = {} /\ unkeyed = {} /\ lost = {}

LEMMA InitIs ==
    ASSUME Init
    PROVE  \E U \in SUBSET Users, m \in [Users -> 1..MaxSlots], d \in Devices, n \in 0..1, o \in Users :
               Begin(U, m, d, n, o)
BY DEF Init, Begin

LEMMA TypeInit == ASSUME Init PROVE BindType
<1>1. PICK U \in SUBSET Users, m \in [Users -> 1..MaxSlots], d \in Devices, n \in 0..1, o \in Users :
          Begin(U, m, d, n, o)
    BY InitIs
<1> USE DEF Begin
<1> DEFINE held == IF n = 1 /\ o \in U THEN {d} ELSE {}
<1>2. rows \in [Users -> Row]
    <2>1. ASSUME NEW u \in U
          PROVE  [there |-> TRUE, on |-> TRUE, max |-> m[u],
                  devs |-> IF u = o THEN held ELSE {},
                  first |-> IF u = o /\ n = 1 THEN d ELSE NoDevice] \in Row
        <3>1. m[u] \in 0..MaxSlots
            BY BoundAssumption DEF BoundAssumption
        <3> QED BY <3>1 DEF Row
    <2>2. NoRow \in Row
        BY BoundAssumption DEF Row, NoRow, BoundAssumption
    <2> QED BY <1>1, <2>1, <2>2
<1>3. table \in Table
    BY <1>1, <1>2, LoadedIs
<1>4. DevType
    <2>1. n = 1 \/ held = {}
        OBVIOUS
    <2>2. NoRecord \in Record /\ (n = 1 => [key |-> 1, ip |-> 1] \in Record)
        BY <1>1, BoundAssumption DEF Record, NoRecord, BoundAssumption
    <2>3. \A e \in Devices : (IF e \in held THEN [key |-> 1, ip |-> 1] ELSE NoRecord) \in Record
        BY <2>1, <2>2
    <2>4. dev = [e \in Devices |-> IF e \in held THEN [key |-> 1, ip |-> 1] ELSE NoRecord]
        BY <1>1
    <2> HIDE DEF held
    <2>5. dev \in [Devices -> Record]
        BY <2>3, <2>4
    <2>6. peers \in [Addrs -> 0..MaxKeys] /\ made \in 0..MaxKeys
        BY <1>1, BoundAssumption DEF BoundAssumption
    <2> QED BY <1>1, <2>5, <2>6 DEF DevType
<1>5. SnapType /\ FormType
    BY <1>1 DEF SnapType, FormType, NoForm
<1>6. MarksType
    BY <1>1 DEF MarksType, Usable
<1> QED BY <1>2, <1>3, <1>4, <1>5, <1>6 DEF BindType

\* The types, for any constants: tables and rows of known passwords, devices,
\* limits, keys and addresses, whatever the server, the panel, the bot, a reload
\* and a start do.
THEOREM TypeCorrect == Spec => []BindType
<1>1. Init => BindType
    BY TypeInit
<1>2. BindType /\ [Next]_vars => BindType'
    BY TypeStep
<1> QED BY <1>1, <1>2, PTL DEF Spec

-----------------------------------------------------------------------------
(***************************************************************************)
(* The addresses                                                           *)
(***************************************************************************)
Apart(f) ==
    \A d, e \in Devices : d # e /\ f[d].key # 0 /\ f[e].key # 0 =>
        f[d].ip # f[e].ip \/ lost \cap {d, e} # {}

\* The file and what a reload has read come back as memory, so they must be apart
\* as well; and getNextIP, which looks at memory, sees the addresses of the file
\* but for the lost devices.
AddrInv == /\ Apart(dev) /\ Apart(devrows)
           /\ snap.there => Apart(snap.dev)
           /\ \A d \in Devices : devrows[d].key # 0 => dev[d] = devrows[d] \/ d \in lost

LEMMA StepForgets == ASSUME Next PROVE Forget
<1>1. ASSUME NEW u \in Users, NEW d \in Devices, GetConf(u, d) PROVE Forget
    BY <1>1 DEF GetConf
<1>2. ASSUME NEW u \in Users, OpenForm(u) \/ PanelCreate(u) \/ PanelDelete(u) PROVE Forget
    BY <1>2 DEF OpenForm, PanelCreate, PanelDelete
<1>3. ASSUME NEW u \in Users, BotCreate(u) \/ BotDelete(u) PROVE Forget
    BY <1>3 DEF BotCreate, BotDelete
<1>4. ASSUME NEW u \in Users, NEW v \in Users, NEW e \in Entry, PanelUpdate(u, v, e) PROVE Forget
    BY <1>4 DEF PanelUpdate
<1>5. ASSUME NEW u \in Users, NEW on \in BOOLEAN, ProfileUpdate(u, on) \/ BotSwitch(u, on) PROVE Forget
    BY <1>5 DEF ProfileUpdate, BotSwitch
<1>6. ASSUME NEW u \in Users, NEW S \in SUBSET Devices, BotUnbind(u, S) PROVE Forget
    BY <1>6 DEF BotUnbind
<1>7. ASSUME NEW d \in Devices, GetConfKnown(d) \/ BotDeleteDevice(d) PROVE Forget
    BY <1>7 DEF GetConfKnown, BotDeleteDevice
<1>8. StatsSync \/ ReloadRead \/ ReloadFails \/ ReloadInstall \/ Boot \/ Restart => Forget
    BY DEF StatsSync, ReloadRead, ReloadFails, ReloadInstall, Boot, Restart
<1> QED BY <1>1, <1>2, <1>3, <1>4, <1>5, <1>6, <1>7, <1>8 DEF Next

LEMMA AddrStep == ASSUME BindType, AddrInv, [Next]_vars PROVE AddrInv'
<1> USE DEF BindType
<1>1. /\ DevType /\ DevType' /\ DevMoves /\ SnapMoves
      /\ dev \in [Devices -> Record] /\ devrows \in [Devices -> Record]
    BY DevOfStep, SnapOfStep DEF DevType
<1>2. lost \subseteq lost' /\ \A d \in Devices : devrows'[d].key # 0 => dev'[d] = devrows'[d] \/ d \in lost'
    <2>1. CASE Next
        BY <1>1, <2>1, StepForgets, ForgetIs
    <2>2. CASE UNCHANGED vars
        BY <2>2 DEF vars, AddrInv
    <2> QED BY <2>1, <2>2
<1>3. \A f : Apart(f) => Apart(f)'
    BY <1>2 DEF Apart
<1>4. ASSUME NEW f, Apart(f), f \in [Devices -> Record], NEW S PROVE Apart(Drop(f, S))
    BY <1>4, DropIs DEF Apart
<1>5. Apart(dev)' /\ Apart(devrows)'
    <2>1. CASE KeepRecords
        BY <1>3, <2>1 DEF KeepRecords, AddrInv, Apart
    <2>2. CASE NewRecord
        <3>1. PICK d \in Devices, r \in Record :
                  /\ r.ip \in Addrs /\ \A e \in Devices : dev[e].ip # r.ip
                  /\ dev' = [dev EXCEPT ![d] = r] /\ devrows' = [devrows EXCEPT ![d] = r]
            BY <2>2 DEF NewRecord
        <3>2. \A e \in Devices : e # d /\ devrows[e].key # 0 => devrows[e].ip # r.ip \/ e \in lost
            BY <3>1 DEF AddrInv
        <3>3. /\ \A e \in Devices : dev'[e] = IF e = d THEN r ELSE dev[e]
              /\ \A e \in Devices : devrows'[e] = IF e = d THEN r ELSE devrows[e]
            BY <1>1, <3>1
        <3> QED BY <1>2, <3>1, <3>2, <3>3 DEF AddrInv, Apart
    <2>3. CASE DropRecords
        <3>1. PICK S \in SUBSET Devices : /\ dev' = Drop(dev, S)
                                          /\ devrows' = devrows \/ devrows' = Drop(devrows, S)
            BY <2>3 DEF DropRecords
        <3>2. Apart(dev') /\ Apart(devrows')
            BY <1>1, <1>4, <3>1 DEF AddrInv
        <3> QED BY <1>2, <3>2 DEF Apart
    <2>4. CASE LoadRecords
        <3>1. Apart(dev') /\ Apart(devrows')
            BY <2>4 DEF LoadRecords, AddrInv
        <3> QED BY <1>2, <3>1 DEF Apart
    <2>5. CASE StartEmpty
        <3>1. NoRecord.key = 0
            BY DEF NoRecord
        <3>2. Apart(dev') /\ Apart(devrows')
            BY <2>5, <3>1 DEF StartEmpty, Apart, AddrInv
        <3> QED BY <1>2, <3>2 DEF Apart
    <2> QED BY <1>1, <2>1, <2>2, <2>3, <2>4, <2>5 DEF DevMoves
<1>6. ASSUME snap'.there PROVE Apart(snap'.dev)
    <2>1. snap' # NoSnap
        BY <1>6 DEF NoSnap
    <2>2. snap'.dev = devrows \/ (snap.there /\ snap'.dev = snap.dev)
        BY <1>1, <1>6, <2>1 DEF SnapMoves
    <2> QED BY <2>2 DEF AddrInv
<1>7. snap'.there => Apart(snap.dev)'
    BY <1>2, <1>6 DEF Apart
<1> QED BY <1>2, <1>5, <1>7 DEF AddrInv

\* A device in use is the only one with a key, at the start.
LEMMA AddrInit == ASSUME Init PROVE AddrInv
<1>1. PICK d \in Devices : /\ dev = [e \in Devices |-> IF e = d THEN [key |-> 1, ip |-> 1] ELSE NoRecord]
                              \/ dev = [e \in Devices |-> NoRecord]
                           /\ devrows = dev /\ snap = NoSnap
    BY DEF Init
<1>2. NoRecord.key = 0 /\ ~NoSnap.there
    BY DEF NoRecord, NoSnap
<1> QED BY <1>1, <1>2 DEF AddrInv, Apart

\* No two devices are given one address by getNextIP, whatever order of requests,
\* edits, reloads and starts, but for devices whose row in the file was not their
\* record in memory.
THEOREM AddressesApart == Spec => []AddressesDiffer
<1>1. Init => BindType /\ AddrInv
    BY TypeInit, AddrInit
<1>2. BindType /\ AddrInv /\ [Next]_vars => (BindType /\ AddrInv)'
    BY TypeStep, AddrStep
<1>3. AddrInv => AddressesDiffer
    BY DEF AddrInv, Apart, AddressesDiffer
<1> QED BY <1>1, <1>2, <1>3, PTL DEF Spec

-----------------------------------------------------------------------------
(***************************************************************************)
(* The peers                                                               *)
(***************************************************************************)
Maps == {dev, devrows} \cup (IF snap.there THEN {snap.dev} ELSE {})

Agree(f, g) == \A d \in Devices : f[d].key # 0 /\ f[d].key = g[d].key => f[d] = g[d]

\* A key says which record it is of, in memory, in the file and in what a reload
\* has read; without that a load could move the device of a peer elsewhere.
KeyInv == /\ \A f \in Maps, d \in Devices : f[d].key <= made
          /\ \A f, g \in Maps : Agree(f, g)
          /\ PeersKnown

From(m, f) == \A d \in Devices : m[d].key # 0 => m[d] = f[d]

LEMMA MapsType == ASSUME SnapType, DevType PROVE \A f \in Maps : f \in [Devices -> Record]
BY SnapThere DEF Maps, DevType

LEMMA MapsStep ==
    ASSUME BindType, [Next]_vars, NEW m \in Maps'
    PROVE  m \in {dev', devrows'} \/ m \in Maps
<1>1. CASE snap'.there /\ m = snap'.dev
    <2>1. SnapMoves
        BY SnapOfStep
    <2>2. snap' # NoSnap
        BY <1>1 DEF NoSnap
    <2>3. m = devrows \/ (snap.there /\ m = snap.dev)
        BY <1>1, <2>1, <2>2 DEF SnapMoves
    <2> QED BY <2>3 DEF Maps
<1> QED BY <1>1 DEF Maps

LEMMA KeyStep == ASSUME BindType, KeyInv, [Next]_vars PROVE KeyInv'
<1>1. /\ SnapType /\ DevType /\ DevType' /\ DevMoves /\ SnapType'
      /\ dev \in [Devices -> Record] /\ devrows \in [Devices -> Record]
      /\ made \in Nat /\ peers \in [Addrs -> 0..MaxKeys]
    BY DevOfStep, SnapOfStep, BoundAssumption DEF BindType, DevType, BoundAssumption
<1>2. /\ dev \in Maps /\ devrows \in Maps /\ \A f \in Maps : f \in [Devices -> Record]
      /\ \A f \in Maps' : f \in [Devices -> Record]
    <2>1. dev \in Maps /\ devrows \in Maps /\ \A f \in Maps : f \in [Devices -> Record]
        BY <1>1, MapsType DEF Maps
    <2>2. dev' \in [Devices -> Record] /\ devrows' \in [Devices -> Record]
        BY <1>1 DEF DevType
    <2> QED BY <2>1, <2>2, MapsStep
<1>3. ASSUME made' = made, \A m \in {dev', devrows'} : \E f \in Maps : From(m, f)
      PROVE  /\ \A f \in Maps', d \in Devices : f[d].key <= made'
             /\ \A f, g \in Maps' : Agree(f, g)
    <2>1. \A f : From(f, f)
        BY DEF From
    <2>2. \A m \in Maps' : \E f \in Maps : From(m, f)
        BY <1>3, <2>1, MapsStep
    <2>3. ASSUME NEW m \in Maps', NEW d \in Devices PROVE m[d].key <= made'
        <3>1. PICK f \in Maps : From(m, f)
            BY <2>2
        <3>2. CASE m[d].key = 0
            BY <1>1, <1>3, <3>2
        <3>3. CASE m[d].key # 0
            BY <1>3, <3>1, <3>3 DEF From, KeyInv
        <3> QED BY <3>2, <3>3
    <2>4. ASSUME NEW m \in Maps', NEW n \in Maps' PROVE Agree(m, n)
        <3>1. PICK f \in Maps : From(m, f)
            BY <2>2
        <3>2. PICK g \in Maps : From(n, g)
            BY <2>2
        <3>3. Agree(f, g)
            BY DEF KeyInv
        <3> QED BY <3>1, <3>2, <3>3 DEF From, Agree
    <2> QED BY <2>3, <2>4
<1>4. CASE KeepRecords
    <2>1. /\ \A f \in Maps', d \in Devices : f[d].key <= made'
          /\ \A f, g \in Maps' : Agree(f, g)
        BY <1>2, <1>3, <1>4 DEF KeepRecords, From
    <2>2. PeersKnown'
        BY <1>4 DEF KeepRecords, PeersKnown, KeyInv, At
    <2> QED BY <2>1, <2>2 DEF KeyInv
<1>5. CASE NewRecord
    <2>1. PICK d \in Devices, r \in Record :
              /\ dev[d].key = 0 /\ r.key = made + 1 /\ made' = made + 1
              /\ r.ip \in Addrs
              /\ dev' = [dev EXCEPT ![d] = r] /\ devrows' = [devrows EXCEPT ![d] = r]
              /\ peers' \in {peers, Upsert(peers, r)} /\ ghosts \subseteq ghosts'
        BY <1>5 DEF NewRecord
    <2>2. /\ \A e \in Devices : dev'[e] = IF e = d THEN r ELSE dev[e]
          /\ \A e \in Devices : devrows'[e] = IF e = d THEN r ELSE devrows[e]
        BY <1>1, <2>1
    <2>3. ASSUME NEW m \in Maps'
          PROVE  \/ m \in Maps
                 \/ m[d] = r /\ \E f \in Maps : \A e \in Devices \ {d} : m[e] = f[e]
        BY <1>2, <2>2, MapsStep
    <2>4. ASSUME NEW m \in Maps', NEW e \in Devices PROVE m[e].key <= made'
        BY <1>1, <1>2, <2>1, <2>3 DEF KeyInv, Record
    <2>5. ASSUME NEW m \in Maps', NEW n \in Maps', NEW e \in Devices, m[e].key # 0, m[e].key = n[e].key
          PROVE  m[e] = n[e]
        <3>1. CASE e # d
            <4>1. PICK f \in Maps : m[e] = f[e]
                BY <2>3, <3>1
            <4>2. PICK g \in Maps : n[e] = g[e]
                BY <2>3, <3>1
            <4> QED BY <2>5, <4>1, <4>2 DEF KeyInv, Agree
        <3>2. CASE e = d
            <4>1. \A f \in Maps : f[e].key # made + 1
                <5>1. \A f \in Maps : f[e].key <= made /\ f[e].key \in Int
                    BY <1>2 DEF KeyInv, Record
                <5> QED BY <1>1, <5>1
            <4>2. CASE m \in Maps /\ n \in Maps
                BY <2>5, <4>2 DEF KeyInv, Agree
            <4>3. CASE m \notin Maps \/ n \notin Maps
                BY <2>1, <2>3, <2>5, <3>2, <4>1, <4>3
            <4> QED BY <4>2, <4>3
        <3> QED BY <3>1, <3>2
    <2>6. PeersKnown'
        <3>1. \A a \in Addrs : peers'[a] = peers[a] \/ (a = r.ip /\ peers'[a] = r.key)
            BY <1>1, <2>1, PeersAre
        <3>2. r = At(r.key, r.ip)
            BY DEF Record, At
        <3>3. ASSUME NEW a \in Addrs, peers'[a] # 0
              PROVE  (\E e \in Devices : dev'[e] = At(peers'[a], a)) \/ peers'[a] \in ghosts'
            <4>1. CASE a = r.ip /\ peers'[a] = r.key
                BY <2>2, <3>2, <4>1
            <4>2. CASE peers'[a] = peers[a]
                <5>1. (\E e \in Devices : dev[e] = At(peers[a], a)) \/ peers[a] \in ghosts
                    BY <3>3, <4>2 DEF KeyInv, PeersKnown, At
                <5>2. ASSUME NEW e \in Devices, dev[e] = At(peers[a], a)
                      PROVE  dev'[e] = At(peers[a], a)
                    BY <2>1, <2>2, <3>3, <4>2, <5>2 DEF At
                <5> QED BY <2>1, <4>2, <5>1, <5>2
            <4> QED BY <3>1, <4>1, <4>2
        <3> QED BY <3>3 DEF PeersKnown, At
    <2> QED BY <2>4, <2>5, <2>6 DEF KeyInv, Agree
<1>6. CASE DropRecords
    <2>1. PICK S \in SUBSET Devices :
              /\ made' = made /\ dev' = Drop(dev, S)
              /\ devrows' = devrows \/ devrows' = Drop(devrows, S)
              /\ ghosts \subseteq ghosts'
              /\ \A a \in Addrs : peers'[a] # 0 =>
                     peers'[a] = peers[a] /\ (peers[a] \notin KeysOf(dev, S) \/ peers[a] \in ghosts')
        BY <1>6 DEF DropRecords
    <2>2. From(dev', dev) /\ From(devrows', devrows)
        BY <1>1, <2>1, DropIs DEF From
    <2>3. /\ \A f \in Maps', d \in Devices : f[d].key <= made'
          /\ \A f, g \in Maps' : Agree(f, g)
        BY <1>2, <1>3, <2>1, <2>2
    <2>4. ASSUME NEW a \in Addrs, peers'[a] # 0
          PROVE  (\E d \in Devices : dev'[d] = At(peers'[a], a)) \/ peers'[a] \in ghosts'
        <3>1. peers'[a] = peers[a] /\ (peers[a] \notin KeysOf(dev, S) \/ peers[a] \in ghosts')
            BY <2>1, <2>4
        <3>2. (\E d \in Devices : dev[d] = At(peers[a], a)) \/ peers[a] \in ghosts
            BY <2>4, <3>1 DEF KeyInv, PeersKnown, At
        <3>3. ASSUME NEW d \in Devices, dev[d] = At(peers[a], a), peers[a] \notin ghosts'
              PROVE  dev'[d] = At(peers[a], a)
            <4>1. dev[d].key = peers[a] /\ peers[a] # 0
                BY <2>4, <3>1, <3>3 DEF At
            <4>2. d \notin S
                BY <3>1, <3>3, <4>1 DEF KeysOf
            <4>3. dev'[d] = dev[d]
                BY <1>1, <2>1, <4>2, DropIs
            <4> QED BY <3>3, <4>3
        <3> QED BY <2>1, <3>1, <3>2, <3>3
    <2> QED BY <2>3, <2>4 DEF KeyInv, PeersKnown, At
<1>7. CASE LoadRecords
    <2>1. PICK f \in [Devices -> Record] :
              /\ f = devrows \/ (snap.there /\ f = snap.dev)
              /\ made' = made /\ devrows' = devrows /\ dev' = f
              /\ \A a \in Addrs : peers'[a] # 0 =>
                    \/ \E d \in Devices : f[d] = At(peers'[a], a)
                    \/ /\ peers'[a] = peers[a] /\ ghosts \subseteq ghosts'
                       /\ \A d \in Devices : dev[d].key = peers[a] =>
                              f[d].key = peers[a] \/ peers[a] \in ghosts'
        BY <1>7 DEF LoadRecords
    <2>2. f \in Maps
        BY <2>1 DEF Maps
    <2>3. /\ \A g \in Maps', d \in Devices : g[d].key <= made'
          /\ \A g, h \in Maps' : Agree(g, h)
        BY <1>2, <1>3, <2>1, <2>2 DEF From
    <2>4. ASSUME NEW a \in Addrs, peers'[a] # 0, ~\E d \in Devices : f[d] = At(peers'[a], a)
          PROVE  peers'[a] \in ghosts'
        <3>1. /\ peers'[a] = peers[a] /\ ghosts \subseteq ghosts'
              /\ \A d \in Devices : dev[d].key = peers[a] =>
                        f[d].key = peers[a] \/ peers[a] \in ghosts'
            BY <2>1, <2>4
        <3>2. (\E d \in Devices : dev[d] = At(peers[a], a)) \/ peers[a] \in ghosts
            BY <2>4, <3>1 DEF KeyInv, PeersKnown, At
        <3>3. ASSUME NEW d \in Devices, dev[d] = At(peers[a], a) PROVE peers[a] \in ghosts'
            <4>1. dev[d].key = peers[a]
                BY <3>3 DEF At
            <4>2. CASE f[d].key = peers[a]
                <5>1. Agree(dev, f)
                    BY <1>2, <2>2 DEF KeyInv
                <5>2. f[d] = dev[d]
                    BY <2>4, <3>1, <4>1, <4>2, <5>1 DEF Agree
                <5> QED BY <2>4, <3>1, <3>3, <5>2
            <4> QED BY <3>1, <4>1, <4>2
        <3> QED BY <3>1, <3>2, <3>3
    <2> QED BY <2>1, <2>3, <2>4 DEF KeyInv, PeersKnown, At
<1>8. CASE StartEmpty
    <2>1. NoRecord.key = 0
        BY DEF NoRecord
    <2>2. From(dev', dev) /\ (devrows' = devrows \/ devrows' = dev') /\ made' = made
        BY <1>8, <2>1 DEF StartEmpty, From
    <2>3. /\ \A f \in Maps', d \in Devices : f[d].key <= made'
          /\ \A f, g \in Maps' : Agree(f, g)
        BY <1>2, <1>3, <2>2 DEF From
    <2> QED BY <1>8, <2>3 DEF StartEmpty, KeyInv, PeersKnown
<1> QED BY <1>1, <1>4, <1>5, <1>6, <1>7, <1>8 DEF DevMoves

LEMMA KeyInit == ASSUME Init PROVE KeyInv
<1>1. PICK d \in Devices, n \in 0..1 :
          /\ dev = [e \in Devices |-> IF n = 1 /\ e = d THEN [key |-> 1, ip |-> 1] ELSE NoRecord]
          /\ peers = [a \in Addrs |-> IF a = 1 THEN n ELSE 0] /\ made = n
          /\ devrows = dev /\ snap = NoSnap
    <2>1. PICK U \in SUBSET Users, d \in Devices, n \in 0..1, o \in Users :
              LET held == IF n = 1 /\ o \in U THEN {d} ELSE {} IN
              /\ n = 1 => o \in U
              /\ dev = [e \in Devices |-> IF e \in held THEN [key |-> 1, ip |-> 1] ELSE NoRecord]
              /\ peers = [a \in Addrs |-> IF a = 1 THEN n ELSE 0] /\ made = n
              /\ devrows = dev /\ snap = NoSnap
        BY DEF Init
    <2>2. \A e : e \in (IF n = 1 /\ o \in U THEN {d} ELSE {}) <=> n = 1 /\ e = d
        BY <2>1
    <2> QED BY <2>1, <2>2
<1>2. NoRecord.key = 0 /\ ~NoSnap.there /\ Maps = {dev}
    BY <1>1 DEF NoRecord, NoSnap, Maps
<1>3. \A f \in Maps, e \in Devices : f[e].key <= made
    BY <1>1, <1>2
<1>4. PeersKnown
    BY <1>1 DEF PeersKnown
<1> QED BY <1>2, <1>3, <1>4 DEF KeyInv, Agree

\* WireGuard routes an address to nobody but the device that the server has at
\* that address, whichever requests, edits, reloads and starts came before, but
\* for the keys whose record was dropped before the peer was removed, or while the
\* peer was removed from the closed device of an earlier run.
THEOREM PeersAreKnown == Spec => []PeersKnown
<1>1. Init => BindType /\ KeyInv
    BY TypeInit, KeyInit
<1>2. BindType /\ KeyInv /\ [Next]_vars => (BindType /\ KeyInv)'
    BY TypeStep, KeyStep
<1>3. KeyInv => PeersKnown
    BY DEF KeyInv
<1> QED BY <1>1, <1>2, <1>3, PTL DEF Spec

-----------------------------------------------------------------------------
(***************************************************************************)
(* The keys of the WRAP listener                                           *)
(***************************************************************************)
LEMMA EditMarks ==
    ASSUME NEW some, NEW all, NEW why, After(some, all, why)
    PROVE  /\ ~torn' => ~torn /\ all /\ ~why /\ ~behind
           /\ ~halfway' => ~halfway /\ all
           /\ behind' => behind /\ ~some
           /\ behind /\ ~some => behind'
BY DEF After

LEMMA MatchStep == ASSUME BindType, KeysMatch, [Next]_vars PROVE KeysMatch'
<1> USE DEF BindType
<1>1. ASSUME \A u \in Users : /\ table'[u].there <=> table[u].there
                              /\ table'[u].on <=> table[u].on,
             wrap' = wrap, unkeyed \subseteq unkeyed', ~torn' => ~torn
      PROVE  KeysMatch'
    BY <1>1 DEF KeysMatch, Usable, MarksType
<1>2. ASSUME wrap' = Usable(table') PROVE KeysMatch'
    BY <1>2 DEF KeysMatch, Usable
<1>3. ASSUME NEW u \in Users, NEW d \in Devices, GetConf(u, d) PROVE KeysMatch'
    <2>1. table[u].there /\ table' = Bind(table, u, d) /\ wrap' = wrap /\ unkeyed' = unkeyed
        BY <1>3 DEF GetConf, MayBind, Usable
    <2>2. PICK ok \in BOOLEAN : After(ok, ok, Owners(table, d) # {})
        BY <1>3 DEF GetConf
    <2>3. ~torn' => ~torn
        BY <2>2, EditMarks
    <2>4. \A w \in Users : table'[w].there = table[w].there /\ table'[w].on = table[w].on
        BY <2>1 DEF Bind, Table, Entry
    <2> QED BY <1>1, <2>1, <2>3, <2>4
<1>4. ASSUME NEW u \in Users, OpenForm(u) \/ PanelCreate(u) PROVE KeysMatch'
    BY <1>1, <1>4 DEF OpenForm, PanelCreate
<1>5. ASSUME NEW d \in Devices, GetConfKnown(d) PROVE KeysMatch'
    BY <1>1, <1>5 DEF GetConfKnown
<1>6. ASSUME NEW u \in Users, NEW v \in Users, NEW e \in Entry, PanelUpdate(u, v, e) PROVE KeysMatch'
    <2>1. table' = [table EXCEPT ![u] = Absent, ![v] = e] /\ e.there
        BY <1>6 DEF PanelUpdate
    <2>2. ASSUME wrap' = wrap, unkeyed' = unkeyed \cup (Usable(table') \ wrap), ~torn' => ~torn /\ u = v
          PROVE  KeysMatch'
        <3>1. Usable(table') \subseteq wrap' \cup unkeyed'
            BY <2>2
        <3>2. ASSUME ~torn', NEW w \in wrap' PROVE table'[w].there
            <4>1. w \in Users /\ table[w].there /\ u = v
                BY <2>2, <3>2 DEF KeysMatch, MarksType
            <4>2. table'[w] = IF w = v THEN e ELSE table[w]
                BY <2>1, <4>1 DEF Table
            <4> QED BY <2>1, <4>1, <4>2
        <3> QED BY <3>1, <3>2 DEF KeysMatch
    <2>3. CASE Cardinality(e.devs) > e.max
        <3>1. After(FALSE, FALSE, FALSE) /\ wrap' = wrap /\ unkeyed' = unkeyed \cup (Usable(table') \ wrap)
            BY <1>6, <2>3 DEF PanelUpdate
        <3>2. torn'
            BY <3>1, EditMarks
        <3> QED BY <2>2, <3>1, <3>2
    <2>4. CASE ~(Cardinality(e.devs) > e.max)
        <3> DEFINE last == IF u = v THEN 2 ELSE 4
        <3>1. PICK n \in 0..last :
                  /\ After(n > 0, n = last, FALSE)
                  /\ IF n = last /\ u # v
                     THEN wrap' = Usable(table') /\ unkeyed' = {}
                     ELSE wrap' = wrap /\ unkeyed' = unkeyed \cup (Usable(table') \ wrap)
            BY <1>6, <2>4 DEF PanelUpdate
        <3>2. ~torn' => ~torn /\ n = last
            <4> HIDE DEF last
            <4> QED BY <3>1, EditMarks
        <3> QED BY <1>2, <2>2, <3>1, <3>2
    <2> QED BY <2>3, <2>4
<1>7. ASSUME NEW u \in Users, NEW on \in BOOLEAN, ProfileUpdate(u, on) PROVE KeysMatch'
    BY <1>2, <1>7 DEF ProfileUpdate
<1>8. ASSUME NEW u \in Users, table' = [table EXCEPT ![u] = Absent], wrap' \in {wrap, wrap \ {u}},
             unkeyed' = unkeyed, ~torn' => ~torn /\ wrap' = wrap \ {u}
      PROVE  KeysMatch'
    <2>1. \A w \in Users : table'[w] = IF w = u THEN Absent ELSE table[w]
        BY <1>8, EntriesAre
    <2>2. ~Absent.there
        BY DEF Absent
    <2> QED BY <1>8, <2>1, <2>2 DEF KeysMatch, Usable
<1>9. ASSUME NEW u \in Users, PanelDelete(u) PROVE KeysMatch'
    <2>1. table' = [table EXCEPT ![u] = Absent]
        BY <1>9 DEF PanelDelete
    <2>2. PICK ok \in BOOLEAN :
              /\ After(ok, ok, FALSE)
              /\ IF ok THEN DeletedRows(u, table[u].devs) /\ wrap' = Usable(table') /\ unkeyed' = {}
                       ELSE UNCHANGED <<rows, devrows, wrap, unkeyed>>
        BY <1>9 DEF PanelDelete
    <2>3. CASE ok
        BY <1>2, <2>2, <2>3
    <2>4. CASE ~ok
        BY <1>8, <2>1, <2>2, <2>4, EditMarks
    <2> QED BY <2>3, <2>4
<1>10. ASSUME NEW u \in Users, BotDelete(u) PROVE KeysMatch'
    <2>1. table' = [table EXCEPT ![u] = Absent] /\ wrap' = wrap \ {u} /\ unkeyed' = unkeyed
        BY <1>10 DEF BotDelete, RemoveKey
    <2>2. PICK ok \in BOOLEAN : After(ok, ok, FALSE)
        BY <1>10 DEF BotDelete
    <2> QED BY <1>8, <2>1, <2>2, EditMarks
<1>11. ASSUME NEW u \in Users, BotCreate(u) PROVE KeysMatch'
    <2>1. /\ table' = [table EXCEPT ![u] = NewEntry] /\ wrap' = wrap \cup {u} /\ unkeyed' = unkeyed
          /\ After(TRUE, TRUE, FALSE)
        BY <1>11 DEF BotCreate, NewEntry
    <2>2. \A w \in Users : table'[w] = IF w = u THEN NewEntry ELSE table[w]
        BY <2>1, NewEntryIs
    <2>3. NewEntry.there
        BY NewEntryIs
    <2>4. ~torn' => ~torn
        BY <2>1, EditMarks
    <2> QED BY <2>1, <2>2, <2>3, <2>4 DEF KeysMatch, Usable
<1>12. ASSUME NEW u \in Users, NEW S \in SUBSET Devices, BotUnbind(u, S) PROVE KeysMatch'
    <2>1. table' = Unbind(table, u, S) /\ wrap' = wrap /\ unkeyed' = unkeyed
        BY <1>12 DEF BotUnbind
    <2>2. PICK ok \in BOOLEAN : After(ok, ok, FALSE)
        BY <1>12 DEF BotUnbind
    <2>3. \A w \in Users : table'[w] = IF w = u THEN [table[u] EXCEPT !.devs = @ \ S] ELSE table[w]
        BY <2>1 DEF Table, Unbind
    <2>4. \A w \in Users : table'[w].there = table[w].there /\ table'[w].on = table[w].on
        BY <2>3 DEF Table, Entry
    <2> QED BY <1>1, <2>1, <2>2, <2>4, EditMarks
<1>13. ASSUME NEW d \in Devices, BotDeleteDevice(d) PROVE KeysMatch'
    <2>1. table' = [u \in Users |-> [table[u] EXCEPT !.devs = @ \ {d}]] /\ wrap' = wrap /\ unkeyed' = unkeyed
        BY <1>13 DEF BotDeleteDevice
    <2>2. PICK ok \in BOOLEAN : After(ok, ok, \E u \in Users : rows[u].first = d)
        BY <1>13 DEF BotDeleteDevice
    <2>3. \A w \in Users : table'[w].there = table[w].there /\ table'[w].on = table[w].on
        BY <2>1 DEF Table, Entry
    <2>4. ~torn' => ~torn
        BY <2>2, EditMarks
    <2> QED BY <1>1, <2>1, <2>3, <2>4
<1>14. ASSUME NEW u \in Users, NEW on \in BOOLEAN, BotSwitch(u, on) PROVE KeysMatch'
    <2>1. /\ table' = [table EXCEPT ![u].on = on] /\ wrap' = wrap
          /\ unkeyed' = IF on /\ u \notin wrap THEN unkeyed \cup {u} ELSE unkeyed
        BY <1>14 DEF BotSwitch
    <2>2. PICK ok \in BOOLEAN : After(ok, ok, FALSE)
        BY <1>14 DEF BotSwitch
    <2>3. \A w \in Users : table'[w] = IF w = u THEN [table[u] EXCEPT !.on = on] ELSE table[w]
        BY <2>1, EntriesAre
    <2>4. /\ \A w \in Users : table'[w].there = table[w].there
          /\ \A w \in Users \ {u} : table'[w].on = table[w].on
          /\ table'[u].on = on
        BY <2>3 DEF Table, Entry
    <2>5. ~torn' => ~torn
        BY <2>2, EditMarks
    <2> QED BY <2>1, <2>4, <2>5 DEF KeysMatch, Usable
<1>15. CASE StatsSync \/ ReloadInstall \/ Boot \/ Restart
    <2>1. wrap' = Usable(table')
        BY <1>15 DEF StatsSync, ReloadInstall, Boot, Restart, InitDB, Install
    <2> QED BY <1>2, <2>1
<1>16. CASE ReloadRead \/ ReloadFails \/ UNCHANGED vars
    BY <1>1, <1>16 DEF ReloadRead, ReloadFails, vars
<1> QED BY <1>3, <1>4, <1>5, <1>6, <1>7, <1>9, <1>10, <1>11, <1>12, <1>13, <1>14, <1>15, <1>16 DEF Next

\* Every password that may be used has its key in the WRAP listener or was
\* switched on without it, and no key outlives its password unless an edit failed
\* halfway: the keys follow create, rename, switch, delete, reload and start.
THEOREM KeysAreRight == Spec => []KeysMatch
<1>1. Init => BindType /\ KeysMatch
    <2>1. Init => wrap = Usable(table)
        BY DEF Init
    <2> QED BY <2>1, TypeInit DEF KeysMatch, Usable
<1>2. BindType /\ KeysMatch /\ [Next]_vars => (BindType /\ KeysMatch)'
    BY TypeStep, MatchStep
<1> QED BY <1>1, <1>2, PTL DEF Spec

-----------------------------------------------------------------------------
(***************************************************************************)
(* The limits of devices                                                   *)
(***************************************************************************)
\* What a load takes for the devices of a row.
Owned(x) == x.devs \cup ({x.first} \ {NoDevice})

\* An entry of memory and its row: the row of a password there is has its limit,
\* a row that is gone has no devices, and the two together keep the limit: an edit
\* may write the devices of one beside the device_id of the other.
Fits(y, x) == /\ y.there => x.there /\ x.max = y.max
              /\ ~x.there => x.devs = {} /\ x.first = NoDevice
              /\ Cardinality(Owned(x) \cup y.devs) <= x.max

\* What a reload has read is the row as it is now, unless an edit crossed it.
Fresh == snap.there /\ ~snap.crossed => \A u \in Users : snap.rows[u].there => rows[u] = snap.rows[u]

LimitInv == ~halfway => Fresh /\ \A u \in Users : Fits(table[u], rows[u])

LEMMA CardIs ==
    ASSUME NEW S \in SUBSET Devices
    PROVE  /\ IsFiniteSet(S) /\ Cardinality(S) \in Nat
           /\ \A T \in SUBSET S : Cardinality(T) <= Cardinality(S)
           /\ \A d \in Devices : Cardinality(S \cup {d}) <= Cardinality(S) + 1
<1>1. IsFiniteSet(S)
    BY FiniteAssumption, FS_Subset DEF FiniteAssumption
<1>2. Cardinality(S) \in Nat
    BY <1>1, FS_CardinalityType
<1>3. \A T \in SUBSET S : Cardinality(T) <= Cardinality(S)
    BY <1>1, FS_Subset
<1>4. ASSUME NEW d \in Devices PROVE Cardinality(S \cup {d}) <= Cardinality(S) + 1
    <2>1. Cardinality(S \cup {d}) = Cardinality(S) \/ Cardinality(S \cup {d}) = Cardinality(S) + 1
        <3>1. CASE d \in S
            <4>1. S \cup {d} = S
                BY <3>1
            <4> QED BY <4>1
        <3>2. CASE d \notin S
            BY <1>1, <3>2, FS_AddElement
        <3> QED BY <3>1, <3>2
    <2> QED BY <1>2, <2>1
<1> QED BY <1>1, <1>2, <1>3, <1>4

LEMMA OwnedIs ==
    ASSUME NEW x \in Row
    PROVE  /\ Owned(x) \in SUBSET Devices /\ x.max \in Nat /\ x.there \in BOOLEAN
           /\ x.devs \subseteq Owned(x)
BY BoundAssumption DEF Row, Owned, BoundAssumption

LEMMA EntryIs ==
    ASSUME NEW y \in Entry
    PROVE  y.devs \in SUBSET Devices /\ y.max \in Nat /\ y.there \in BOOLEAN /\ y.on \in BOOLEAN
BY BoundAssumption DEF Entry, BoundAssumption

\* Fewer devices for the same limit.
LEMMA FitsLess ==
    ASSUME NEW x \in Row, NEW y \in Entry, Fits(y, x), NEW xx \in Row, NEW yy \in Entry,
           xx.max = x.max, Owned(xx) \cup yy.devs \subseteq Owned(x) \cup y.devs,
           yy.there => xx.there /\ xx.max = yy.max,
           ~xx.there => xx.devs = {} /\ xx.first = NoDevice
    PROVE  Fits(yy, xx)
<1>1. /\ Owned(x) \cup y.devs \in SUBSET Devices /\ Owned(xx) \cup yy.devs \in SUBSET Devices
      /\ x.max \in Nat
    BY OwnedIs, EntryIs
<1>2. /\ Cardinality(Owned(xx) \cup yy.devs) <= Cardinality(Owned(x) \cup y.devs)
      /\ Cardinality(Owned(xx) \cup yy.devs) \in Nat /\ Cardinality(Owned(x) \cup y.devs) \in Nat
    BY <1>1, CardIs
<1>3. Cardinality(Owned(xx) \cup yy.devs) <= xx.max
    BY <1>1, <1>2 DEF Fits
<1> QED BY <1>3 DEF Fits

\* A row that repeats its entry.
LEMMA FitsSame ==
    ASSUME NEW y \in Entry, NEW x \in Row, x.there, x.max = y.max, x.devs = y.devs,
           x.first \in Firsts(y.devs), Cardinality(y.devs) <= y.max
    PROVE  Fits(y, x)
<1>1. Owned(x) \cup y.devs = y.devs
    BY DEF Owned, Firsts
<1> QED BY <1>1 DEF Fits

LEMMA FitsAbsent == Fits(Absent, NoRow)
<1>1. Owned(NoRow) \cup Absent.devs = {} /\ ~Absent.there /\ NoRow.devs = {} /\ NoRow.first = NoDevice
      /\ NoRow.max = 0
    BY DEF Owned, NoRow, Absent
<1> QED BY <1>1, FS_EmptySet DEF Fits

\* What a load makes of a row.
LEMMA LoadIs ==
    ASSUME NEW r \in [Users -> Row], NEW t \in Deduped(Loaded(r))
    PROVE  /\ t \in Table /\ Single(t)
           /\ \A u \in Users : /\ t[u] \in Entry
                               /\ t[u].there = r[u].there
                               /\ r[u].there => t[u].max = r[u].max /\ t[u].devs \subseteq Owned(r[u])
                               /\ ~r[u].there => t[u].devs = {}
<1>1. Loaded(r) \in Table
    BY LoadedIs
<1>2. t \in Table /\ Single(t)
    BY <1>1, DedupedIs
<1>3. ASSUME NEW u \in Users
      PROVE  /\ t[u] \in Entry
             /\ t[u].there = r[u].there
             /\ r[u].there => t[u].max = r[u].max /\ t[u].devs \subseteq Owned(r[u])
             /\ ~r[u].there => t[u].devs = {}
    <2>1. /\ t[u] \in Entry /\ t[u].there = Loaded(r)[u].there
          /\ t[u].max = Loaded(r)[u].max /\ t[u].devs \subseteq Loaded(r)[u].devs
        BY <1>1, <1>2, DedupedIs DEF Table
    <2>2. /\ Loaded(r)[u].there = r[u].there
          /\ r[u].there => Loaded(r)[u].max = r[u].max /\ Loaded(r)[u].devs = Owned(r[u])
          /\ ~r[u].there => Loaded(r)[u] = Absent
        BY LoadedIs DEF Owned
    <2> QED BY <2>1, <2>2 DEF Absent
<1> QED BY <1>2, <1>3

LEMMA LoadFits ==
    ASSUME NEW r \in [Users -> Row], NEW t \in Deduped(Loaded(r)), NEW u \in Users,
           NEW y \in Entry, Fits(y, r[u])
    PROVE  Fits(t[u], r[u]) /\ Cardinality(t[u].devs) <= t[u].max
<1>1. r[u] \in Row /\ t[u] \in Entry
    BY LoadIs
<1>2. /\ t[u].there = r[u].there
      /\ r[u].there => t[u].max = r[u].max /\ t[u].devs \subseteq Owned(r[u])
      /\ ~r[u].there => t[u].devs = {}
    BY LoadIs
<1>3. Fits(t[u], r[u])
    <2>1. Owned(r[u]) \cup t[u].devs \subseteq Owned(r[u]) \cup y.devs
        BY <1>2
    <2> QED BY <1>1, <1>2, <2>1, FitsLess DEF Fits
<1>4. CASE r[u].there
    <2>1. Owned(r[u]) \cup t[u].devs \in SUBSET Devices /\ t[u].devs \subseteq Owned(r[u]) \cup t[u].devs
        BY <1>1, OwnedIs, EntryIs
    <2>2. /\ Cardinality(t[u].devs) <= Cardinality(Owned(r[u]) \cup t[u].devs)
          /\ Cardinality(t[u].devs) \in Nat /\ Cardinality(Owned(r[u]) \cup t[u].devs) \in Nat
        BY <1>1, <2>1, CardIs, EntryIs
    <2>3. Cardinality(Owned(r[u]) \cup t[u].devs) <= t[u].max /\ t[u].max \in Nat
        BY <1>1, <1>2, <1>3, <1>4, EntryIs DEF Fits
    <2> QED BY <1>3, <2>2, <2>3
<1>5. CASE ~r[u].there
    <2>1. Cardinality(t[u].devs) = 0
        BY <1>2, <1>5, FS_EmptySet
    <2>2. t[u].max \in Nat
        BY <1>1, EntryIs
    <2> QED BY <1>3, <2>1, <2>2
<1> QED BY <1>4, <1>5

LEMMA EditCrosses ==
    ASSUME SnapType, NEW some, NEW all, NEW why, After(some, all, why)
    PROVE  snap'.there => snap'.crossed
<1>1. CASE snap.there
    <2>1. snap \in Snap
        BY <1>1, SnapThere
    <2>2. snap' = [snap EXCEPT !.crossed = TRUE, !.newer = snap.newer /\ ~some]
        BY <1>1 DEF After
    <2> QED BY <2>1, <2>2 DEF Snap
<1>2. CASE ~snap.there
    BY <1>2 DEF After
<1> QED BY <1>1, <1>2

LEMMA LimitStep == ASSUME BindType, BindType', LimitInv, [Next]_vars PROVE LimitInv'
<1> USE DEF BindType
<1>0. /\ \A w \in Users : table[w] \in Entry /\ rows[w] \in Row
      /\ \A w \in Users : table'[w] \in Entry /\ rows'[w] \in Row
      /\ rows \in [Users -> Row] /\ table \in Table /\ SnapType
    BY DEF Table
<1>1. ASSUME NEW some, NEW all, NEW why, After(some, all, why),
             ~halfway /\ all => \A w \in Users : Fits(table'[w], rows'[w])
      PROVE  LimitInv'
    <2>1. snap'.there => snap'.crossed
        BY <1>1, EditCrosses
    <2>2. ~halfway' => ~halfway /\ all
        BY <1>1, EditMarks
    <2> QED BY <1>1, <2>1, <2>2 DEF LimitInv, Fresh
<1>2. ASSUME NEW u \in Users, NEW d \in Devices, GetConf(u, d) PROVE LimitInv'
    <2>1. /\ table[u].there /\ Cardinality(table[u].devs) < table[u].max
          /\ table' = Bind(table, u, d)
        BY <1>2 DEF GetConf, MayBind, Usable
    <2>2. PICK ok \in BOOLEAN :
              /\ After(ok, ok, Owners(table, d) # {})
              /\ ok => \E f \in table'[u].devs : rows' = WriteBindings(rows, u, table'[u].devs, f)
        BY <1>2 DEF GetConf
    <2>3. ASSUME ~halfway, ok PROVE \A w \in Users : Fits(table'[w], rows'[w])
        <3>1. PICK f \in table'[u].devs : rows' = WriteBindings(rows, u, table'[u].devs, f)
            BY <2>2, <2>3
        <3>2. \A w \in Users : /\ table'[w].there = table[w].there /\ table'[w].max = table[w].max
                               /\ table'[w].devs = IF w = u THEN table[w].devs \cup {d}
                                                   ELSE table[w].devs \ {d}
            BY <2>1 DEF Bind, Table, Entry
        <3>3. \A w \in Users : Fits(table[w], rows[w])
            BY <2>3 DEF LimitInv
        <3>4. f \in Devices \cup {NoDevice}
            BY <1>0 DEF Entry
        <3>5. ASSUME NEW e \in Entry, NEW r, r = WriteBindings(rows, u, e.devs, f)
              PROVE  /\ \A w \in Users \ {u} : r[w] = rows[w]
                     /\ r[u].max = rows[u].max /\ r[u].devs = e.devs
                     /\ rows[u].there => r[u].there /\ r[u].first = f
            BY ONLY rows \in [Users -> Row], u \in Users, e \in Entry, <3>4, <3>5, BindingsAre
        <3>6. /\ \A w \in Users \ {u} : rows'[w] = rows[w]
              /\ rows'[u].max = rows[u].max /\ rows'[u].devs = table'[u].devs
              /\ rows[u].there => rows'[u].there /\ rows'[u].first = f
            BY <1>0, <3>1, <3>5
        <3>7. ASSUME NEW w \in Users, w # u PROVE Fits(table'[w], rows'[w])
            <4>1. /\ rows'[w] = rows[w] /\ table'[w].there = table[w].there
                  /\ table'[w].max = table[w].max /\ table'[w].devs = table[w].devs \ {d}
                BY <3>2, <3>6, <3>7
            <4>2. Owned(rows[w]) \cup table'[w].devs \subseteq Owned(rows[w]) \cup table[w].devs
                BY <4>1
            <4>3. Fits(table[w], rows[w])
                BY <3>3
            <4> QED BY <1>0, <4>1, <4>2, <4>3, FitsLess DEF Fits
        <3>8. Fits(table'[u], rows'[u])
            <4>1. rows[u].there /\ rows[u].max = table[u].max
                BY <2>1, <3>3 DEF Fits
            <4>2. rows'[u].first \in Firsts(table'[u].devs)
                BY <3>6, <4>1 DEF Firsts
            <4>3. Cardinality(table'[u].devs) <= table'[u].max
                <5>1. table[u].devs \in SUBSET Devices /\ table[u].max \in Nat
                    BY <1>0, EntryIs
                <5>2. /\ Cardinality(table[u].devs \cup {d}) <= Cardinality(table[u].devs) + 1
                      /\ Cardinality(table[u].devs) \in Nat
                    BY <5>1, CardIs
                <5>3. Cardinality(table[u].devs \cup {d}) \in Nat
                    <6>1. table[u].devs \cup {d} \in SUBSET Devices
                        BY <5>1
                    <6> QED BY <6>1, CardIs
                <5>4. table'[u].devs = table[u].devs \cup {d} /\ table'[u].max = table[u].max
                    BY <3>2
                <5> QED BY <2>1, <5>1, <5>2, <5>3, <5>4
            <4>4. rows'[u].there /\ rows'[u].max = table'[u].max /\ rows'[u].devs = table'[u].devs
                BY <3>2, <3>6, <4>1
            <4> QED BY <1>0, <4>2, <4>3, <4>4, FitsSame
        <3> QED BY <3>7, <3>8
    <2> QED BY <1>1, <2>2, <2>3
<1>3. ASSUME table' = table, rows' = rows, halfway' = halfway, SnapMoves PROVE LimitInv'
    <2>1. ASSUME Fresh PROVE Fresh'
        <3>1. ASSUME snap'.there, ~snap'.crossed
              PROVE  \A w \in Users : snap'.rows[w].there => rows[w] = snap'.rows[w]
            <4>1. snap' # NoSnap
                BY <3>1 DEF NoSnap
            <4>2. snap'.rows = rows \/ (snap.there /\ ~snap.crossed /\ snap'.rows = snap.rows)
                BY <1>3, <3>1, <4>1 DEF SnapMoves
            <4> QED BY <2>1, <4>2 DEF Fresh
        <3> QED BY <1>3, <3>1 DEF Fresh
    <2> QED BY <1>3, <2>1 DEF LimitInv
<1>4. ASSUME NEW d \in Devices, GetConfKnown(d) PROVE LimitInv'
    BY <1>3, <1>4, SnapOfStep DEF GetConfKnown
<1>5. CASE ReloadRead \/ ReloadFails \/ (\E u \in Users : OpenForm(u)) \/ UNCHANGED vars
    BY <1>3, <1>5, SnapOfStep DEF ReloadRead, ReloadFails, OpenForm, vars
<1>6. ASSUME NEW u \in Users, PanelCreate(u) PROVE LimitInv'
    <2>1. PICK m \in 1..MaxSlots :
              rows' = [rows EXCEPT ![u] = [rows[u] EXCEPT !.there = TRUE, !.on = TRUE, !.max = m,
                                                          !.first = NoDevice]]
        BY <1>6 DEF PanelCreate
    <2>2. ~rows[u].there /\ table' = table /\ halfway' = halfway
        BY <1>6 DEF PanelCreate
    <2>3. /\ \A w \in Users \ {u} : rows'[w] = rows[w]
          /\ rows'[u].there /\ rows'[u].max = m /\ rows'[u].devs = rows[u].devs
          /\ rows'[u].first = NoDevice
        <3>1. ASSUME NEW x \in Row, NEW y,
                     y = [x EXCEPT !.there = TRUE, !.on = TRUE, !.max = m, !.first = NoDevice]
              PROVE  y.there /\ y.max = m /\ y.devs = x.devs /\ y.first = NoDevice
            BY ONLY <3>1 DEF Row
        <3> QED BY <1>0, <2>1, <3>1
    <2>4. ASSUME ~halfway PROVE \A w \in Users : Fits(table'[w], rows'[w])
        <3>1. \A w \in Users : Fits(table[w], rows[w])
            BY <2>4 DEF LimitInv
        <3>2. rows[u].devs = {} /\ ~table[u].there
            BY <2>2, <3>1 DEF Fits
        <3>3. table[u].devs = {}
            BY <1>0, <3>2 DEF Table
        <3>4. Owned(rows'[u]) \cup table[u].devs = {}
            BY <2>3, <3>2, <3>3 DEF Owned
        <3>5. Fits(table[u], rows'[u])
            <4>1. Cardinality(Owned(rows'[u]) \cup table[u].devs) = 0
                BY <3>4, FS_EmptySet
            <4>2. m \in Nat /\ 0 <= m
                OBVIOUS
            <4> QED BY <2>3, <3>2, <4>1, <4>2 DEF Fits
        <3> QED BY <2>2, <2>3, <3>1, <3>5
    <2>5. ASSUME Fresh PROVE Fresh'
        <3>1. snap'.there <=> snap.there
            BY <1>6, SnapThere DEF PanelCreate, Snap
        <3>2. snap.there => snap'.rows = snap.rows /\ snap'.crossed = snap.crossed
            BY <1>6, SnapThere DEF PanelCreate, Snap
        <3> QED BY <2>2, <2>3, <2>5, <3>1, <3>2 DEF Fresh
    <2> QED BY <2>2, <2>4, <2>5 DEF LimitInv
<1>7. ASSUME NEW u \in Users, NEW v \in Users, NEW e \in Entry, PanelUpdate(u, v, e) PROVE LimitInv'
    <2>1. table' = [table EXCEPT ![u] = Absent, ![v] = e] /\ e.there
        BY <1>7 DEF PanelUpdate
    <2>2. CASE Cardinality(e.devs) > e.max
        BY <1>1, <1>7, <2>2 DEF PanelUpdate
    <2>3. CASE ~(Cardinality(e.devs) > e.max)
        <3> DEFINE last == IF u = v THEN 2 ELSE 4
        <3>1. PICK n \in 0..last, f \in Firsts(e.devs) :
                  After(n > 0, n = last, FALSE) /\ rows' = Written(u, v, e, f, n)
            BY <1>7, <2>3 DEF PanelUpdate
        <3>2. Cardinality(e.devs) <= e.max
            BY <2>3, EntryIs, CardIs
        <3>3. \A w \in Users : table'[w] = IF w = v THEN e ELSE IF w = u THEN Absent ELSE table[w]
            BY <2>1 DEF Table
        <3>4. ASSUME ~halfway, n = last PROVE \A w \in Users : Fits(table'[w], rows'[w])
            <4>1. /\ RowOf(rows'[v], e, f)
                  /\ u # v => rows'[u] = NoRow
                  /\ \A w \in Users \ {u, v} : rows'[w] = rows[w]
                BY <1>0, <3>1, <3>4, WrittenIs
            <4>2. Fits(e, rows'[v])
                BY <1>0, <2>1, <3>2, <4>1, FitsSame DEF RowOf
            <4>3. \A w \in Users : Fits(table[w], rows[w])
                BY <3>4 DEF LimitInv
            <4> QED BY <3>3, <4>1, <4>2, <4>3, FitsAbsent
        <3> HIDE DEF last
        <3> QED BY <1>1, <3>1, <3>4
    <2> QED BY <2>2, <2>3
<1>8. ASSUME NEW u \in Users, NEW on \in BOOLEAN, ProfileUpdate(u, on) PROVE LimitInv'
    <2>1. table[u].there /\ table' = [table EXCEPT ![u].on = on]
        BY <1>8 DEF ProfileUpdate
    <2>2. PICK ok \in BOOLEAN :
              After(ok, ok, FALSE) /\ (ok => \E f \in Firsts(table[u].devs) : rows' = WriteUser(rows, u, table'[u], f))
        BY <1>8 DEF ProfileUpdate
    <2>3. ASSUME ~halfway, ok PROVE \A w \in Users : Fits(table'[w], rows'[w])
        <3>1. PICK f \in Firsts(table[u].devs) : rows' = WriteUser(rows, u, table'[u], f)
            BY <2>2, <2>3
        <3>2. f \in Devices \cup {NoDevice}
            BY <1>0 DEF Entry, Firsts
        <3>3. /\ \A w \in Users \ {u} : rows'[w] = rows[w]
              /\ rows'[u].there /\ rows'[u].max = table'[u].max
              /\ rows'[u].devs = rows[u].devs /\ rows'[u].first = f
            <4>1. ASSUME NEW y \in Entry, NEW r, r = WriteUser(rows, u, y, f)
                  PROVE  /\ \A w \in Users \ {u} : r[w] = rows[w]
                         /\ r[u].there /\ r[u].max = y.max
                         /\ r[u].devs = rows[u].devs /\ r[u].first = f
                BY <1>0, <3>2, <4>1, UserRowIs
            <4> QED BY <1>0, <3>1, <4>1
        <3>4. \A w \in Users : /\ w # u => table'[w] = table[w]
                               /\ table'[w].there = table[w].there /\ table'[w].max = table[w].max
                               /\ table'[w].devs = table[w].devs
            BY <2>1 DEF Table, Entry
        <3>5. \A w \in Users : Fits(table[w], rows[w])
            BY <2>3 DEF LimitInv
        <3>6. rows[u].max = table[u].max
            BY <2>1, <3>5 DEF Fits
        <3>7. Owned(rows'[u]) \cup table'[u].devs \subseteq Owned(rows[u]) \cup table[u].devs
            BY <3>1, <3>3, <3>4 DEF Owned, Firsts
        <3>8. Fits(table'[u], rows'[u])
            BY <1>0, <3>3, <3>4, <3>5, <3>6, <3>7, FitsLess
        <3> QED BY <3>3, <3>4, <3>5, <3>8
    <2> QED BY <1>1, <2>2, <2>3
<1>9. ASSUME NEW u \in Users, PanelDelete(u) \/ BotDelete(u) PROVE LimitInv'
    <2>1. table' = [table EXCEPT ![u] = Absent]
        BY <1>9 DEF PanelDelete, BotDelete
    <2>2. PICK ok \in BOOLEAN : After(ok, ok, FALSE) /\ (ok => rows' = [rows EXCEPT ![u] = NoRow])
        BY <1>9 DEF PanelDelete, BotDelete, DeletedRows
    <2>3. ASSUME ~halfway, ok PROVE \A w \in Users : Fits(table'[w], rows'[w])
        <3>1. /\ \A w \in Users : table'[w] = IF w = u THEN Absent ELSE table[w]
              /\ \A w \in Users : rows'[w] = IF w = u THEN NoRow ELSE rows[w]
            BY <1>0, <2>1, <2>2, <2>3 DEF Table
        <3> QED BY <2>3, <3>1, FitsAbsent DEF LimitInv
    <2> QED BY <1>1, <2>2, <2>3
<1>10. ASSUME NEW u \in Users, BotCreate(u) PROVE LimitInv'
    <2>1. /\ ~table[u].there /\ ~rows[u].there
          /\ table' = [table EXCEPT ![u] = NewEntry] /\ rows' = WriteUser(rows, u, table'[u], NoDevice)
          /\ After(TRUE, TRUE, FALSE)
        BY <1>10 DEF BotCreate, NewEntry
    <2>2. /\ NewEntry \in Entry /\ NewEntry.there /\ NewEntry.max = 1 /\ NewEntry.devs = {}
          /\ \A w \in Users : table'[w] = IF w = u THEN NewEntry ELSE table[w]
        <3> HIDE DEF LimitInv
        <3>1. /\ NewEntry \in Entry /\ NewEntry.there /\ NewEntry.max = 1 /\ NewEntry.devs = {}
              /\ \A w \in Users : [table EXCEPT ![u] = NewEntry][w] = IF w = u THEN NewEntry ELSE table[w]
            BY <1>0, NewEntryIs
        <3> QED BY <2>1, <3>1
    <2>3. rows' = WriteUser(rows, u, NewEntry, NoDevice)
        BY <2>1, <2>2
    <2>4. /\ \A w \in Users \ {u} : rows'[w] = rows[w]
          /\ rows'[u].there /\ rows'[u].max = 1
          /\ rows'[u].devs = rows[u].devs /\ rows'[u].first = NoDevice
        BY <1>0, <2>2, <2>3, UserRowIs
    <2>5. ASSUME ~halfway PROVE \A w \in Users : Fits(table'[w], rows'[w])
        <3>1. \A w \in Users : Fits(table[w], rows[w])
            BY <2>5 DEF LimitInv
        <3>2. rows'[u].devs = {}
            BY <2>1, <2>4, <3>1 DEF Fits
        <3>3. Cardinality(NewEntry.devs) <= NewEntry.max
            BY <2>2, FS_EmptySet
        <3>4. Fits(NewEntry, rows'[u])
            BY <1>0, <2>2, <2>4, <3>2, <3>3, FitsSame DEF Firsts
        <3> QED BY <2>2, <2>4, <3>1, <3>4
    <2> QED BY <1>1, <2>1, <2>5
<1>11. ASSUME NEW u \in Users, NEW S \in SUBSET Devices, BotUnbind(u, S) PROVE LimitInv'
    <2>1. table[u].there /\ table' = Unbind(table, u, S)
        BY <1>11 DEF BotUnbind
    <2>2. PICK ok \in BOOLEAN :
              /\ After(ok, ok, FALSE)
              /\ ok => \E f \in Firsts(table'[u].devs) : rows' = WriteBindings(rows, u, table'[u].devs, f)
        BY <1>11 DEF BotUnbind
    <2>3. ASSUME ~halfway, ok PROVE \A w \in Users : Fits(table'[w], rows'[w])
        <3>1. PICK f \in Firsts(table'[u].devs) : rows' = WriteBindings(rows, u, table'[u].devs, f)
            BY <2>2, <2>3
        <3>2. \A w \in Users : /\ w # u => table'[w] = table[w]
                               /\ table'[w].there = table[w].there /\ table'[w].max = table[w].max
                               /\ table'[w].devs \subseteq table[w].devs
            BY <2>1 DEF Unbind, Table, Entry
        <3>3. \A w \in Users : Fits(table[w], rows[w])
            BY <2>3 DEF LimitInv
        <3>4. f \in Devices \cup {NoDevice}
            BY <1>0 DEF Entry, Firsts
        <3>5. ASSUME NEW e \in Entry, NEW r, r = WriteBindings(rows, u, e.devs, f)
              PROVE  /\ \A w \in Users \ {u} : r[w] = rows[w]
                     /\ r[u].max = rows[u].max /\ r[u].devs = e.devs
                     /\ rows[u].there => r[u].there /\ r[u].first = f
            BY ONLY rows \in [Users -> Row], u \in Users, e \in Entry, <3>4, <3>5, BindingsAre
        <3>6. /\ \A w \in Users \ {u} : rows'[w] = rows[w]
              /\ rows'[u].max = rows[u].max /\ rows'[u].devs = table'[u].devs
              /\ rows[u].there => rows'[u].there /\ rows'[u].first = f
            BY <1>0, <3>1, <3>5
        <3>7. rows[u].there /\ rows[u].max = table[u].max
            BY <2>1, <3>3 DEF Fits
        <3>8. Owned(rows'[u]) \cup table'[u].devs \subseteq Owned(rows[u]) \cup table[u].devs
            BY <3>1, <3>2, <3>6, <3>7 DEF Owned, Firsts
        <3>9. Fits(table'[u], rows'[u])
            BY <1>0, <3>2, <3>3, <3>6, <3>7, <3>8, FitsLess
        <3> QED BY <3>2, <3>3, <3>6, <3>9
    <2> QED BY <1>1, <2>2, <2>3
<1>12. ASSUME NEW d \in Devices, BotDeleteDevice(d) PROVE LimitInv'
    <2>1. table' = [u \in Users |-> [table[u] EXCEPT !.devs = @ \ {d}]]
        BY <1>12 DEF BotDeleteDevice
    <2>2. PICK ok \in BOOLEAN :
              /\ After(ok, ok, \E u \in Users : rows[u].first = d)
              /\ ok => rows' = [u \in Users |-> [rows[u] EXCEPT !.devs = @ \ {d}]]
        BY <1>12 DEF BotDeleteDevice
    <2>3. ASSUME ~halfway, ok, NEW w \in Users PROVE Fits(table'[w], rows'[w])
        <3>1. /\ table'[w].there = table[w].there /\ table'[w].max = table[w].max
              /\ table'[w].devs \subseteq table[w].devs
            BY <2>1 DEF Table, Entry
        <3>2. /\ rows'[w].there = rows[w].there /\ rows'[w].max = rows[w].max
              /\ rows'[w].devs = rows[w].devs \ {d} /\ rows'[w].first = rows[w].first
            BY <2>2, <2>3 DEF Row
        <3>3. Fits(table[w], rows[w])
            BY <2>3 DEF LimitInv
        <3>4. Owned(rows'[w]) \cup table'[w].devs \subseteq Owned(rows[w]) \cup table[w].devs
            BY <3>1, <3>2 DEF Owned
        <3>5. /\ table'[w].there => rows'[w].there /\ rows'[w].max = table'[w].max
              /\ ~rows'[w].there => rows'[w].devs = {} /\ rows'[w].first = NoDevice
            BY <3>1, <3>2, <3>3 DEF Fits
        <3> QED BY <1>0, <3>2, <3>3, <3>4, <3>5, FitsLess
    <2> DEFINE some == \E u \in Users : rows[u].first = d
    <2>4. After(ok, ok, some)
        BY <2>2
    <2> HIDE DEF some
    <2> QED BY <1>1, <2>3, <2>4
<1>13. ASSUME NEW u \in Users, NEW on \in BOOLEAN, BotSwitch(u, on) PROVE LimitInv'
    <2>1. table' = [table EXCEPT ![u].on = on]
        BY <1>13 DEF BotSwitch
    <2>2. PICK ok \in BOOLEAN :
              /\ After(ok, ok, FALSE)
              /\ rows' = IF ok /\ rows[u].there THEN [rows EXCEPT ![u].on = on] ELSE rows
        BY <1>13 DEF BotSwitch
    <2>3. ASSUME ~halfway, NEW w \in Users PROVE Fits(table'[w], rows'[w])
        <3>1. /\ table'[w].there = table[w].there /\ table'[w].max = table[w].max
              /\ table'[w].devs = table[w].devs
            BY <2>1 DEF Table, Entry
        <3>2. /\ rows'[w].there = rows[w].there /\ rows'[w].max = rows[w].max
              /\ rows'[w].devs = rows[w].devs /\ rows'[w].first = rows[w].first
            BY <1>0, <2>2 DEF Row
        <3> QED BY <2>3, <3>1, <3>2 DEF LimitInv, Fits, Owned
    <2> QED BY <1>1, <2>2, <2>3
<1>14. CASE StatsSync
    <2>1. table' \in Deduped(Loaded(rows)) /\ rows' = rows /\ halfway' = halfway
        BY <1>14 DEF StatsSync, Install
    <2>2. snap'.there => snap'.crossed
        BY <1>14, SnapThere DEF StatsSync, Snap
    <2>3. ASSUME ~halfway, NEW w \in Users PROVE Fits(table'[w], rows[w])
        BY <1>0, <2>1, <2>3, LoadFits DEF LimitInv
    <2> QED BY <2>1, <2>2, <2>3 DEF LimitInv, Fresh
<1>15. CASE ReloadInstall
    <2>1. /\ snap.there /\ table' \in Deduped(Loaded(snap.rows)) /\ rows' = rows
          /\ halfway' = (halfway \/ snap.crossed) /\ snap' = NoSnap
        BY <1>15 DEF ReloadInstall, Install
    <2>2. snap.rows \in [Users -> Row]
        BY <2>1, SnapThere
    <2>3. ASSUME ~halfway', NEW w \in Users PROVE Fits(table'[w], rows[w])
        <3>1. ~halfway /\ ~snap.crossed
            BY <2>1, <2>3
        <3>2. snap.rows[w].there => rows[w] = snap.rows[w]
            BY <2>1, <3>1 DEF LimitInv, Fresh
        <3>3. Fits(table[w], rows[w])
            BY <3>1 DEF LimitInv
        <3>4. CASE snap.rows[w].there
            BY <1>0, <2>1, <2>2, <3>2, <3>3, <3>4, LoadFits
        <3>5. CASE ~snap.rows[w].there
            <4>1. ~table'[w].there /\ table'[w].devs = {}
                BY <2>1, <2>2, <3>5, LoadIs
            <4>2. Owned(rows[w]) \cup table'[w].devs \subseteq Owned(rows[w]) \cup table[w].devs
                BY <4>1
            <4> QED BY <1>0, <3>3, <4>1, <4>2, FitsLess DEF Fits
        <3> QED BY <3>4, <3>5
    <2> QED BY <2>1, <2>3 DEF LimitInv, Fresh, NoSnap
<1>16. CASE Boot \/ Restart
    <2>1. PICK read \in BOOLEAN, ok \in BOOLEAN :
              /\ InitDB(read, ok)
              /\ \/ snap' = NoSnap
                 \/ snap' = IF snap.there
                           THEN [snap EXCEPT !.crossed = @ \/ ok, !.newer = @ /\ ~ok] ELSE snap
        BY <1>16 DEF Boot, Restart
    <2>2. /\ read => table' \in Deduped(Loaded(rows))
          /\ ~read => \A w \in Users : table'[w] = Absent
          /\ ~ok => rows' = rows
          /\ ok => \E f \in [Users -> Devices \cup {NoDevice}] :
                \A w \in Users : /\ f[w] \in Firsts(table'[w].devs)
                                 /\ table'[w].there => RowOf(rows'[w], table'[w], f[w])
                                 /\ ~table'[w].there => rows'[w] = NoRow
        BY <2>1, StartIs
    <2>3. halfway' = halfway
        BY <1>16 DEF Boot, Restart
    <2>4. ASSUME ~halfway, NEW w \in Users
          PROVE  Fits(table'[w], rows[w]) /\ Cardinality(table'[w].devs) <= table'[w].max
        <3>1. Fits(table[w], rows[w])
            BY <2>4 DEF LimitInv
        <3>2. CASE read
            BY <1>0, <2>2, <3>1, <3>2, LoadFits
        <3>3. CASE ~read
            <4>1. table'[w] = Absent /\ ~Absent.there /\ Absent.devs = {} /\ Absent.max = 0
                BY <2>2, <3>3, EmptyIs
            <4>2. Owned(rows[w]) \cup table'[w].devs \subseteq Owned(rows[w]) \cup table[w].devs
                BY <4>1
            <4>3. Fits(table'[w], rows[w])
                BY <1>0, <3>1, <4>1, <4>2, FitsLess DEF Fits
            <4> QED BY <4>1, <4>3, FS_EmptySet
        <3> QED BY <3>2, <3>3
    <2>5. ASSUME ~halfway, NEW w \in Users PROVE Fits(table'[w], rows'[w])
        <3>1. CASE ~ok
            BY <2>2, <2>4, <2>5, <3>1
        <3>2. CASE ok /\ table'[w].there
            <4>1. /\ rows'[w].there /\ rows'[w].max = table'[w].max
                  /\ rows'[w].devs = table'[w].devs /\ rows'[w].first \in Firsts(table'[w].devs)
                BY <2>2, <3>2 DEF RowOf
            <4> QED BY <1>0, <2>4, <2>5, <4>1, FitsSame
        <3>3. CASE ok /\ ~table'[w].there
            <4>1. rows'[w] = NoRow /\ table'[w].devs = {}
                BY <1>0, <2>2, <3>3 DEF Table
            <4>2. Owned(NoRow) \cup table'[w].devs = Owned(NoRow) \cup Absent.devs
                BY <4>1 DEF Absent
            <4> QED BY <3>3, <4>1, <4>2, FitsAbsent DEF Fits
        <3> QED BY <3>1, <3>2, <3>3
    <2>6. ASSUME Fresh PROVE Fresh'
        <3>1. ASSUME snap'.there, ~snap'.crossed
              PROVE  ~ok /\ snap.there /\ ~snap.crossed /\ snap'.rows = snap.rows
            <4>1. snap' # NoSnap
                BY <3>1 DEF NoSnap
            <4>2. snap.there
                BY <2>1, <3>1, <4>1
            <4>3. snap \in Snap /\ snap' = [snap EXCEPT !.crossed = snap.crossed \/ ok, !.newer = snap.newer /\ ~ok]
                BY <2>1, <4>1, <4>2, SnapThere
            <4> QED BY <3>1, <4>2, <4>3 DEF Snap
        <3> QED BY <2>2, <2>6, <3>1 DEF Fresh
    <2> QED BY <2>3, <2>5, <2>6 DEF LimitInv
<1> QED BY <1>2, <1>4, <1>5, <1>6, <1>7, <1>8, <1>9, <1>10, <1>11, <1>12, <1>13, <1>14, <1>15, <1>16
        DEF Next

LEMMA LimitInit == ASSUME Init, BindType PROVE LimitInv
<1>1. PICK U \in SUBSET Users, m \in [Users -> 1..MaxSlots], d \in Devices, n \in 0..1, o \in Users :
          Begin(U, m, d, n, o)
    BY InitIs
<1> USE DEF Begin
<1>2. ASSUME NEW u \in Users PROVE Fits(table[u], rows[u])
    <2>1. /\ rows[u] \in Row /\ table[u] \in Entry
          /\ table[u].there = rows[u].there
          /\ rows[u].there => table[u].max = rows[u].max /\ table[u].devs = Owned(rows[u])
          /\ ~rows[u].there => table[u] = Absent
        <3>1. rows \in [Users -> Row] /\ table \in [Users -> Entry] /\ table = Loaded(rows)
            BY <1>1 DEF BindType, Table
        <3> QED BY <3>1, LoadedIs DEF Owned
    <2>2. CASE u \notin U
        BY <1>1, <2>1, <2>2, FitsAbsent DEF NoRow
    <2>3. CASE u \in U
        <3>1. rows[u].there /\ m[u] \in 1..MaxSlots /\ rows[u].max = m[u] /\ Owned(rows[u]) \subseteq {d}
            BY <1>1, <2>3 DEF Owned
        <3>2. Cardinality({d}) = 1 /\ {d} \in SUBSET Devices
            BY FS_Singleton
        <3>3. Cardinality(Owned(rows[u])) <= 1
            BY <3>1, <3>2, CardIs
        <3>4. Cardinality(Owned(rows[u])) \in Nat
            BY <2>1, OwnedIs, CardIs
        <3>5. Owned(rows[u]) \cup table[u].devs = Owned(rows[u])
            BY <2>1, <3>1
        <3> QED BY <2>1, <3>1, <3>3, <3>4, <3>5, BoundAssumption DEF Fits, BoundAssumption
    <2> QED BY <2>2, <2>3
<1> QED BY <1>1, <1>2 DEF LimitInv, Fresh, NoSnap

\* As long as no edit was left halfway, no password has more devices than its
\* limit, in memory or in the file: GETCONF, the panel's forms, the bot, reloads
\* that overtake an edit and starts keep it together.
THEOREM LimitHolds == Spec => []WithinLimit
<1>1. Init => BindType /\ LimitInv
    BY TypeInit, LimitInit
<1>2. BindType /\ LimitInv /\ [Next]_vars => (BindType /\ LimitInv)'
    BY TypeStep, LimitStep
<1>3. BindType /\ LimitInv => WithinLimit
    <2>1. ASSUME BindType, LimitInv, ~halfway, NEW u \in Users
          PROVE  /\ Cardinality(table[u].devs) <= table[u].max
                 /\ Cardinality(Loaded(rows)[u].devs) <= rows[u].max
        <3>1. /\ table[u] \in Entry /\ rows[u] \in Row /\ table \in Table /\ rows \in [Users -> Row]
              /\ Fits(table[u], rows[u])
            BY <2>1 DEF BindType, Table, LimitInv
        <3>2. /\ Owned(rows[u]) \cup table[u].devs \in SUBSET Devices
              /\ rows[u].max \in Nat /\ table[u].max \in Nat
            BY <3>1, OwnedIs, EntryIs
        <3>3. ASSUME NEW S, S \subseteq Owned(rows[u]) \cup table[u].devs
              PROVE  Cardinality(S) <= rows[u].max
            <4>1. /\ Cardinality(S) <= Cardinality(Owned(rows[u]) \cup table[u].devs)
                  /\ Cardinality(Owned(rows[u]) \cup table[u].devs) \in Nat
                BY <3>2, <3>3, CardIs
            <4>2. S \in SUBSET Devices
                BY <3>2, <3>3
            <4>3. Cardinality(S) \in Nat
                BY <4>2, CardIs
            <4> QED BY <3>1, <3>2, <4>1, <4>3 DEF Fits
        <3>4. Cardinality(table[u].devs) <= table[u].max
            <4>1. CASE table[u].there
                BY <3>1, <3>3, <4>1 DEF Fits
            <4>2. CASE ~table[u].there
                <5>1. table[u].devs = {}
                    BY <3>1, <4>2 DEF Table
                <5> QED BY <3>2, <5>1, FS_EmptySet
            <4> QED BY <4>1, <4>2
        <3>5. Loaded(rows)[u].devs \subseteq Owned(rows[u]) \cup table[u].devs
            BY <3>1, LoadedIs DEF Owned, Absent
        <3> QED BY <3>3, <3>4, <3>5
    <2> QED BY <2>1 DEF WithinLimit
<1> QED BY <1>1, <1>2, <1>3, PTL DEF Spec

-----------------------------------------------------------------------------
(***************************************************************************)
(* Memory and the file                                                     *)
(***************************************************************************)
LEMMA ManyOwners ==
    ASSUME NEW t \in Table, NEW d \in Devices
    PROVE  Cardinality(Owners(t, d)) > 1 <=> \E u, v \in Owners(t, d) : u # v
<1>1. Owners(t, d) \subseteq Users /\ IsFiniteSet(Owners(t, d)) /\ Cardinality(Owners(t, d)) \in Nat
    BY FiniteAssumption, FS_Subset, FS_CardinalityType DEF Owners, FiniteAssumption
<1>2. ASSUME NEW u \in Owners(t, d), NEW v \in Owners(t, d), u # v PROVE Cardinality(Owners(t, d)) > 1
    <2>1. IsFiniteSet({u}) /\ Cardinality({u}) = 1
        BY FS_Singleton
    <2>2. Cardinality({u} \cup {v}) = 2
        <3>1. v \notin {u}
            BY <1>2
        <3>2. Cardinality({u} \cup {v}) = Cardinality({u}) + 1
            BY <2>1, <3>1, FS_AddElement
        <3> QED BY <2>1, <3>2
    <2>3. {u} \cup {v} \in SUBSET Owners(t, d)
        OBVIOUS
    <2>4. Cardinality({u} \cup {v}) <= Cardinality(Owners(t, d))
        BY <1>1, <2>3, FS_Subset
    <2> QED BY <1>1, <2>2, <2>4
<1>3. ASSUME \A u, v \in Owners(t, d) : u = v PROVE ~(Cardinality(Owners(t, d)) > 1)
    <2>1. CASE Owners(t, d) = {}
        BY <2>1, FS_EmptySet
    <2>2. CASE Owners(t, d) # {}
        <3>1. PICK u \in Owners(t, d) : TRUE
            BY <2>2
        <3>2. Owners(t, d) = {u}
            BY <1>3, <3>1
        <3>3. Cardinality({u}) = 1
            BY FS_Singleton
        <3> QED BY <3>2, <3>3
    <2> QED BY <2>1, <2>2
<1> QED BY <1>2, <1>3

LEMMA SingleIs ==
    ASSUME NEW t \in Table
    PROVE  Single(t) <=> \A d \in Devices : ~(Cardinality(Owners(t, d)) > 1)
<1>1. ASSUME Single(t), NEW d \in Devices PROVE ~(Cardinality(Owners(t, d)) > 1)
    BY <1>1, ManyOwners DEF Single, Owners
<1>2. ASSUME \A d \in Devices : ~(Cardinality(Owners(t, d)) > 1) PROVE Single(t)
    <2>1. ASSUME NEW u \in Users, NEW v \in Users, u # v, NEW d \in t[u].devs \cap t[v].devs PROVE FALSE
        <3>1. d \in Devices /\ u \in Owners(t, d) /\ v \in Owners(t, d)
            BY DEF Owners, Table, Entry
        <3> QED BY <1>2, <2>1, <3>1, ManyOwners
    <2> QED BY <2>1 DEF Single
<1> QED BY <1>1, <1>2

\* An entry and a row that say the same, and that a load would leave alone.
Same(y, x) == /\ y.there <=> x.there
              /\ y.devs = x.devs
              /\ x.there => y.max = x.max /\ Owned(x) = x.devs
              /\ ~x.there => y.max = 0 /\ x.devs = {}

Agreed == dev = devrows /\ \A u \in Users : Same(table[u], rows[u])

\* What a reload has read is still what the file says, unless an edit crossed it
\* or the panel created a profile, and then a load is due.
ReadIs == snap.there /\ ~snap.crossed => /\ snap.newer => behind
                                         /\ ~snap.newer => snap.rows = rows /\ snap.dev = devrows

FileInv == (~torn /\ ~behind => Agreed) /\ ReadIs

\* A load of a file that is not muddled takes it as it is.
LEMMA LoadSame ==
    ASSUME NEW r \in [Users -> Row], NEW t \in Deduped(Loaded(r)), ~Muddled(r), NEW u \in Users
    PROVE  Same(t[u], r[u])
<1>1. Loaded(r) \in Table /\ \A v \in Users : Loaded(r)[v].devs = r[v].devs
    BY LoadedIs DEF Muddled
<1>2. Single(Loaded(r))
    BY <1>1, SingleIs DEF Muddled
<1>3. t = Loaded(r)
    BY <1>1, <1>2, DedupedIs
<1>4. r[u] \in Row /\ r[u].there \in BOOLEAN
    BY DEF Row
<1>5. /\ t[u].there = r[u].there /\ t[u].devs = r[u].devs
      /\ r[u].there => t[u].max = r[u].max /\ t[u].devs = Owned(r[u])
      /\ ~r[u].there => t[u] = Absent
    BY <1>1, <1>3, LoadedIs DEF Owned
<1> QED BY <1>4, <1>5 DEF Same, Absent

\* A row that is gone leaves nothing in memory.
LEMMA LoadAbsent ==
    ASSUME NEW r \in [Users -> Row], NEW t \in Deduped(Loaded(r)), NEW u \in Users, ~r[u].there
    PROVE  t[u] = Absent
<1>1. Loaded(r) \in Table /\ Loaded(r)[u] = Absent
    BY LoadedIs
<1>2. /\ t \in Table /\ t[u].there = Absent.there /\ t[u].on = Absent.on
      /\ t[u].max = Absent.max /\ t[u].devs \subseteq Absent.devs
    BY <1>1, DedupedIs
<1>3. t[u] \in Entry
    BY <1>2 DEF Table
<1> QED BY <1>2, <1>3 DEF Absent, Entry

LEMMA SameAbsent == Same(Absent, NoRow)
BY DEF Same, Absent, NoRow

LEMMA FileStep == ASSUME BindType, BindType', FileInv, [Next]_vars PROVE FileInv'
<1> USE DEF BindType
<1>0. /\ \A w \in Users : table[w] \in Entry /\ rows[w] \in Row
      /\ \A w \in Users : table'[w] \in Entry /\ rows'[w] \in Row
      /\ rows \in [Users -> Row] /\ table \in Table /\ SnapType
      /\ \A w \in Users : rows[w].there \in BOOLEAN /\ table[w].there \in BOOLEAN
    BY DEF Table, Entry, Row
<1>1. ASSUME NEW some, NEW all, NEW why, After(some, all, why),
             Agreed /\ all /\ ~why => Agreed'
      PROVE  FileInv'
    <2>1. snap'.there => snap'.crossed
        BY <1>1, EditCrosses
    <2>2. ~torn' => ~torn /\ ~behind /\ all /\ ~why
        BY <1>1, EditMarks
    <2> QED BY <1>1, <2>1, <2>2 DEF FileInv, ReadIs
<1>2. ASSUME NEW d \in Devices, Configure(d), dev = devrows PROVE dev' = devrows'
    BY <1>2 DEF Configure
<1>3. ASSUME NEW u \in Users, NEW d \in Devices, GetConf(u, d) PROVE FileInv'
    <2>1. table[u].there /\ table' = Bind(table, u, d)
        BY <1>3 DEF GetConf, MayBind, Usable
    <2> DEFINE why == Owners(table, d) # {}
    <2>2. PICK ok \in BOOLEAN :
              /\ After(ok, ok, why)
              /\ ok => /\ \E f \in table'[u].devs : rows' = WriteBindings(rows, u, table'[u].devs, f)
                       /\ Configure(d)
        BY <1>3 DEF GetConf
    <2>3. ASSUME Agreed, ok, ~why PROVE Agreed'
        <3>1. PICK f \in table'[u].devs : rows' = WriteBindings(rows, u, table'[u].devs, f)
            BY <2>2, <2>3
        <3>2. \A w \in Users : /\ table'[w].there = table[w].there /\ table'[w].max = table[w].max
                               /\ w # u => table'[w].devs = table[w].devs
            <4>1. \A w \in Users : /\ table'[w].there = table[w].there /\ table'[w].max = table[w].max
                                   /\ w # u => table'[w].devs = table[w].devs \ {d}
                BY <2>1 DEF Bind, Table, Entry
            <4>2. \A w \in Users : d \notin table[w].devs
                BY <2>3 DEF Owners
            <4>3. \A w \in Users : table[w].devs \ {d} = table[w].devs
                BY <4>2
            <4> QED BY <4>1, <4>3
        <3>4. f \in Devices \cup {NoDevice}
            BY <1>0 DEF Entry
        <3>5. ASSUME NEW e \in Entry, NEW r, r = WriteBindings(rows, u, e.devs, f)
              PROVE  /\ \A w \in Users \ {u} : r[w] = rows[w]
                     /\ r[u].max = rows[u].max /\ r[u].devs = e.devs
                     /\ rows[u].there => r[u].there /\ r[u].first = f
            BY ONLY rows \in [Users -> Row], u \in Users, e \in Entry, <3>4, <3>5, BindingsAre
        <3>6. /\ \A w \in Users \ {u} : rows'[w] = rows[w]
              /\ rows'[u].max = rows[u].max /\ rows'[u].devs = table'[u].devs
              /\ rows[u].there => rows'[u].there /\ rows'[u].first = f
            BY <1>0, <3>1, <3>5
        <3>7. rows[u].there /\ rows[u].max = table[u].max
            BY <2>1, <2>3 DEF Agreed, Same
        <3>8. Owned(rows'[u]) = rows'[u].devs
            BY <3>6, <3>7 DEF Owned
        <3>9. Same(table'[u], rows'[u])
            BY <2>1, <3>2, <3>6, <3>7, <3>8 DEF Same
        <3>10. ASSUME NEW w \in Users \ {u} PROVE Same(table'[w], rows'[w])
            BY <2>3, <3>2, <3>6 DEF Same, Agreed
        <3>11. dev' = devrows'
            BY <1>2, <2>2, <2>3 DEF Agreed
        <3> QED BY <3>9, <3>10, <3>11 DEF Agreed
    <2> HIDE DEF why
    <2> QED BY <1>1, <2>2, <2>3
<1>4. ASSUME NEW d \in Devices, GetConfKnown(d) PROVE FileInv'
    <2>1. /\ UNCHANGED <<table, rows, behind, torn>>
          /\ snap' = IF snap.there /\ dev' # dev THEN [snap EXCEPT !.crossed = TRUE] ELSE snap
          /\ Configure(d)
        BY <1>4 DEF GetConfKnown
    <2>2. dev' = dev => devrows' = devrows
        <3>1. CASE UNCHANGED <<dev, devrows>>
            BY <3>1
        <3>2. CASE ~UNCHANGED <<dev, devrows>>
            <4>1. /\ dev[d].key = 0 /\ made' = made + 1
                  /\ dev' = [dev EXCEPT ![d] = [key |-> made + 1, ip |-> NextIP]]
                BY <2>1, <3>2 DEF Configure
            <4>2. dev'[d].key = made + 1 /\ made + 1 # 0
                BY <4>1, BoundAssumption DEF DevType, BoundAssumption
            <4> QED BY <4>1, <4>2
        <3> QED BY <3>1, <3>2
    <2>3. Agreed => Agreed'
        BY <1>2, <2>1 DEF Agreed
    <2>4. ReadIs'
        <3>1. CASE snap.there /\ dev' # dev
            <4>1. snap'.crossed
                BY <2>1, <3>1, SnapThere DEF Snap
            <4> QED BY <4>1 DEF ReadIs
        <3>2. CASE ~(snap.there /\ dev' # dev)
            BY <2>1, <2>2, <3>2 DEF ReadIs, FileInv
        <3> QED BY <3>1, <3>2
    <2> QED BY <2>1, <2>3, <2>4 DEF FileInv
<1>5. CASE (\E u \in Users : OpenForm(u)) \/ UNCHANGED vars
    BY <1>5 DEF OpenForm, vars, FileInv, ReadIs, Agreed
<1>18. CASE ReloadFails
    BY <1>18 DEF ReloadFails, NoSnap, FileInv, ReadIs, Agreed
<1>6. ASSUME NEW u \in Users, PanelCreate(u) PROVE FileInv'
    <2>1. behind' /\ snap' = IF snap.there THEN [snap EXCEPT !.newer = TRUE] ELSE snap
        BY <1>6 DEF PanelCreate
    <2>2. snap'.there => snap'.newer
        BY <2>1, SnapThere DEF Snap
    <2> QED BY <2>1, <2>2 DEF FileInv, ReadIs
<1>7. ASSUME NEW u \in Users, NEW v \in Users, NEW e \in Entry, PanelUpdate(u, v, e) PROVE FileInv'
    <2>1. table' = [table EXCEPT ![u] = Absent, ![v] = e] /\ e.there
        BY <1>7 DEF PanelUpdate
    <2>2. CASE Cardinality(e.devs) > e.max
        BY <1>1, <1>7, <2>2 DEF PanelUpdate
    <2>3. CASE ~(Cardinality(e.devs) > e.max)
        <3> DEFINE last == IF u = v THEN 2 ELSE 4
                   gone == table[u].devs \ e.devs
        <3>1. PICK n \in 0..last, f \in Firsts(e.devs) :
                  /\ After(n > 0, n = last, FALSE) /\ rows' = Written(u, v, e, f, n)
                  /\ dev' = IF n >= last - 2 THEN Drop(dev, gone) ELSE dev
                  /\ devrows' = IF n >= last - 1 THEN Drop(devrows, gone) ELSE devrows
            BY <1>7, <2>3 DEF PanelUpdate
        <3>3. \A w \in Users : table'[w] = IF w = v THEN e ELSE IF w = u THEN Absent ELSE table[w]
            BY <2>1 DEF Table
        <3>4. ASSUME Agreed, n = last PROVE Agreed'
            <4>1. /\ RowOf(rows'[v], e, f)
                  /\ u # v => rows'[u] = NoRow
                  /\ \A w \in Users \ {u, v} : rows'[w] = rows[w]
                BY <1>0, <3>1, <3>4, WrittenIs
            <4>2. Same(e, rows'[v])
                <5>1. Owned(rows'[v]) = rows'[v].devs
                    BY <4>1 DEF RowOf, Owned, Firsts
                <5> QED BY <2>1, <4>1, <5>1 DEF RowOf, Same
            <4>3. dev' = devrows'
                BY <3>1, <3>4 DEF Agreed
            <4> QED BY <3>3, <3>4, <4>1, <4>2, <4>3, SameAbsent DEF Agreed
        <3> HIDE DEF last, gone
        <3> QED BY <1>1, <3>1, <3>4
    <2> QED BY <2>2, <2>3
<1>8. ASSUME NEW u \in Users, NEW on \in BOOLEAN, ProfileUpdate(u, on) PROVE FileInv'
    <2>1. table[u].there /\ table' = [table EXCEPT ![u].on = on] /\ UNCHANGED <<dev, devrows>>
        BY <1>8 DEF ProfileUpdate
    <2>2. PICK ok \in BOOLEAN :
              After(ok, ok, FALSE) /\ (ok => \E f \in Firsts(table[u].devs) : rows' = WriteUser(rows, u, table'[u], f))
        BY <1>8 DEF ProfileUpdate
    <2>3. ASSUME Agreed, ok PROVE Agreed'
        <3>1. PICK f \in Firsts(table[u].devs) : rows' = WriteUser(rows, u, table'[u], f)
            BY <2>2, <2>3
        <3>2. f \in Devices \cup {NoDevice}
            BY <1>0 DEF Entry, Firsts
        <3>3. /\ \A w \in Users \ {u} : rows'[w] = rows[w]
              /\ rows'[u].there /\ rows'[u].max = table'[u].max
              /\ rows'[u].devs = rows[u].devs /\ rows'[u].first = f
            <4>1. ASSUME NEW y \in Entry, NEW r, r = WriteUser(rows, u, y, f)
                  PROVE  /\ \A w \in Users \ {u} : r[w] = rows[w]
                         /\ r[u].there /\ r[u].max = y.max
                         /\ r[u].devs = rows[u].devs /\ r[u].first = f
                BY ONLY rows \in [Users -> Row], u \in Users, <3>2, <4>1, UserRowIs
            <4> QED BY <1>0, <3>1, <4>1
        <3>4. \A w \in Users : /\ w # u => table'[w] = table[w]
                               /\ table'[w].there = table[w].there
                               /\ table'[w].devs = table[w].devs
            BY <2>1 DEF Table, Entry
        <3>5. rows[u].devs = table[u].devs
            BY <2>3 DEF Agreed, Same
        <3>6. Owned(rows'[u]) = rows'[u].devs
            BY <3>1, <3>3, <3>5 DEF Owned, Firsts
        <3>7. Same(table'[u], rows'[u])
            BY <2>1, <3>3, <3>4, <3>5, <3>6 DEF Same
        <3>8. ASSUME NEW w \in Users \ {u} PROVE Same(table'[w], rows'[w])
            BY <2>3, <3>3, <3>4 DEF Agreed
        <3> QED BY <2>1, <2>3, <3>7, <3>8 DEF Agreed
    <2> QED BY <1>1, <2>2, <2>3
<1>9. ASSUME NEW u \in Users, PanelDelete(u) \/ BotDelete(u) PROVE FileInv'
    <2>1. table' = [table EXCEPT ![u] = Absent] /\ dev' = Drop(dev, table[u].devs)
        BY <1>9 DEF PanelDelete, BotDelete
    <2>2. PICK ok \in BOOLEAN :
              /\ After(ok, ok, FALSE)
              /\ ok => rows' = [rows EXCEPT ![u] = NoRow] /\ devrows' = Drop(devrows, table[u].devs)
        BY <1>9 DEF PanelDelete, BotDelete, DeletedRows
    <2>3. ASSUME Agreed, ok PROVE Agreed'
        <3>1. /\ \A w \in Users : table'[w] = IF w = u THEN Absent ELSE table[w]
              /\ \A w \in Users : rows'[w] = IF w = u THEN NoRow ELSE rows[w]
            BY <1>0, <2>1, <2>2, <2>3 DEF Table
        <3>2. dev' = devrows'
            BY <2>1, <2>2, <2>3 DEF Agreed
        <3> QED BY <2>3, <3>1, <3>2, SameAbsent DEF Agreed
    <2> QED BY <1>1, <2>2, <2>3
<1>10. ASSUME NEW u \in Users, BotCreate(u) PROVE FileInv'
    <2>1. /\ ~table[u].there /\ ~rows[u].there /\ UNCHANGED <<dev, devrows>>
          /\ table' = [table EXCEPT ![u] = NewEntry] /\ rows' = WriteUser(rows, u, table'[u], NoDevice)
          /\ After(TRUE, TRUE, FALSE)
        BY <1>10 DEF BotCreate, NewEntry
    <2>2. /\ NewEntry \in Entry /\ NewEntry.there /\ NewEntry.max = 1 /\ NewEntry.devs = {}
          /\ \A w \in Users : table'[w] = IF w = u THEN NewEntry ELSE table[w]
        BY ONLY table \in Table, u \in Users, <2>1, NewEntryIs
    <2>3. rows' = WriteUser(rows, u, NewEntry, NoDevice)
        BY <2>1, <2>2
    <2>4. /\ \A w \in Users \ {u} : rows'[w] = rows[w]
          /\ rows'[u].there /\ rows'[u].max = 1
          /\ rows'[u].devs = rows[u].devs /\ rows'[u].first = NoDevice
        BY <1>0, <2>2, <2>3, UserRowIs
    <2>5. ASSUME Agreed PROVE Agreed'
        <3>1. rows'[u].devs = {}
            BY <2>1, <2>4, <2>5 DEF Agreed, Same
        <3>2. Same(NewEntry, rows'[u])
            BY <2>2, <2>4, <3>1 DEF Same, Owned
        <3>3. ASSUME NEW w \in Users \ {u} PROVE Same(table'[w], rows'[w])
            BY <2>2, <2>4, <2>5 DEF Agreed
        <3> QED BY <2>1, <2>2, <2>5, <3>2, <3>3 DEF Agreed
    <2> QED BY <1>1, <2>1, <2>5
<1>11. ASSUME NEW u \in Users, NEW S \in SUBSET Devices, BotUnbind(u, S) PROVE FileInv'
    <2>1. table[u].there /\ table' = Unbind(table, u, S) /\ dev' = Drop(dev, S)
        BY <1>11 DEF BotUnbind
    <2>2. PICK ok \in BOOLEAN :
              /\ After(ok, ok, FALSE)
              /\ ok => /\ \E f \in Firsts(table'[u].devs) : rows' = WriteBindings(rows, u, table'[u].devs, f)
                       /\ devrows' = Drop(devrows, S)
        BY <1>11 DEF BotUnbind
    <2>3. ASSUME Agreed, ok PROVE Agreed'
        <3>1. PICK f \in Firsts(table'[u].devs) : rows' = WriteBindings(rows, u, table'[u].devs, f)
            BY <2>2, <2>3
        <3>2. \A w \in Users : /\ w # u => table'[w] = table[w]
                               /\ table'[w].there = table[w].there /\ table'[w].max = table[w].max
            BY <2>1 DEF Unbind, Table, Entry
        <3>4. f \in Devices \cup {NoDevice}
            BY <1>0 DEF Entry, Firsts
        <3>5. ASSUME NEW e \in Entry, NEW r, r = WriteBindings(rows, u, e.devs, f)
              PROVE  /\ \A w \in Users \ {u} : r[w] = rows[w]
                     /\ r[u].max = rows[u].max /\ r[u].devs = e.devs
                     /\ rows[u].there => r[u].there /\ r[u].first = f
            BY ONLY rows \in [Users -> Row], u \in Users, e \in Entry, <3>4, <3>5, BindingsAre
        <3>6. /\ \A w \in Users \ {u} : rows'[w] = rows[w]
              /\ rows'[u].max = rows[u].max /\ rows'[u].devs = table'[u].devs
              /\ rows[u].there => rows'[u].there /\ rows'[u].first = f
            BY <1>0, <3>1, <3>5
        <3>7. rows[u].there /\ rows[u].max = table[u].max
            BY <2>1, <2>3 DEF Agreed, Same
        <3>8. Owned(rows'[u]) = rows'[u].devs
            BY <3>1, <3>6, <3>7 DEF Owned, Firsts
        <3>9. Same(table'[u], rows'[u])
            BY <2>1, <3>2, <3>6, <3>7, <3>8 DEF Same
        <3>10. ASSUME NEW w \in Users \ {u} PROVE Same(table'[w], rows'[w])
            BY <2>3, <3>2, <3>6 DEF Agreed
        <3>11. dev' = devrows'
            BY <2>1, <2>2, <2>3 DEF Agreed
        <3> QED BY <3>9, <3>10, <3>11 DEF Agreed
    <2> QED BY <1>1, <2>2, <2>3
<1>12. ASSUME NEW d \in Devices, BotDeleteDevice(d) PROVE FileInv'
    <2>1. table' = [u \in Users |-> [table[u] EXCEPT !.devs = @ \ {d}]] /\ dev' = Drop(dev, {d})
        BY <1>12 DEF BotDeleteDevice
    <2> DEFINE why == \E u \in Users : rows[u].first = d
    <2>2. PICK ok \in BOOLEAN :
              /\ After(ok, ok, why)
              /\ ok => /\ rows' = [u \in Users |-> [rows[u] EXCEPT !.devs = @ \ {d}]]
                       /\ devrows' = Drop(devrows, {d})
        BY <1>12 DEF BotDeleteDevice
    <2>3. ASSUME Agreed, ok, ~why PROVE Agreed'
        <3>1. ASSUME NEW w \in Users PROVE Same(table'[w], rows'[w])
            <4>1. /\ table'[w].there = table[w].there /\ table'[w].max = table[w].max
                  /\ table'[w].devs = table[w].devs \ {d}
                BY <2>1 DEF Table, Entry
            <4>2. /\ rows'[w].there = rows[w].there /\ rows'[w].max = rows[w].max
                  /\ rows'[w].devs = rows[w].devs \ {d} /\ rows'[w].first = rows[w].first
                BY <2>2, <2>3 DEF Row
            <4>3. Same(table[w], rows[w]) /\ rows[w].first # d
                BY <2>3 DEF Agreed
            <4>4. rows[w].there => Owned(rows'[w]) = rows'[w].devs
                BY <4>2, <4>3 DEF Same, Owned
            <4>5. rows[w].devs = {} => rows'[w].devs = {}
                BY <4>2
            <4> QED BY <4>1, <4>2, <4>3, <4>4, <4>5 DEF Same
        <3>2. dev' = devrows'
            BY <2>1, <2>2, <2>3 DEF Agreed
        <3> QED BY <3>1, <3>2 DEF Agreed
    <2> HIDE DEF why
    <2> QED BY <1>1, <2>2, <2>3
<1>13. ASSUME NEW u \in Users, NEW on \in BOOLEAN, BotSwitch(u, on) PROVE FileInv'
    <2>1. table' = [table EXCEPT ![u].on = on] /\ UNCHANGED <<dev, devrows>>
        BY <1>13 DEF BotSwitch
    <2>2. PICK ok \in BOOLEAN :
              /\ After(ok, ok, FALSE)
              /\ rows' = IF ok /\ rows[u].there THEN [rows EXCEPT ![u].on = on] ELSE rows
        BY <1>13 DEF BotSwitch
    <2>3. ASSUME Agreed, NEW w \in Users PROVE Same(table'[w], rows'[w])
        <3>1. /\ table'[w].there = table[w].there /\ table'[w].max = table[w].max
              /\ table'[w].devs = table[w].devs
            BY <2>1 DEF Table, Entry
        <3>2. /\ rows'[w].there = rows[w].there /\ rows'[w].max = rows[w].max
              /\ rows'[w].devs = rows[w].devs /\ rows'[w].first = rows[w].first
            BY <1>0, <2>2 DEF Row
        <3> QED BY <2>3, <3>1, <3>2 DEF Agreed, Same, Owned
    <2> QED BY <1>1, <2>1, <2>2, <2>3 DEF Agreed
<1>14. CASE StatsSync
    <2>1. /\ table' \in Deduped(Loaded(rows)) /\ rows' = rows /\ torn' = Muddled(rows)
          /\ dev' = devrows /\ devrows' = devrows
        BY <1>14 DEF StatsSync, Install
    <2>2. snap'.there => snap'.crossed
        BY <1>14, SnapThere DEF StatsSync, Snap
    <2>3. ASSUME ~torn', NEW w \in Users PROVE Same(table'[w], rows[w])
        BY <1>0, <2>1, <2>3, LoadSame
    <2> QED BY <2>1, <2>2, <2>3 DEF FileInv, ReadIs, Agreed
<1>15. CASE ReloadRead
    <2>1. UNCHANGED <<table, dev, rows, devrows, behind, torn>>
        BY <1>15 DEF ReloadRead
    <2>2. snap'.rows = rows /\ snap'.dev = devrows /\ ~snap'.newer
        BY <1>15 DEF ReloadRead
    <2> QED BY <2>1, <2>2 DEF FileInv, ReadIs, Agreed
<1>16. CASE ReloadInstall
    <2>1. /\ snap.there /\ table' \in Deduped(Loaded(snap.rows)) /\ dev' = snap.dev
          /\ rows' = rows /\ devrows' = devrows /\ snap' = NoSnap
          /\ behind' = (behind /\ snap.newer)
          /\ torn' = (snap.crossed \/ Muddled(snap.rows))
        BY <1>16 DEF ReloadInstall, Install
    <2>2. ASSUME ~torn', ~behind' PROVE Agreed'
        <3>1. ~snap.crossed /\ ~Muddled(snap.rows) /\ ~(behind /\ snap.newer)
            BY <2>1, <2>2
        <3>2. snap.rows = rows /\ snap.dev = devrows
            BY <2>1, <3>1 DEF FileInv, ReadIs
        <3>3. ASSUME NEW w \in Users PROVE Same(table'[w], rows[w])
            BY <1>0, <2>1, <3>1, <3>2, LoadSame
        <3> QED BY <2>1, <3>2, <3>3 DEF Agreed
    <2> QED BY <2>1, <2>2 DEF FileInv, ReadIs, NoSnap
<1>17. CASE Boot \/ Restart
    <2>1. PICK read \in BOOLEAN, ok \in BOOLEAN :
              /\ InitDB(read, ok)
              /\ \/ snap' = NoSnap
                 \/ /\ behind' = (behind /\ ~ok)
                    /\ snap' = IF snap.there
                              THEN [snap EXCEPT !.crossed = @ \/ ok, !.newer = @ /\ ~ok] ELSE snap
        BY <1>17 DEF Boot, Restart
    <2>2. /\ read => table' \in Deduped(Loaded(rows))
          /\ ~read => \A w \in Users : table'[w] = Absent
          /\ ~ok => rows' = rows /\ devrows' = devrows
          /\ ok => /\ devrows' = dev'
                   /\ \E f \in [Users -> Devices \cup {NoDevice}] :
                        \A w \in Users : /\ f[w] \in Firsts(table'[w].devs)
                                         /\ table'[w].there => RowOf(rows'[w], table'[w], f[w])
                                         /\ ~table'[w].there => rows'[w] = NoRow
        BY <2>1, StartIs
    <2>3. CASE ok
        <3>1. ASSUME NEW w \in Users, table'[w].there PROVE Same(table'[w], rows'[w])
            BY <2>2, <2>3, <3>1 DEF RowOf, Same, Owned, Firsts
        <3>2. ASSUME NEW w \in Users, ~table'[w].there PROVE Same(table'[w], rows'[w])
            <4>1. rows'[w] = NoRow
                BY <2>2, <2>3, <3>2
            <4>2. table'[w] = Absent
                <5>1. CASE read
                    <6>1. table' \in Deduped(Loaded(rows))
                        BY <2>2, <5>1
                    <6>2. ~rows[w].there
                        BY <1>0, <3>2, <6>1, LoadIs
                    <6> QED BY <1>0, <6>1, <6>2, LoadAbsent
                <5>2. CASE ~read
                    BY <2>2, <5>2
                <5> QED BY <5>1, <5>2
            <4> QED BY <4>1, <4>2, SameAbsent
        <3>3. Agreed'
            BY <2>2, <2>3, <3>1, <3>2 DEF Agreed
        <3>4. ReadIs'
            <4>1. snap' = NoSnap \/ (snap.there => snap'.crossed)
                BY <2>1, <2>3, SnapThere DEF Snap
            <4>2. snap'.there => snap.there
                BY <2>1 DEF NoSnap
            <4> QED BY <4>1, <4>2 DEF ReadIs, NoSnap
        <3> QED BY <3>3, <3>4 DEF FileInv
    <2>4. CASE ~ok
        <3>1. rows' = rows /\ devrows' = devrows
            BY <2>2, <2>4
        <3>2. ~torn' => ~Muddled(rows) /\ Core(table') = Core(Loaded(rows)) /\ dev' = devrows
            BY <2>1, <2>4 DEF InitDB
        <3>3. ASSUME ~torn', NEW w \in Users PROVE Same(table'[w], rows[w])
            <4>1. /\ table'[w].there = Loaded(rows)[w].there /\ table'[w].max = Loaded(rows)[w].max
                  /\ table'[w].devs = Loaded(rows)[w].devs
                <5>1. Core(table')[w] = Core(Loaded(rows))[w]
                    BY <3>2, <3>3
                <5> QED BY <5>1 DEF Core
            <4>2. Loaded(rows)[w].devs = rows[w].devs
                BY <3>2, <3>3 DEF Muddled
            <4>3. /\ Loaded(rows)[w].there = rows[w].there
                  /\ rows[w].there => Loaded(rows)[w].max = rows[w].max /\ Loaded(rows)[w].devs = Owned(rows[w])
                  /\ ~rows[w].there => Loaded(rows)[w] = Absent
                BY <1>0, LoadedIs DEF Owned
            <4> QED BY <4>1, <4>2, <4>3 DEF Same, Absent
        <3>4. ~torn' => Agreed'
            BY <3>1, <3>2, <3>3 DEF Agreed
        <3>5. ReadIs'
            <4>1. ASSUME snap'.there, ~snap'.crossed
                  PROVE  /\ snap.there /\ ~snap.crossed /\ behind' = behind
                         /\ snap'.rows = snap.rows /\ snap'.dev = snap.dev /\ snap'.newer = snap.newer
                <5>1. snap' # NoSnap
                    BY <4>1 DEF NoSnap
                <5>2. snap.there
                    BY <2>1, <4>1, <5>1
                <5>3. /\ snap \in Snap /\ behind' = (behind /\ ~ok)
                      /\ snap' = [snap EXCEPT !.crossed = snap.crossed \/ ok, !.newer = snap.newer /\ ~ok]
                    BY <2>1, <5>1, <5>2, SnapThere
                <5> QED BY <2>4, <4>1, <5>2, <5>3 DEF Snap, MarksType
            <4> QED BY <3>1, <4>1 DEF ReadIs, FileInv
        <3> QED BY <3>4, <3>5 DEF FileInv
    <2> QED BY <2>3, <2>4
<1> QED BY <1>3, <1>4, <1>5, <1>6, <1>7, <1>8, <1>9, <1>10, <1>11, <1>12, <1>13, <1>14, <1>15, <1>16,
           <1>17, <1>18 DEF Next

LEMMA FileInit == ASSUME Init, BindType PROVE FileInv
<1>1. PICK U \in SUBSET Users, m \in [Users -> 1..MaxSlots], d \in Devices, n \in 0..1, o \in Users :
          Begin(U, m, d, n, o)
    BY InitIs
<1>2. table = Loaded(rows) /\ dev = devrows /\ snap = NoSnap
    BY <1>1 DEF Begin
<1>3. ASSUME NEW u \in Users PROVE Same(table[u], rows[u])
    <2>1. /\ rows[u].there \in BOOLEAN /\ table[u].there = rows[u].there
          /\ rows[u].there => table[u].max = rows[u].max /\ table[u].devs = Owned(rows[u])
          /\ ~rows[u].there => table[u] = Absent
        BY <1>2, LoadedIs DEF BindType, Owned, Row
    <2>2. CASE u \notin U
        BY <1>1, <2>1, <2>2, SameAbsent DEF Begin, NoRow
    <2>3. CASE u \in U
        <3>1. rows[u].there /\ Owned(rows[u]) = rows[u].devs
            BY <1>1, <2>3 DEF Begin, Owned
        <3> QED BY <2>1, <3>1 DEF Same
    <2> QED BY <2>2, <2>3
<1> QED BY <1>2, <1>3 DEF FileInv, ReadIs, Agreed, NoSnap

\* Memory and panel.db say the same of who has which device and of the records of
\* the devices, unless a load is due or one of the named reasons stands: an edit
\* that failed, one committed over a file the server had not loaded, a device taken
\* from another password, one deleted by the bot that a row still names, a reload
\* that an edit overtook, a start that could neither read nor write the file, or a
\* file that itself binds a device twice.
THEOREM FileKeepsUp == Spec => []FileAgrees
<1>1. Init => BindType /\ FileInv
    BY TypeInit, FileInit
<1>2. BindType /\ FileInv /\ [Next]_vars => (BindType /\ FileInv)'
    BY TypeStep, FileStep
<1>3. BindType /\ FileInv => FileAgrees
    <2>1. ASSUME BindType, Agreed, NEW u \in Users
          PROVE  /\ table[u].there = Loaded(rows)[u].there
                 /\ table[u].max = Loaded(rows)[u].max /\ table[u].devs = Loaded(rows)[u].devs
        <3>1. /\ table[u].there \in BOOLEAN /\ rows[u].there \in BOOLEAN
              /\ Loaded(rows)[u].there = rows[u].there
              /\ rows[u].there => Loaded(rows)[u].max = rows[u].max /\ Loaded(rows)[u].devs = Owned(rows[u])
              /\ ~rows[u].there => Loaded(rows)[u] = Absent
            BY <2>1, LoadedIs DEF BindType, Owned, Row, Table, Entry
        <3>2. Same(table[u], rows[u])
            BY <2>1 DEF Agreed
        <3> QED BY <3>1, <3>2 DEF Same, Absent
    <2> QED BY <2>1 DEF FileInv, FileAgrees, Agreed, Core
<1> QED BY <1>1, <1>2, <1>3, PTL DEF Spec

-----------------------------------------------------------------------------
(***************************************************************************)
(* Shared devices                                                          *)
(***************************************************************************)
LEMMA FewerOwners ==
    ASSUME NEW t \in Table, NEW tt \in Table, NEW d \in Devices,
           \A w \in Users : d \in tt[w].devs => d \in t[w].devs
    PROVE  Cardinality(Owners(tt, d)) > 1 => Cardinality(Owners(t, d)) > 1
<1>1. ASSUME NEW u \in Owners(tt, d), NEW v \in Owners(tt, d), u # v
      PROVE  u \in Owners(t, d) /\ v \in Owners(t, d)
    BY DEF Owners
<1> QED BY <1>1, ManyOwners

LEMMA ShareStep == ASSUME BindType, BindType', [Next]_vars PROVE [SharesByStaleForm]_vars
<1> USE DEF BindType
<1>1. ASSUME \A d \in Devices, w \in Users : d \in table'[w].devs => d \in table[w].devs
      PROVE  SharesByStaleForm
    <2>1. ASSUME NEW d \in Devices, Cardinality(Owners(table', d)) > 1
          PROVE  Cardinality(Owners(table, d)) > 1
        BY <1>1, <2>1, FewerOwners
    <2> QED BY <2>1 DEF SharesByStaleForm
<1>2. ASSUME Single(table') PROVE SharesByStaleForm
    BY <1>2, SingleIs DEF SharesByStaleForm
<1>3. ASSUME NEW u \in Users, NEW d \in Devices, GetConf(u, d) PROVE SharesByStaleForm
    <2>1. table' = Bind(table, u, d)
        BY <1>3 DEF GetConf
    <2>2. \A w \in Users : table'[w].devs = IF w = u THEN table[w].devs \cup {d} ELSE table[w].devs \ {d}
        BY <2>1 DEF Bind, Table, Entry
    <2>3. \A x, y \in Owners(table', d) : x = y
        BY <2>2 DEF Owners
    <2>4. ~(Cardinality(Owners(table', d)) > 1)
        BY <2>3, ManyOwners
    <2>5. ASSUME NEW c \in Devices \ {d}, Cardinality(Owners(table', c)) > 1
          PROVE  Cardinality(Owners(table, c)) > 1
        <3>1. \A w \in Users : c \in table'[w].devs => c \in table[w].devs
            BY <2>2
        <3> QED BY <2>5, <3>1, FewerOwners
    <2> QED BY <2>4, <2>5 DEF SharesByStaleForm
<1>4. ASSUME NEW u \in Users, NEW v \in Users, NEW e \in Entry, PanelUpdate(u, v, e)
      PROVE  SharesByStaleForm
    <2>1. /\ form.user = u /\ e.devs \subseteq form.devs /\ form' = NoForm
          /\ table' = [table EXCEPT ![u] = Absent, ![v] = e]
        BY <1>4 DEF PanelUpdate
    <2>2. \A w \in Users : table'[w] = IF w = v THEN e ELSE IF w = u THEN Absent ELSE table[w]
        BY <2>1 DEF Table
    <2>3. ASSUME NEW d \in Devices, Cardinality(Owners(table', d)) > 1, d \notin form.devs \ table[u].devs
          PROVE  Cardinality(Owners(table, d)) > 1
        <3>1. PICK x \in Owners(table', d), y \in Owners(table', d) : x # y
            BY <2>3, ManyOwners
        <3>2. ASSUME NEW w \in Owners(table', d), w # v PROVE w \in Owners(table, d) /\ w # u
            BY <2>2, <3>2 DEF Owners, Absent
        <3>3. ASSUME v \in Owners(table', d) PROVE u \in Owners(table, d)
            BY <2>1, <2>2, <2>3, <3>3 DEF Owners
        <3>4. \E a, b \in Owners(table, d) : a # b
            BY <3>1, <3>2, <3>3
        <3> QED BY <3>4, ManyOwners
    <2>4. ASSUME NEW d \in form.devs PROVE form # NoForm
        BY DEF NoForm
    <2> QED BY <2>1, <2>3, <2>4 DEF SharesByStaleForm
<1>5. ASSUME NEW u \in Users, NEW on \in BOOLEAN, ProfileUpdate(u, on) \/ BotSwitch(u, on)
      PROVE  SharesByStaleForm
    <2>1. table' = [table EXCEPT ![u].on = on]
        BY <1>5 DEF ProfileUpdate, BotSwitch
    <2>2. \A w \in Users : table'[w].devs = table[w].devs
        BY <2>1 DEF Table, Entry
    <2> QED BY <1>1, <2>2
<1>6. ASSUME NEW u \in Users, PanelDelete(u) \/ BotDelete(u) PROVE SharesByStaleForm
    <2>1. table' = [table EXCEPT ![u] = Absent]
        BY <1>6 DEF PanelDelete, BotDelete
    <2>2. \A w \in Users : table'[w] = IF w = u THEN Absent ELSE table[w]
        BY <2>1 DEF Table
    <2> QED BY <1>1, <2>2 DEF Absent
<1>7. ASSUME NEW u \in Users, BotCreate(u) PROVE SharesByStaleForm
    <2>1. table' = [table EXCEPT ![u] = NewEntry]
        BY <1>7 DEF BotCreate, NewEntry
    <2>2. \A w \in Users : table'[w] = IF w = u THEN NewEntry ELSE table[w]
        BY <2>1 DEF Table
    <2>3. NewEntry.devs = {}
        BY NewEntryIs
    <2> QED BY <1>1, <2>2, <2>3
<1>8. ASSUME NEW u \in Users, NEW S \in SUBSET Devices, BotUnbind(u, S) PROVE SharesByStaleForm
    <2>1. table' = Unbind(table, u, S)
        BY <1>8 DEF BotUnbind
    <2>2. \A w \in Users : table'[w].devs \subseteq table[w].devs
        BY <2>1 DEF Unbind, Table, Entry
    <2> QED BY <1>1, <2>2
<1>9. ASSUME NEW d \in Devices, BotDeleteDevice(d) PROVE SharesByStaleForm
    <2>1. table' = [u \in Users |-> [table[u] EXCEPT !.devs = @ \ {d}]]
        BY <1>9 DEF BotDeleteDevice
    <2>2. \A w \in Users : table'[w].devs \subseteq table[w].devs
        BY <2>1 DEF Table, Entry
    <2> QED BY <1>1, <2>2
<1>10. CASE StatsSync \/ Boot \/ Restart
    <2>1. CASE StatsSync
        BY <1>2, <2>1, LoadIs DEF StatsSync, Install
    <2>2. CASE Boot \/ Restart
        <3>1. PICK read \in BOOLEAN, ok \in BOOLEAN : InitDB(read, ok)
            BY <2>2 DEF Boot, Restart
        <3> QED BY <1>2, <3>1, StartIs
    <2> QED BY <1>10, <2>1, <2>2
<1>11. CASE ReloadInstall
    <2>1. snap.there /\ table' \in Deduped(Loaded(snap.rows))
        BY <1>11 DEF ReloadInstall, Install
    <2> QED BY <1>2, <2>1, LoadIs, SnapThere
<1>12. ASSUME table' = table PROVE SharesByStaleForm
    BY <1>1, <1>12
<1>13. ASSUME NEW u \in Users, OpenForm(u) \/ PanelCreate(u) PROVE SharesByStaleForm
    BY <1>12, <1>13 DEF OpenForm, PanelCreate
<1>14. ASSUME NEW d \in Devices, GetConfKnown(d) PROVE SharesByStaleForm
    BY <1>12, <1>14 DEF GetConfKnown
<1>15. CASE ReloadRead \/ ReloadFails
    BY <1>12, <1>15 DEF ReloadRead, ReloadFails
<1> QED BY <1>3, <1>4, <1>5, <1>6, <1>7, <1>8, <1>9, <1>10, <1>11, <1>13, <1>14, <1>15 DEF Next

\* Two passwords come to share a device only when the panel commits a form that
\* still shows a device its password has lost: GETCONF takes a device from all
\* others, and a load gives each to one.
THEOREM StaleFormsOnly == Spec => OnlyStaleFormsShare
<1>1. Init => BindType
    BY TypeInit
<1>2. BindType /\ [Next]_vars => BindType'
    BY TypeStep
<1>3. BindType /\ BindType' /\ [Next]_vars => [SharesByStaleForm]_vars
    BY ShareStep
<1> QED BY <1>1, <1>2, <1>3, PTL DEF Spec, OnlyStaleFormsShare
=============================================================================
