------------------------------- MODULE VkCalls -------------------------------
(***************************************************************************)
(* The panel's VK calls and the hash list of a profile.                    *)
(*                                                                         *)
(* A request creates a call at VK, saves its row in vk_calls and then       *)
(* merges its hash into the profile; another marks the rows of calls it     *)
(* has finished; every status request reconciles the profile with the rows  *)
(* and drops the rows that are finishing or whose call is over; the form    *)
(* of the profile writes the list it was opened with.  Only creating and    *)
(* finishing hold vkCreatorMu.  All of them read the profile, compute a new  *)
(* list and write the whole profile, in separate steps.                     *)
(*                                                                         *)
(* One profile is modelled, which all calls belong to.  A call stands for   *)
(* its row's key, its join link and its hash; Manual is a hash the user     *)
(* typed.  Each of the three kinds of request has a record of its own.      *)
(***************************************************************************)
EXTENDS Integers, FiniteSets, SequencesExt

CONSTANTS
    Calls,      \* calls that VK can start
    Manual,     \* the hash the user typed
    Makers,     \* requests that create a call
    Pollers,    \* status requests
    MaxHashes,        \* vkhash.MaxHashes
    MaxEvents   \* bound: saves of the form, and commits and calls of VK that fail

ASSUME CallsAssumption == IsFiniteSet(Calls) /\ Manual \notin Calls
ASSUME ActorsAssumption == Makers \cap Pollers = {} /\ {"stop", "free"} \cap Makers = {}
ASSUME BoundsAssumption == MaxHashes \in Nat \ {0} /\ MaxEvents \in Nat

VARIABLES
    calls,   \* vk_calls: the state of each call's row
    vk,      \* the call at VK
    prof,    \* the row of wdtt_users: there, on, hash
    mu,      \* who holds vkCreatorMu
    maker,   \* the requests that create
    stop,    \* the request that finishes calls, or deletes the profile
    poll,    \* the status requests
    form,    \* the profile shown in the form
    saves, fails,
    adrift   \* history: calls left running for a reason of their own

vars == <<calls, vk, prof, mu, maker, stop, poll, form, saves, fails, adrift>>

Hashes == Calls \cup {Manual}
RowState == {"none", "active", "finishing"}
NoPage == [hash |-> <<>>, on |-> FALSE, crossed |-> FALSE]
Idle == [pc |-> "idle", call |-> Manual, page |-> NoPage]
NoStop == [pc |-> "idle", set |-> {}, whole |-> FALSE]
Asleep == [pc |-> "idle", active |-> {}, ending |-> {}, call |-> Manual, page |-> NoPage]
NoForm == [open |-> FALSE, page |-> NoPage]

-----------------------------------------------------------------------------
(***************************************************************************)
(* Lists of hashes                                                         *)
(***************************************************************************)
\* vkhash.Normalize of a list without repetitions: the first MaxHashes of it.
Normalize(s) == SubSeq(s, 1, IF Len(s) < MaxHashes THEN Len(s) ELSE MaxHashes)

\* A list without some hashes, in its order: the j-th that stays is the one with
\* j - 1 before it that stay.
Without(s, S) ==
    LET kept == {i \in DOMAIN s : s[i] \notin S}
    IN  [j \in 1..Cardinality(kept) |->
            s[CHOOSE i \in kept : Cardinality({k \in kept : k < i}) = j - 1]]

\* mergeVKHashes
Merge(s, h) == Normalize(IF h \in ToSet(s) THEN s ELSE Append(Normalize(s), h))

\* subtractVKHashes; a list that had more than MaxHashes loses its tail.
Subtract(s, h) == Without(Normalize(s), {h})

\* Mutant: what has no active row is dropped.
Reconcile_Drops(have, active, ending) ==
    Without(have, ToSet(have) \ active) \o SetToSeq(active \ ToSet(have))

\* Mutant: nothing is added.
Reconcile_Keeps(have, active, ending) == Without(have, ending)

\* mergeVKHashReconcile: what is not finishing stays, what is active is added, and
\* nothing limits the length.
Reconcile(have, active, ending) ==
    Without(have, ending) \o SetToSeq(active \ ToSet(have))

-----------------------------------------------------------------------------
(***************************************************************************)
(* What others do while a request holds a page it has read                 *)
(***************************************************************************)
Page == [hash |-> prof.hash, on |-> prof.on, crossed |-> FALSE]
Holding == {"users", "fix", "write", "dwrite"}

\* A step that changed the profile or the rows crosses every page held by another.
Crossed(r, held) == IF held THEN [r EXCEPT !.page.crossed = TRUE] ELSE r
Others(m, p, f) ==
    LET moved == prof' # prof \/ calls' # calls IN
    /\ maker' = [x \in Makers |-> Crossed(m[x], moved /\ m[x].pc \in Holding)]
    /\ poll' = [y \in Pollers |-> Crossed(p[y], moved /\ p[y].pc \in Holding)]
    /\ form' = Crossed(f, moved /\ f.open)

Rows == {c \in Calls : calls[c] # "none"}
Left == saves + fails < MaxEvents
MayFail == Left /\ fails' = fails + 1

\* A write of the whole profile by the server, which refuses if it is gone.
WriteProfile(hash, on) ==
    prof' = IF prof.there THEN [prof EXCEPT !.hash = Normalize(hash), !.on = on] ELSE prof

Init ==
    /\ calls = [c \in Calls |-> "none"]
    /\ vk = [c \in Calls |-> "none"]
    /\ prof = [there |-> TRUE, on |-> TRUE, hash |-> <<>>]
    /\ mu = "free"
    /\ maker = [x \in Makers |-> Idle]
    /\ stop = NoStop
    /\ poll = [x \in Pollers |-> Asleep]
    /\ form = NoForm
    /\ saves = 0 /\ fails = 0
    /\ adrift = {}

-----------------------------------------------------------------------------
(***************************************************************************)
(* createVKCall and applyVKHashToUser                                      *)
(***************************************************************************)
\* The call VK starts is a new one; which, is a matter of its name.
NewCall == CHOOSE c \in Calls : vk[c] = "none"

\* Mutant: the limit is checked, and the call made, outside the mutex.
Create_Unlocked(x) ==
    /\ maker[x].pc = "idle"
    /\ Cardinality(Rows) < MaxHashes
    /\ \E c \in Calls :
         /\ vk[c] = "none" /\ c = NewCall /\ vk' = [vk EXCEPT ![c] = "on"]
         /\ maker' = [maker EXCEPT ![x].pc = "insert", ![x].call = c]
    /\ UNCHANGED <<calls, prof, mu, stop, poll, form, saves, fails, adrift>>

\* The rows are counted, those of a profile that is gone as well, and VK starts a call.
Create(x) ==
    /\ maker[x].pc = "idle"
    /\ mu = "free" /\ mu' = x
    /\ Cardinality(Rows) < MaxHashes
    /\ \E c \in Calls :
         /\ vk[c] = "none" /\ c = NewCall /\ vk' = [vk EXCEPT ![c] = "on"]
         /\ maker' = [maker EXCEPT ![x].pc = "insert", ![x].call = c]
    /\ UNCHANGED <<calls, prof, stop, poll, form, saves, fails, adrift>>

\* VK's answer comes and the row is inserted.  A call whose answer is lost or has no
\* link, or whose row cannot be inserted, is forgotten.
Insert(x) ==
    LET c == maker[x].call IN
    /\ maker[x].pc = "insert"
    /\ mu' = "free" /\ UNCHANGED prof
    /\ \/ /\ calls' = [calls EXCEPT ![c] = "active"]
          /\ Others([maker EXCEPT ![x].pc = "read"], poll, form)
          /\ UNCHANGED <<fails, adrift>>
       \/ /\ MayFail
          /\ adrift' = adrift \cup {c}
          /\ UNCHANGED calls
          /\ Others([maker EXCEPT ![x] = Idle], poll, form)
    /\ UNCHANGED <<vk, stop, saves>>

Read(x) ==
    /\ maker[x].pc = "read"
    /\ \/ /\ maker' = [maker EXCEPT ![x] =
                IF prof.there
                THEN [@ EXCEPT !.pc = "write", !.page = [Page EXCEPT !.crossed = calls[maker[x].call] # "active"]]
                ELSE Idle]
          /\ UNCHANGED fails
       \/ MayFail /\ maker' = [maker EXCEPT ![x] = Idle]
    /\ UNCHANGED <<calls, vk, prof, mu, stop, poll, form, saves, adrift>>

Write(x) ==
    LET page == maker[x].page IN
    /\ maker[x].pc = "write"
    /\ \/ WriteProfile(Merge(page.hash, maker[x].call), page.on) /\ UNCHANGED fails
       \/ MayFail /\ UNCHANGED prof
    /\ UNCHANGED calls
    /\ Others([maker EXCEPT ![x] = Idle], poll, form)
    /\ UNCHANGED <<vk, mu, stop, saves, adrift>>

-----------------------------------------------------------------------------
(***************************************************************************)
(* stopVKCreatorSession and deleteUserPassword                             *)
(***************************************************************************)
\* Mutant: none is finished.
Finished_None(S) == vk

\* finishVKCalls
Finished(S) == [c \in Calls |-> IF c \in S THEN "over" ELSE vk[c]]

\* One call by its id, or all of the profile, which may then be deleted; the profile
\* need not be there.  Best effort: calls that VK would not finish, or that it did not
\* say were running, are marked all the same; but without cookies, or without a call,
\* nothing is.
StopFinish(S, whole) ==
    /\ stop.pc = "idle" /\ mu = "free"
    /\ IF whole THEN S = Rows ELSE S \subseteq Rows /\ Cardinality(S) = 1
    /\ \/ /\ S # {}
          /\ \E F \in SUBSET S :
               LET runs == {c \in S \ F : vk[c] = "on"} IN
               /\ vk' = Finished(F) /\ adrift' = adrift \cup runs
               /\ IF runs = {} THEN UNCHANGED fails ELSE MayFail
          /\ stop' = [pc |-> "mark", set |-> S, whole |-> whole] /\ mu' = "stop"
       \/ /\ whole
          /\ IF S = {} THEN UNCHANGED fails ELSE MayFail
          /\ stop' = [NoStop EXCEPT !.pc = "delete"]
          /\ UNCHANGED <<vk, mu, adrift>>
    /\ UNCHANGED <<calls, prof, maker, poll, form, saves>>

\* SetVKCallFinishing, SetVKCallsFinishingByPassword
Marked == [c \in Calls |-> IF (stop.whole \/ c \in stop.set) /\ calls[c] # "none"
                           THEN "finishing" ELSE calls[c]]

StopMark ==
    /\ stop.pc = "mark"
    /\ \/ calls' = Marked /\ UNCHANGED fails
       \/ MayFail /\ UNCHANGED calls
    /\ mu' = "free"
    /\ stop' = IF stop.whole THEN [NoStop EXCEPT !.pc = "delete"] ELSE NoStop
    /\ UNCHANGED prof
    /\ Others(maker, poll, form)
    /\ UNCHANGED <<vk, saves, adrift>>

\* The request was to finish all calls only, or the server refuses; or it deletes the
\* profile with the rows it finds, whatever has become of their calls.
StopDelete ==
    /\ stop.pc = "delete"
    /\ stop' = NoStop
    /\ \/ UNCHANGED <<calls, prof, adrift>>
       \/ /\ prof.there
          /\ prof' = [there |-> FALSE, on |-> FALSE, hash |-> <<>>]
          /\ calls' = [c \in Calls |-> "none"]
          /\ adrift' = adrift \cup Rows
    /\ Others(maker, poll, form)
    /\ UNCHANGED <<vk, mu, saves, fails>>

-----------------------------------------------------------------------------
(***************************************************************************)
(* vkCreatorStatus: reconcile, list, drop                                  *)
(***************************************************************************)
PollCalls(y) ==
    /\ poll[y].pc = "idle"
    /\ poll' = [poll EXCEPT ![y] =
          [Asleep EXCEPT !.pc = "users", !.active = {c \in Calls : calls[c] = "active"},
                         !.ending = {c \in Calls : calls[c] = "finishing"}]]
    /\ UNCHANGED <<calls, vk, prof, mu, maker, stop, form, saves, fails, adrift>>

PollUsers(y) ==
    /\ poll[y].pc = "users"
    /\ poll' = [poll EXCEPT ![y].pc = "fix",
                            ![y].page = [Page EXCEPT !.on = FALSE, !.crossed = poll[y].page.crossed]]
    /\ UNCHANGED <<calls, vk, prof, mu, maker, stop, form, saves, fails, adrift>>

\* The hash list is written only if it differs, without the rest of the profile.
PollFix(y) ==
    LET p == poll[y]
        want == Reconcile(p.page.hash, p.active, p.ending)
    IN
    /\ p.pc = "fix"
    /\ \/ /\ prof' = IF prof.there /\ want # p.page.hash THEN [prof EXCEPT !.hash = want] ELSE prof
          /\ UNCHANGED fails
       \/ MayFail /\ UNCHANGED prof
    /\ UNCHANGED calls
    /\ Others(maker, [poll EXCEPT ![y] = [Asleep EXCEPT !.pc = "list"]], form)
    /\ UNCHANGED <<vk, mu, stop, saves, adrift>>

PollList(y) ==
    /\ poll[y].pc = "list"
    /\ poll' = [poll EXCEPT ![y] =
          [Asleep EXCEPT !.pc = "next", !.active = {c \in Calls : calls[c] = "active"},
                         !.ending = {c \in Calls : calls[c] = "finishing"}]]
    /\ UNCHANGED <<calls, vk, prof, mu, maker, stop, form, saves, fails, adrift>>

PollDone(y) ==
    /\ poll[y].pc = "next" /\ poll[y].active \cup poll[y].ending = {}
    /\ poll' = [poll EXCEPT ![y] = Asleep]
    /\ UNCHANGED <<calls, vk, prof, mu, maker, stop, form, saves, fails, adrift>>

\* The preview of a listed call says that it runs, which it may of a call that is over.
PollAlive(y) ==
    /\ poll[y].pc = "next"
    /\ \E c \in poll[y].active : poll' = [poll EXCEPT ![y].active = @ \ {c}]
    /\ UNCHANGED <<calls, vk, prof, mu, maker, stop, form, saves, fails, adrift>>

\* Mutant: a finishing row waits until its call is over.
Ended_Dead(y, c) == vk[c] # "on"

\* The listed call was finishing, whatever its preview says, or is over.
Ended(y, c) == c \in poll[y].ending \/ vk[c] # "on"

\* A listed call that has ended, or the preview of which cannot be had, is to go; what
\* is over stays over, so the preview and the reading of the profile are one step.
\* removeVKHashFromUser refuses if the profile is gone or cannot be read, and the row
\* stays; it writes nothing if the profile has no such hash.
DropRead(y) ==
    /\ poll[y].pc = "next"
    /\ \E c \in poll[y].active \cup poll[y].ending :
         LET rest == [poll[y] EXCEPT !.active = @ \ {c}, !.ending = @ \ {c}] IN
         \/ /\ IF Ended(y, c) THEN UNCHANGED <<fails, adrift>>
               ELSE MayFail /\ adrift' = adrift \cup {c}
            /\ poll' = [poll EXCEPT ![y] =
                 IF ~prof.there THEN rest
                 ELSE IF Subtract(prof.hash, c) = prof.hash
                 THEN [rest EXCEPT !.pc = "drow", !.call = c]
                 ELSE [rest EXCEPT !.pc = "dwrite", !.call = c, !.page = Page]]
         \/ Ended(y, c) /\ MayFail /\ poll' = [poll EXCEPT ![y] = rest] /\ UNCHANGED adrift
    /\ UNCHANGED <<calls, vk, prof, mu, maker, stop, form, saves>>

\* A refused write leaves the row for the next status request.
DropWrite(y) ==
    LET page == poll[y].page IN
    /\ poll[y].pc = "dwrite"
    /\ \/ /\ prof.there
          /\ WriteProfile(Subtract(page.hash, poll[y].call), page.on)
          /\ UNCHANGED <<calls, fails>>
          /\ Others(maker, [poll EXCEPT ![y].pc = "drow", ![y].page = NoPage], form)
       \/ /\ IF prof.there THEN MayFail ELSE UNCHANGED fails
          /\ UNCHANGED <<calls, prof>>
          /\ Others(maker, [poll EXCEPT ![y].pc = "next", ![y].call = Manual, ![y].page = NoPage], form)
    /\ UNCHANGED <<vk, mu, stop, saves, adrift>>

DropRow(y) ==
    /\ poll[y].pc = "drow"
    /\ \/ calls' = [calls EXCEPT ![poll[y].call] = "none"] /\ UNCHANGED fails
       \/ MayFail /\ UNCHANGED calls
    /\ UNCHANGED prof
    /\ Others(maker, [poll EXCEPT ![y].pc = "next", ![y].call = Manual, ![y].page = NoPage], form)
    /\ UNCHANGED <<vk, mu, stop, saves, adrift>>

-----------------------------------------------------------------------------
(***************************************************************************)
(* The form, and VK                                                        *)
(***************************************************************************)
FormOpen ==
    /\ ~form.open /\ prof.there /\ Left
    /\ form' = [open |-> TRUE, page |-> Page]
    /\ UNCHANGED <<calls, vk, prof, mu, maker, stop, poll, saves, fails, adrift>>

\* The list and the switch as the user leaves them.
FormSave(hash, on) ==
    /\ form.open /\ Left /\ saves' = saves + 1
    /\ WriteProfile(hash, on)
    /\ UNCHANGED calls
    /\ Others(maker, poll, NoForm)
    /\ UNCHANGED <<vk, mu, stop, fails, adrift>>
Edited(s) == {s, Without(s, {Manual}),
              IF Manual \in ToSet(s) THEN s ELSE Append(s, Manual)}

\* The host leaves.
CallEnds(c) ==
    /\ vk[c] = "on" /\ vk' = [vk EXCEPT ![c] = "over"]
    /\ UNCHANGED <<calls, prof, mu, maker, stop, poll, form, saves, fails, adrift>>

-----------------------------------------------------------------------------
Poll(y) == PollCalls(y) \/ PollUsers(y) \/ PollFix(y) \/ PollList(y) \/ PollDone(y)
           \/ PollAlive(y) \/ DropRead(y) \/ DropWrite(y) \/ DropRow(y)
StopGoesOn == StopMark \/ StopDelete
MakeGoesOn(x) == Insert(x) \/ Read(x) \/ Write(x)

Next ==
    \/ \E x \in Makers : Create(x) \/ MakeGoesOn(x)
    \/ \E y \in Pollers : Poll(y)
    \/ \E S \in SUBSET Calls, whole \in BOOLEAN : StopFinish(S, whole)
    \/ StopGoesOn
    \/ FormOpen
    \/ \E hash \in Edited(form.page.hash), on \in {form.page.on, FALSE} : FormSave(hash, on)
    \/ \E c \in Calls : CallEnds(c)

\* The panel's page polls the status while it is open.
Fairness == \A y \in Pollers : WF_vars(Poll(y))

Spec == Init /\ [][Next]_vars /\ Fairness

-----------------------------------------------------------------------------
(***************************************************************************)
(* Properties                                                              *)
(***************************************************************************)
\* The rows of a profile never exceed the limit that createVKCall checks.
CallLimit == Cardinality(Rows) <= MaxHashes

\* A call that runs at VK has a row, by which it can be finished, or is about to get
\* one; unless its row could not be saved, VK did not finish it or did not say that
\* it was running, or its profile was deleted.
NoStrayCall ==
    \A c \in Calls : vk[c] = "on" /\ calls[c] = "none" =>
        c \in adrift \/ \E x \in Makers : maker[x].pc = "insert" /\ maker[x].call = c

\* The call that is started and has no row yet.
Starting == {maker[x].call : x \in {x \in Makers : maker[x].pc = "insert"}}

\* What creating, finishing and reconciling promise of the calls, with three kinds of
\* request that share rows, profile and a mutex that not all of them take.
Book == INSTANCE CallBook WITH rows <- Rows, starting <- Starting
ImplementsBook == Book!Spec

\* The pages a step may write from.
Pages == {maker[x].page : x \in {x \in Makers : maker[x] # maker'[x]}} \cup
         {poll[y].page : y \in {y \in Pollers : poll[y] # poll'[y]}} \cup
         (IF form # form' THEN {form.page} ELSE {})

\* What a step may do to a profile that stays, unless it writes from a page that was
\* read before something else changed.
UndoesNothing ==
    prof.there /\ prof'.there =>
        \/ \E page \in Pages : page.crossed
        \/ /\ \A c \in ToSet(prof'.hash) \ ToSet(prof.hash) : c = Manual \/ calls[c] = "active"
           /\ (Manual \in ToSet(prof.hash) \ ToSet(prof'.hash) \/ prof'.on # prof.on)
                 => saves' # saves \/ Len(prof.hash) > MaxHashes

\* The hash of a call comes into a profile only while its row is active, the typed
\* hash leaves it and the profile is switched only by the form or by what exceeds
\* the limit, unless the writer's page was read before something else changed.
OnlyStaleWritesUndo == [][UndoesNothing]_vars

\* An active call gets its hash into the profile.
ActiveIsListed ==
    \A c \in Calls : calls[c] = "active" ~>
        calls[c] # "active" \/ c \in ToSet(prof.hash) \/ ~prof.there

\* A call that was stopped loses its row, though its preview still answers and writes
\* fail; unless its profile is gone, without which no row is dropped.
StoppedIsDropped ==
    \A c \in Calls : calls[c] = "finishing" ~> calls[c] = "none" \/ ~prof.there
=============================================================================
