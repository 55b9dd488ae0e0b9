------------------------------ MODULE CallBook ------------------------------
(***************************************************************************)
(* What the panel promises about the VK calls of a profile, whatever       *)
(* requests, pages and mutexes it is made of: one call is started at a     *)
(* time, while the book has room for it, and its row is entered at once;   *)
(* a row is struck out only when its call is over, or was let go for a     *)
(* reason of its own.                                                      *)
(***************************************************************************)
EXTENDS Integers, FiniteSets

CONSTANTS Calls, MaxHashes

VARIABLES
    vk,        \* the call at VK: "none", "on" or "over"
    starting,  \* the call started whose row is not entered yet
    rows,      \* the calls in the book
    adrift     \* the calls let go

vars == <<vk, starting, rows, adrift>>

Init ==
    /\ vk = [c \in Calls |-> "none"]
    /\ starting = {} /\ rows = {} /\ adrift = {}

Start(c) ==
    /\ vk[c] = "none" /\ starting = {} /\ Cardinality(rows) < MaxHashes
    /\ vk' = [vk EXCEPT ![c] = "on"]
    /\ starting' = {c}
    /\ UNCHANGED <<rows, adrift>>

Enter(c) ==
    /\ c \in starting
    /\ rows' = rows \cup {c} /\ starting' = {}
    /\ UNCHANGED <<vk, adrift>>

\* The row cannot be entered.
Forget(c) ==
    /\ c \in starting
    /\ adrift' = adrift \cup {c} /\ starting' = {}
    /\ UNCHANGED <<vk, rows>>

\* The host leaves.
End(c) ==
    /\ vk[c] = "on"
    /\ vk' = [vk EXCEPT ![c] = "over"]
    /\ UNCHANGED <<starting, rows, adrift>>

\* Calls in the book are finished, and others let go which VK would not finish; no
\* call is started meanwhile.
Finish(S, T) ==
    /\ S \subseteq rows /\ T \subseteq {c \in rows : vk[c] = "on"} /\ starting = {}
    /\ vk' = [c \in Calls |-> IF c \in S THEN "over" ELSE vk[c]]
    /\ adrift' = adrift \cup T
    /\ UNCHANGED <<starting, rows>>

\* VK does not say of a call that it runs.
LetGo(c) ==
    /\ vk[c] = "on"
    /\ adrift' = adrift \cup {c}
    /\ UNCHANGED <<vk, starting, rows>>

Strike(c) ==
    /\ c \in rows /\ (vk[c] = "over" \/ c \in adrift)
    /\ rows' = rows \ {c}
    /\ UNCHANGED <<vk, starting, adrift>>

\* The profile is deleted, and the book with it.
Discard ==
    /\ adrift' = adrift \cup rows /\ rows' = {}
    /\ UNCHANGED <<vk, starting>>

Next ==
    \/ \E c \in Calls : Start(c) \/ Enter(c) \/ Forget(c) \/ End(c) \/ LetGo(c) \/ Strike(c)
    \/ \E S, T \in SUBSET Calls : Finish(S, T)
    \/ Discard

Spec == Init /\ [][Next]_vars

-----------------------------------------------------------------------------
(* What the book is for: the call that is being started has room in it, no *)
(* call is started or finished beside another, and a call that runs is in  *)
(* the book unless it was let go.                                          *)
Kept ==
    /\ IsFiniteSet(rows \cup starting) /\ Cardinality(rows \cup starting) <= MaxHashes
    /\ \A c, e \in starting : c = e
    /\ \A c \in Calls : vk[c] = "on" => c \in rows \cup starting \cup adrift
    /\ \A c \in rows \cup starting : vk[c] # "none"
=============================================================================
