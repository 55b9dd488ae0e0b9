--------------------------- MODULE MC_TrafficSync ---------------------------
(***************************************************************************)
(* What the safety run of TrafficSync needs beyond constants: a view and a *)
(* bound, neither of which hides a violation of its invariants.            *)
(***************************************************************************)
EXTENDS TrafficSync

\* Units from before u's last reset are still somewhere.  Once there are none,
\* only a reset can bring them about: every other step copies counters, takes
\* the larger of two or counts a unit that since counts as well.
Old(u) == \/ StaleIn(mem, u) \/ StaleIn(disk, u) \/ StaleIn(snap, u)
          \/ target = u /\ entry.used > since[u]

\* The invariants read raced only of such a user, and resetRev only if its
\* reset has met no window; no guard reads either, nor, in this run, want.
Concern(u) == IF Old(u) THEN IF raced[u] THEN 0 ELSE resetRev[u] ELSE -1

View == <<disk, rev, mem, applied, dirty, mu, pc, seen, rrev, trust, snap,
          target, entry, since, [u \in Users |-> Concern(u)]>>

\* With no revision left for a reset, and no user an invariant could fail of,
\* the rest of the run shows nothing.
StillOfConcern == rev < MaxRev \/ \E u \in Users : Old(u) /\ ~raced[u]
=============================================================================
