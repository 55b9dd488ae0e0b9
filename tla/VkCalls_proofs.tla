---------------------------- MODULE VkCalls_proofs ----------------------------
(***************************************************************************)
(* Proofs about VkCalls for any calls, requests and limits: types, the     *)
(* limit of rows, the calls that run without one, and who may undo what    *)
(* others wrote to a profile.                                              *)
(***************************************************************************)
EXTENDS VkCalls, FiniteSetTheorems, SequenceTheorems, TLAPS

-----------------------------------------------------------------------------
(***************************************************************************)
(* Lists                                                                   *)
(***************************************************************************)
LEMMA ToSetSeq ==
    ASSUME NEW T, NEW s \in Seq(T)
    PROVE  /\ \A x : x \in ToSet(s) <=> \E i \in 1..Len(s) : s[i] = x
           /\ ToSet(s) \subseteq T
           /\ Len(s) \in Nat
BY DEF ToSet

LEMMA ToSetConcat ==
    ASSUME NEW T, NEW s \in Seq(T), NEW t \in Seq(T)
    PROVE  s \o t \in Seq(T) /\ ToSet(s \o t) = ToSet(s) \cup ToSet(t)
<1> DEFINE st == s \o t
<1>1. st \in Seq(T) /\ Len(st) = Len(s) + Len(t) /\ Len(s) \in Nat /\ Len(t) \in Nat
    BY ConcatProperties
<1>2. \A i \in 1..Len(s) : i \in 1..Len(st) /\ st[i] = s[i]
    BY <1>1
<1>3. \A i \in 1..Len(t) : Len(s) + i \in 1..Len(st) /\ st[Len(s) + i] = t[i]
    BY <1>1
<1>4. \A i \in 1..Len(st) :
        \/ i \in 1..Len(s) /\ st[i] = s[i]
        \/ i - Len(s) \in 1..Len(t) /\ st[i] = t[i - Len(s)]
    BY <1>1
<1> HIDE DEF st
<1>5. \A x : x \in ToSet(st) <=> \E i \in 1..Len(st) : st[i] = x
    BY <1>1, ToSetSeq
<1>6. \A x : x \in ToSet(s) <=> \E i \in 1..Len(s) : s[i] = x
    BY ToSetSeq
<1>7. \A x : x \in ToSet(t) <=> \E i \in 1..Len(t) : t[i] = x
    BY ToSetSeq
<1>8. ASSUME NEW x PROVE x \in ToSet(st) <=> x \in ToSet(s) \/ x \in ToSet(t)
    <2>1. ASSUME x \in ToSet(st) PROVE x \in ToSet(s) \/ x \in ToSet(t)
        <3>1. PICK i \in 1..Len(st) : st[i] = x
            BY <1>5, <2>1
        <3> QED BY <1>4, <1>6, <1>7, <3>1
    <2>2. ASSUME x \in ToSet(s) PROVE x \in ToSet(st)
        BY <1>2, <1>5, <1>6, <2>2
    <2>3. ASSUME x \in ToSet(t) PROVE x \in ToSet(st)
        BY <1>3, <1>5, <1>7, <2>3
    <2> QED BY <2>1, <2>2, <2>3
<1> QED BY <1>1, <1>8 DEF st

LEMMA ToSetAppend ==
    ASSUME NEW T, NEW s \in Seq(T), NEW e \in T
    PROVE  /\ Append(s, e) \in Seq(T) /\ Len(Append(s, e)) = Len(s) + 1
           /\ ToSet(Append(s, e)) = ToSet(s) \cup {e}
<1>1. Append(s, e) = s \o <<e>> /\ <<e>> \in Seq(T)
    BY AppendIsConcat
<1>2. \A x : x \in ToSet(<<e>>) <=> x = e
    BY DEF ToSet
<1>3. ToSet(<<e>>) = {e}
    BY <1>2
<1>4. ToSet(s \o <<e>>) = ToSet(s) \cup ToSet(<<e>>)
    <2> DEFINE one == <<e>>
    <2>1. one \in Seq(T)
        BY <1>1
    <2> HIDE DEF one
    <2>2. ToSet(s \o one) = ToSet(s) \cup ToSet(one)
        BY <2>1, ToSetConcat
    <2> QED BY <2>2 DEF one
<1> QED BY <1>1, <1>3, <1>4, AppendProperties

\* Normalize keeps a beginning of the list, all of it if it is within the limit.
LEMMA NormalizeIs ==
    ASSUME NEW T, NEW s \in Seq(T)
    PROVE  /\ Normalize(s) \in Seq(T)
           /\ ToSet(Normalize(s)) \subseteq ToSet(s)
           /\ Len(Normalize(s)) <= MaxHashes
           /\ Len(s) <= MaxHashes => Normalize(s) = s
           /\ \A i \in 1..Len(s) : i <= MaxHashes => s[i] \in ToSet(Normalize(s))
<1> DEFINE n == IF Len(s) < MaxHashes THEN Len(s) ELSE MaxHashes
           t == SubSeq(s, 1, n)
<1>1. n \in 0..Len(s) /\ n <= MaxHashes /\ (Len(s) <= MaxHashes => n = Len(s))
    BY BoundsAssumption DEF BoundsAssumption
<1> HIDE DEF n
<1>2. t \in Seq(T) /\ Len(t) = n /\ \A i \in 1..n : t[i] = s[i]
    BY <1>1, SubSeqProperties
<1>3. ToSet(t) \subseteq ToSet(s)
    <2>1. \A x : x \in ToSet(t) <=> \E i \in 1..Len(t) : t[i] = x
        BY <1>2, ToSetSeq
    <2>2. \A x : x \in ToSet(s) <=> \E i \in 1..Len(s) : s[i] = x
        BY ToSetSeq
    <2> HIDE DEF t
    <2> QED BY <1>1, <1>2, <2>1, <2>2
<1>4. n = Len(s) => t = s
    BY SubSeqFull
<1>5. Normalize(s) = t
    BY DEF Normalize, n
<1>6. ASSUME NEW i \in 1..Len(s), i <= MaxHashes PROVE s[i] \in ToSet(t)
    <2>1. i \in 1..n
        BY <1>1, <1>6, BoundsAssumption DEF n, BoundsAssumption
    <2> HIDE DEF t
    <2> QED BY <1>2, <2>1, ToSetSeq
<1> QED BY <1>1, <1>2, <1>3, <1>4, <1>5, <1>6

\* SetToSeq of a finite set lists its elements.
LEMMA SetToSeqIs ==
    ASSUME NEW S, IsFiniteSet(S)
    PROVE  SetToSeq(S) \in Seq(S) /\ ToSet(SetToSeq(S)) = S
<1> DEFINE n == Cardinality(S)
<1>1. n \in Nat /\ ExistsBijection(1..n, S)
    BY FS_CardinalityType
<1>2. PICK f \in Bijection(1..n, S) : TRUE
    BY <1>1 DEF ExistsBijection
<1>3. f \in [1..n -> S] /\ IsInjective(f)
    BY <1>2 DEF Bijection, Injection, IsInjective
<1>4. SetToSeq(S) \in [1..n -> S] /\ IsInjective(SetToSeq(S))
    BY <1>3 DEF SetToSeq
<1>5. SetToSeq(S) \in Injection(1..n, S)
    BY <1>4 DEF Injection, IsInjective
<1>6. IsFiniteSet(1..n) /\ Cardinality(1..n) = n
    BY <1>1, FS_Interval
<1>7. SetToSeq(S) \in Surjection(1..n, S)
    BY <1>5, <1>6, FS_Injection
<1>8. SetToSeq(S) \in Seq(S) /\ Len(SetToSeq(S)) = n
    BY <1>1, <1>4
<1>9. \A x \in S : \E i \in 1..n : SetToSeq(S)[i] = x
    BY <1>7 DEF Surjection
<1>10. /\ \A x : x \in ToSet(SetToSeq(S)) <=> \E i \in 1..n : SetToSeq(S)[i] = x
       /\ ToSet(SetToSeq(S)) \subseteq S
    BY <1>8, ToSetSeq
<1> QED BY <1>8, <1>9, <1>10

\* The members of a finite set of numbers are counted off by how many are smaller.
LEMMA Ranks ==
    ASSUME NEW K \in SUBSET Nat, IsFiniteSet(K)
    PROVE  /\ \A i, j \in K : Cardinality({k \in K : k < i}) = Cardinality({k \in K : k < j}) => i = j
           /\ \A i \in K : Cardinality({k \in K : k < i}) + 1 \in 1..Cardinality(K)
           /\ \A n \in 1..Cardinality(K) : \E i \in K : Cardinality({k \in K : k < i}) = n - 1
<1> DEFINE Below(i) == {k \in K : k < i}
           f == [i \in K |-> Cardinality(Below(i)) + 1]
<1>1. Cardinality(K) \in Nat
    BY FS_CardinalityType
<1>2. ASSUME NEW i \in K PROVE IsFiniteSet(Below(i)) /\ Cardinality(Below(i)) \in Nat
    <2>1. Below(i) \subseteq K
        OBVIOUS
    <2> QED BY <2>1, FS_Subset, FS_CardinalityType
<1>3. ASSUME NEW i \in K PROVE Cardinality(Below(i)) < Cardinality(K)
    <2>1. IsFiniteSet(K \ {i}) /\ Cardinality(K \ {i}) = Cardinality(K) - 1
        BY FS_RemoveElement
    <2>2. Below(i) \subseteq K \ {i}
        OBVIOUS
    <2>3. Cardinality(Below(i)) <= Cardinality(K \ {i})
        BY <2>1, <2>2, FS_Subset
    <2> QED BY <1>1, <1>2, <2>1, <2>3
<1>4. ASSUME NEW i \in K, NEW j \in K, i < j
      PROVE  Cardinality(Below(i)) < Cardinality(Below(j))
    <2>1. IsFiniteSet(Below(j)) /\ i \in Below(j)
        BY <1>2, <1>4
    <2>2. IsFiniteSet(Below(j) \ {i}) /\ Cardinality(Below(j) \ {i}) = Cardinality(Below(j)) - 1
        BY <2>1, FS_RemoveElement
    <2>3. Below(i) \subseteq Below(j) \ {i}
        <3> SUFFICES ASSUME NEW k \in K, k < i PROVE k < j /\ k # i
            OBVIOUS
        <3>1. i \in Nat /\ j \in Nat /\ k \in Nat
            OBVIOUS
        <3> QED BY <1>4, <3>1
    <2>4. Cardinality(Below(i)) <= Cardinality(Below(j) \ {i})
        BY <2>2, <2>3, FS_Subset
    <2>5. Cardinality(Below(i)) \in Nat /\ Cardinality(Below(j)) \in Nat
        BY <1>2
    <2> HIDE DEF Below
    <2> QED BY <2>2, <2>4, <2>5
<1>5. \A i, j \in K : Cardinality(Below(i)) = Cardinality(Below(j)) => i = j
    <2> SUFFICES ASSUME NEW i \in K, NEW j \in K, Cardinality(Below(i)) = Cardinality(Below(j)), i # j
                 PROVE  FALSE
        OBVIOUS
    <2>1. i < j \/ j < i
        OBVIOUS
    <2>2. Cardinality(Below(i)) \in Nat
        BY <1>2
    <2> HIDE DEF Below
    <2> QED BY <2>1, <2>2, <1>4
<1>6. \A i \in K : Cardinality(Below(i)) + 1 \in 1..Cardinality(K)
    <2> HIDE DEF Below
    <2> QED BY <1>1, <1>2, <1>3
<1>7. f \in Injection(K, 1..Cardinality(K))
    <2>1. f \in [K -> 1..Cardinality(K)]
        BY <1>6
    <2>2. \A i, j \in K : f[i] = f[j] => i = j
        <3> HIDE DEF Below
        <3> QED BY <1>2, <1>5
    <2> HIDE DEF f
    <2> QED BY <2>1, <2>2 DEF Injection, IsInjective
<1>8. IsFiniteSet(1..Cardinality(K)) /\ Cardinality(1..Cardinality(K)) = Cardinality(K)
    BY <1>1, FS_Interval
<1>9. f \in Surjection(K, 1..Cardinality(K))
    BY <1>7, <1>8, FS_Injection
<1>10. \A n \in 1..Cardinality(K) : \E i \in K : f[i] = n
    BY <1>9 DEF Surjection
<1>11. \A n \in 1..Cardinality(K) : \E i \in K : Cardinality(Below(i)) = n - 1
    <2> HIDE DEF Below
    <2> QED BY <1>1, <1>2, <1>10
<1> QED BY <1>5, <1>6, <1>11

\* What stays of a list is the list without what goes.
LEMMA WithoutIs ==
    ASSUME NEW T, NEW s \in Seq(T), NEW S
    PROVE  /\ Without(s, S) \in Seq(T) /\ ToSet(Without(s, S)) = ToSet(s) \ S
           /\ Len(Without(s, S)) <= Len(s)
<1> DEFINE K == {i \in DOMAIN s : s[i] \notin S}
           rank(i) == Cardinality({k \in K : k < i})
           at(j) == CHOOSE i \in K : rank(i) = j - 1
           w == [j \in 1..Cardinality(K) |-> s[at(j)]]
<1>1. /\ K \in SUBSET Nat /\ IsFiniteSet(K) /\ Cardinality(K) \in Nat /\ K \subseteq 1..Len(s)
      /\ Cardinality(K) <= Len(s)
    <2>1. /\ IsFiniteSet(1..Len(s)) /\ DOMAIN s = 1..Len(s) /\ 1..Len(s) \subseteq Nat
          /\ Cardinality(1..Len(s)) = Len(s)
        <3>1. Len(s) \in Nat
            OBVIOUS
        <3>2. IsFiniteSet(1..Len(s)) /\ Cardinality(1..Len(s)) = IF 1 > Len(s) THEN 0 ELSE Len(s) - 1 + 1
            BY <3>1, FS_Interval, SMTT(20)
        <3> QED BY <3>1, <3>2
    <2>2. K \subseteq 1..Len(s)
        BY <2>1
    <2> HIDE DEF K
    <2>3. IsFiniteSet(K) /\ Cardinality(K) <= Cardinality(1..Len(s))
        BY <2>1, <2>2, FS_Subset
    <2> QED BY <2>1, <2>2, <2>3, FS_CardinalityType
<1>2. \A x : x \in ToSet(s) \ S <=> \E i \in K : s[i] = x
    BY DEF ToSet
<1>3. \A i \in K : s[i] \in T
    OBVIOUS
<1> HIDE DEF K
<1>4. /\ \A i, j \in K : rank(i) = rank(j) => i = j
      /\ \A i \in K : rank(i) + 1 \in 1..Cardinality(K)
      /\ \A j \in 1..Cardinality(K) : \E i \in K : rank(i) = j - 1
    BY <1>1, Ranks
<1>5. \A i \in K : rank(i) \in Nat
    <2>1. ASSUME NEW i \in K PROVE rank(i) \in Nat
        <3>1. {k \in K : k < i} \subseteq K
            OBVIOUS
        <3> QED BY <1>1, <3>1, FS_Subset, FS_CardinalityType
    <2> QED BY <2>1
<1> HIDE DEF rank
<1>6. \A j \in 1..Cardinality(K) : at(j) \in K /\ rank(at(j)) = j - 1
    BY <1>4
<1> HIDE DEF at
<1>7. \A i \in K : \E j \in 1..Cardinality(K) : at(j) = i
    <2> SUFFICES ASSUME NEW i \in K PROVE \E j \in 1..Cardinality(K) : at(j) = i
        OBVIOUS
    <2>1. PICK j \in 1..Cardinality(K) : rank(i) = j - 1
        BY <1>4, <1>5
    <2>2. at(j) \in K /\ rank(at(j)) = j - 1
        BY <1>6
    <2> QED BY <1>4, <2>1, <2>2
<1>8. w \in Seq(T) /\ Len(w) = Cardinality(K)
    <2>1. \A j \in 1..Cardinality(K) : s[at(j)] \in T
        BY <1>3, <1>6
    <2>2. w \in [1..Cardinality(K) -> T]
        BY <2>1
    <2> HIDE DEF w
    <2> QED BY <1>1, <2>2
<1>9. \A x : x \in ToSet(w) <=> \E j \in 1..Cardinality(K) : w[j] = x
    <2> HIDE DEF w
    <2> QED BY <1>8, ToSetSeq
<1>10. \A x : x \in ToSet(w) <=> \E i \in K : s[i] = x
    BY <1>6, <1>7, <1>9
<1>11. Without(s, S) = w
    BY DEF Without, w, K, at, rank
<1> HIDE DEF w
<1>12. ToSet(w) = ToSet(s) \ S
    BY <1>2, <1>10
<1> QED BY <1>1, <1>8, <1>11, <1>12

\* mergeVKHashes adds the hash, and loses nothing of a list within the limit.
LEMMA MergeIs ==
    ASSUME NEW s \in Seq(Hashes), NEW h \in Hashes
    PROVE  /\ Merge(s, h) \in Seq(Hashes) /\ Len(Merge(s, h)) <= MaxHashes
           /\ ToSet(Merge(s, h)) \subseteq ToSet(s) \cup {h}
           /\ Len(s) <= MaxHashes => ToSet(s) \subseteq ToSet(Merge(s, h))
<1> DEFINE n == Normalize(s)
           t == Append(n, h)
<1>1. /\ n \in Seq(Hashes) /\ ToSet(n) \subseteq ToSet(s) /\ Len(n) <= MaxHashes
      /\ Len(s) <= MaxHashes => n = s
    BY NormalizeIs
<1> HIDE DEF n
<1>2. t \in Seq(Hashes) /\ Len(t) = Len(n) + 1 /\ ToSet(t) = ToSet(n) \cup {h}
    BY <1>1, ToSetAppend
<1>3. /\ Normalize(t) \in Seq(Hashes) /\ Len(Normalize(t)) <= MaxHashes
      /\ ToSet(Normalize(t)) \subseteq ToSet(t)
      /\ \A i \in 1..Len(t) : i <= MaxHashes => t[i] \in ToSet(Normalize(t))
    BY <1>2, NormalizeIs
<1>4. CASE h \in ToSet(s)
    BY <1>1, <1>4 DEF Merge, n
<1>5. CASE h \notin ToSet(s)
    <2>1. Merge(s, h) = Normalize(t)
        BY <1>5 DEF Merge, n
    <2>2. ASSUME Len(s) <= MaxHashes, NEW x \in ToSet(s) PROVE x \in ToSet(Normalize(t))
        <3>1. PICK i \in 1..Len(s) : s[i] = x
            BY <2>2, ToSetSeq
        <3>2. t[i] = x /\ i \in 1..Len(t) /\ i <= MaxHashes
            BY <1>1, <1>2, <2>2, <3>1, AppendProperties, BoundsAssumption DEF BoundsAssumption
        <3> QED BY <1>3, <3>2
    <2> QED BY <1>1, <1>2, <1>3, <2>1, <2>2
<1> QED BY <1>4, <1>5

\* subtractVKHashes takes one hash out, and what exceeds the limit.
LEMMA SubtractIs ==
    ASSUME NEW s \in Seq(Hashes), NEW h
    PROVE  /\ Subtract(s, h) \in Seq(Hashes) /\ Len(Subtract(s, h)) <= MaxHashes
           /\ ToSet(Subtract(s, h)) \subseteq ToSet(s)
           /\ Len(s) <= MaxHashes => ToSet(Subtract(s, h)) = ToSet(s) \ {h}
<1>1. /\ Normalize(s) \in Seq(Hashes) /\ Len(Normalize(s)) <= MaxHashes /\ ToSet(Normalize(s)) \subseteq ToSet(s)
      /\ Len(s) <= MaxHashes => Normalize(s) = s
    BY NormalizeIs
<1>2. /\ Without(Normalize(s), {h}) \in Seq(Hashes)
      /\ ToSet(Without(Normalize(s), {h})) = ToSet(Normalize(s)) \ {h}
      /\ Len(Without(Normalize(s), {h})) <= Len(Normalize(s))
    BY <1>1, WithoutIs
<1>3. Len(Without(Normalize(s), {h})) <= MaxHashes
    <2>1. Len(Without(Normalize(s), {h})) \in Nat /\ Len(Normalize(s)) \in Nat
        BY <1>1, <1>2
    <2> QED BY <1>1, <1>2, <2>1, BoundsAssumption DEF BoundsAssumption
<1> QED BY <1>1, <1>2, <1>3 DEF Subtract

\* mergeVKHashReconcile: what is finishing goes, what is active comes.
LEMMA ReconcileIs ==
    ASSUME NEW s \in Seq(Hashes), NEW active \in SUBSET Calls, NEW ending \in SUBSET Calls
    PROVE  /\ Reconcile(s, active, ending) \in Seq(Hashes)
           /\ ToSet(Reconcile(s, active, ending)) = (ToSet(s) \ ending) \cup (active \ ToSet(s))
<1> DEFINE new == active \ ToSet(s)
<1>1. IsFiniteSet(new) /\ new \subseteq Hashes
    BY FS_Subset, CallsAssumption DEF CallsAssumption, Hashes
<1>2. SetToSeq(new) \in Seq(new) /\ ToSet(SetToSeq(new)) = new
    BY <1>1, SetToSeqIs
<1>3. SetToSeq(new) \in Seq(Hashes)
    BY <1>1, <1>2, SeqMonotonic
<1>4. Without(s, ending) \in Seq(Hashes) /\ ToSet(Without(s, ending)) = ToSet(s) \ ending
    BY WithoutIs
<1> HIDE DEF new
<1>5. /\ Without(s, ending) \o SetToSeq(new) \in Seq(Hashes)
      /\ ToSet(Without(s, ending) \o SetToSeq(new)) = ToSet(Without(s, ending)) \cup ToSet(SetToSeq(new))
    BY <1>3, <1>4, ToSetConcat
<1> QED BY <1>2, <1>4, <1>5 DEF Reconcile, new

-----------------------------------------------------------------------------
(***************************************************************************)
(* Types                                                                   *)
(***************************************************************************)
PageType == [hash : Seq(Hashes), on : BOOLEAN, crossed : BOOLEAN]
MakerType == [pc : {"idle", "insert", "read", "write"}, call : Hashes, page : PageType]
PollType == [pc : {"idle", "users", "fix", "list", "next", "dwrite", "drow"},
             active : SUBSET Calls, ending : SUBSET Calls, call : Hashes, page : PageType]
FormType == [open : BOOLEAN, page : PageType]
StopType == [pc : {"idle", "mark", "delete"}, set : SUBSET Calls, whole : BOOLEAN]

RowsType == /\ calls \in [Calls -> RowState]
            /\ vk \in [Calls -> {"none", "on", "over"}]
            /\ prof \in [there : BOOLEAN, on : BOOLEAN, hash : Seq(Hashes)]
            /\ mu \in Makers \cup {"stop", "free"}
            /\ stop \in StopType
            /\ saves \in Nat /\ fails \in Nat
            /\ adrift \in SUBSET Calls
HoldersType == /\ maker \in [Makers -> MakerType]
               /\ \A x \in Makers : maker[x].pc # "idle" => maker[x].call \in Calls
               /\ poll \in [Pollers -> PollType]
               /\ \A y \in Pollers : poll[y].pc \in {"dwrite", "drow"} => poll[y].call \in Calls
               /\ form \in FormType
VkType == RowsType /\ HoldersType

Moved == prof' # prof \/ calls' # calls

LEMMA NoPageType ==
    /\ <<>> \in Seq(Hashes) /\ NoPage \in PageType
    /\ Idle \in MakerType /\ Asleep \in PollType /\ NoForm \in FormType
<1>1. <<>> \in Seq(Hashes)
    OBVIOUS
<1> QED BY <1>1 DEF NoPage, PageType, Idle, MakerType, Asleep, PollType, NoForm, FormType, Hashes

LEMMA PageIs ==
    ASSUME RowsType
    PROVE  Page \in PageType /\ Page.hash = prof.hash /\ Page.on = prof.on /\ Page.crossed = FALSE
BY DEF RowsType, Page, PageType

\* Crossing a record changes nothing but the mark of its page.
LEMMA CrossedIs ==
    ASSUME NEW held \in BOOLEAN
    PROVE  /\ \A r \in MakerType :
                /\ Crossed(r, held) \in MakerType
                /\ Crossed(r, held).pc = r.pc /\ Crossed(r, held).call = r.call
                /\ Crossed(r, held).page.hash = r.page.hash
                /\ Crossed(r, held).page.on = r.page.on
                /\ Crossed(r, held).page.crossed = (r.page.crossed \/ held)
           /\ \A r \in PollType :
                /\ Crossed(r, held) \in PollType
                /\ Crossed(r, held).pc = r.pc /\ Crossed(r, held).call = r.call
                /\ Crossed(r, held).active = r.active /\ Crossed(r, held).ending = r.ending
                /\ Crossed(r, held).page.hash = r.page.hash
                /\ Crossed(r, held).page.on = r.page.on
                /\ Crossed(r, held).page.crossed = (r.page.crossed \/ held)
           /\ \A r \in FormType :
                /\ Crossed(r, held) \in FormType
                /\ Crossed(r, held).open = r.open
                /\ Crossed(r, held).page.hash = r.page.hash
                /\ Crossed(r, held).page.on = r.page.on
                /\ Crossed(r, held).page.crossed = (r.page.crossed \/ held)
<1>1. CASE held
    <2>1. ASSUME NEW r \in MakerType
          PROVE  /\ Crossed(r, TRUE) \in MakerType
                 /\ Crossed(r, TRUE).pc = r.pc /\ Crossed(r, TRUE).call = r.call
                 /\ Crossed(r, TRUE).page.hash = r.page.hash
                 /\ Crossed(r, TRUE).page.on = r.page.on
                 /\ Crossed(r, TRUE).page.crossed = TRUE
        BY DEF Crossed, MakerType, PageType
    <2>2. ASSUME NEW r \in PollType
          PROVE  /\ Crossed(r, TRUE) \in PollType
                 /\ Crossed(r, TRUE).pc = r.pc /\ Crossed(r, TRUE).call = r.call
                 /\ Crossed(r, TRUE).active = r.active /\ Crossed(r, TRUE).ending = r.ending
                 /\ Crossed(r, TRUE).page.hash = r.page.hash
                 /\ Crossed(r, TRUE).page.on = r.page.on
                 /\ Crossed(r, TRUE).page.crossed = TRUE
        BY DEF Crossed, PollType, PageType
    <2>3. ASSUME NEW r \in FormType
          PROVE  /\ Crossed(r, TRUE) \in FormType
                 /\ Crossed(r, TRUE).open = r.open
                 /\ Crossed(r, TRUE).page.hash = r.page.hash
                 /\ Crossed(r, TRUE).page.on = r.page.on
                 /\ Crossed(r, TRUE).page.crossed = TRUE
        BY DEF Crossed, FormType, PageType
    <2> QED BY <1>1, <2>1, <2>2, <2>3
<1>2. CASE ~held
    BY <1>2 DEF Crossed, MakerType, PollType, FormType, PageType
<1> QED BY <1>1, <1>2

\* What Others makes of the records, in terms of those it is given.
LEMMA OthersIs ==
    ASSUME NEW m \in [Makers -> MakerType], NEW p \in [Pollers -> PollType], NEW f \in FormType,
           Others(m, p, f)
    PROVE  /\ maker' \in [Makers -> MakerType] /\ poll' \in [Pollers -> PollType]
           /\ form' \in FormType
           /\ \A x \in Makers :
                /\ maker'[x].pc = m[x].pc /\ maker'[x].call = m[x].call
                /\ maker'[x].page.hash = m[x].page.hash /\ maker'[x].page.on = m[x].page.on
                /\ maker'[x].page.crossed = (m[x].page.crossed \/ (Moved /\ m[x].pc \in Holding))
           /\ \A y \in Pollers :
                /\ poll'[y].pc = p[y].pc /\ poll'[y].call = p[y].call
                /\ poll'[y].active = p[y].active /\ poll'[y].ending = p[y].ending
                /\ poll'[y].page.hash = p[y].page.hash /\ poll'[y].page.on = p[y].page.on
                /\ poll'[y].page.crossed = (p[y].page.crossed \/ (Moved /\ p[y].pc \in Holding))
           /\ form'.open = f.open
           /\ form'.page.hash = f.page.hash /\ form'.page.on = f.page.on
           /\ form'.page.crossed = (f.page.crossed \/ (Moved /\ f.open))
<1>1. /\ maker' = [x \in Makers |-> Crossed(m[x], Moved /\ m[x].pc \in Holding)]
      /\ poll' = [y \in Pollers |-> Crossed(p[y], Moved /\ p[y].pc \in Holding)]
      /\ form' = Crossed(f, Moved /\ f.open)
    BY DEF Others, Moved
<1>2. ASSUME NEW x \in Makers
      PROVE  /\ maker'[x] \in MakerType
             /\ maker'[x].pc = m[x].pc /\ maker'[x].call = m[x].call
             /\ maker'[x].page.hash = m[x].page.hash /\ maker'[x].page.on = m[x].page.on
             /\ maker'[x].page.crossed = (m[x].page.crossed \/ (Moved /\ m[x].pc \in Holding))
    <2> DEFINE h == Moved /\ m[x].pc \in Holding
    <2>1. h \in BOOLEAN /\ m[x] \in MakerType /\ maker'[x] = Crossed(m[x], h)
        BY <1>1
    <2> HIDE DEF h
    <2>2. /\ maker'[x] \in MakerType
          /\ maker'[x].pc = m[x].pc /\ maker'[x].call = m[x].call
          /\ maker'[x].page.hash = m[x].page.hash /\ maker'[x].page.on = m[x].page.on
          /\ maker'[x].page.crossed = (m[x].page.crossed \/ h)
        BY <2>1, CrossedIs
    <2> QED BY <2>2 DEF h
<1>3. ASSUME NEW y \in Pollers
      PROVE  /\ poll'[y] \in PollType
             /\ poll'[y].pc = p[y].pc /\ poll'[y].call = p[y].call
             /\ poll'[y].active = p[y].active /\ poll'[y].ending = p[y].ending
             /\ poll'[y].page.hash = p[y].page.hash /\ poll'[y].page.on = p[y].page.on
             /\ poll'[y].page.crossed = (p[y].page.crossed \/ (Moved /\ p[y].pc \in Holding))
    <2> DEFINE h == Moved /\ p[y].pc \in Holding
    <2>1. h \in BOOLEAN /\ p[y] \in PollType /\ poll'[y] = Crossed(p[y], h)
        BY <1>1
    <2> HIDE DEF h
    <2>2. /\ poll'[y] \in PollType
          /\ poll'[y].pc = p[y].pc /\ poll'[y].call = p[y].call
          /\ poll'[y].active = p[y].active /\ poll'[y].ending = p[y].ending
          /\ poll'[y].page.hash = p[y].page.hash /\ poll'[y].page.on = p[y].page.on
          /\ poll'[y].page.crossed = (p[y].page.crossed \/ h)
        BY <2>1, CrossedIs
    <2> QED BY <2>2 DEF h
<1>4. /\ form' \in FormType
      /\ form'.open = f.open
      /\ form'.page.hash = f.page.hash /\ form'.page.on = f.page.on
      /\ form'.page.crossed = (f.page.crossed \/ (Moved /\ f.open))
    <2> DEFINE h == Moved /\ f.open
    <2>1. h \in BOOLEAN /\ form' = Crossed(f, h)
        BY <1>1
    <2> HIDE DEF h
    <2>2. /\ form' \in FormType /\ form'.open = f.open
          /\ form'.page.hash = f.page.hash /\ form'.page.on = f.page.on
          /\ form'.page.crossed = (f.page.crossed \/ h)
        BY <2>1, CrossedIs
    <2> QED BY <2>2 DEF h
<1>5. maker' \in [Makers -> MakerType] /\ poll' \in [Pollers -> PollType]
    BY <1>1, <1>2, <1>3
<1> QED BY <1>2, <1>3, <1>4, <1>5

SameLists(q, r) == q.pc = r.pc /\ q.call = r.call /\ q.active = r.active /\ q.ending = r.ending

LEMMA OthersKeep ==
    ASSUME NEW m \in [Makers -> MakerType], NEW p \in [Pollers -> PollType], NEW f \in FormType,
           Others(m, p, f)
    PROVE  /\ \A x \in Makers : maker'[x].pc = m[x].pc /\ maker'[x].call = m[x].call
           /\ \A y \in Pollers : SameLists(poll'[y], p[y])
BY OthersIs DEF SameLists

LEMMA OthersType ==
    ASSUME NEW m \in [Makers -> MakerType], NEW p \in [Pollers -> PollType], NEW f \in FormType,
           \A x \in Makers : m[x].pc # "idle" => m[x].call \in Calls,
           \A y \in Pollers : p[y].pc \in {"dwrite", "drow"} => p[y].call \in Calls,
           Others(m, p, f)
    PROVE  HoldersType'
<1>1. /\ maker' \in [Makers -> MakerType] /\ poll' \in [Pollers -> PollType] /\ form' \in FormType
    BY OthersIs
<1>2. /\ \A x \in Makers : maker'[x].pc = m[x].pc /\ maker'[x].call = m[x].call
      /\ \A y \in Pollers : SameLists(poll'[y], p[y])
    BY OthersKeep
<1> QED BY <1>1, <1>2 DEF HoldersType, SameLists

\* What the server writes to a profile is a profile.
LEMMA WriteProfileType ==
    ASSUME RowsType, NEW hash \in Seq(Hashes), NEW on \in BOOLEAN, WriteProfile(hash, on)
    PROVE  prof' \in [there : BOOLEAN, on : BOOLEAN, hash : Seq(Hashes)]
<1>1. Normalize(hash) \in Seq(Hashes)
    BY NormalizeIs
<1> QED BY <1>1 DEF WriteProfile, RowsType

-----------------------------------------------------------------------------
(***************************************************************************)
(* Every step keeps the types                                              *)
(***************************************************************************)
LEMMA CreateType == ASSUME VkType, NEW x \in Makers, Create(x) PROVE VkType'
<1>1. PICK c \in Calls : /\ vk' = [vk EXCEPT ![c] = "on"]
                         /\ maker' = [maker EXCEPT ![x].pc = "insert", ![x].call = c]
    BY DEF Create
<1>2. [maker[x] EXCEPT !.pc = "insert", !.call = c] \in MakerType
    BY DEF VkType, HoldersType, MakerType, Hashes
<1>3. /\ maker' \in [Makers -> MakerType]
      /\ \A z \in Makers : maker'[z].pc # "idle" => maker'[z].call \in Calls
    BY <1>1, <1>2 DEF VkType, HoldersType, MakerType
<1>4. HoldersType'
    BY <1>3 DEF Create, VkType, HoldersType
<1>5. RowsType'
    BY <1>1 DEF Create, VkType, RowsType
<1> QED BY <1>4, <1>5 DEF VkType

LEMMA InsertType == ASSUME VkType, NEW x \in Makers, Insert(x) PROVE VkType'
<1> USE DEF VkType
<1>1. maker[x] \in MakerType /\ maker[x].pc = "insert" /\ maker[x].call \in Calls
    BY DEF Insert, HoldersType
<1>2. ASSUME NEW m \in [Makers -> MakerType], Others(m, poll, form),
             \A z \in Makers : m[z].pc # "idle" => m[z].call \in Calls
      PROVE  HoldersType'
    BY <1>2, OthersType DEF HoldersType
<1>3. HoldersType'
    <2> DEFINE reads == [maker EXCEPT ![x].pc = "read"]
               idles == [maker EXCEPT ![x] = Idle]
    <2>1. Others(reads, poll, form) \/ Others(idles, poll, form)
        BY DEF Insert
    <2>2. reads \in [Makers -> MakerType] /\ \A z \in Makers : reads[z].pc # "idle" => reads[z].call \in Calls
        BY <1>1 DEF HoldersType, MakerType
    <2>3. idles \in [Makers -> MakerType] /\ \A z \in Makers : idles[z].pc # "idle" => idles[z].call \in Calls
        BY NoPageType DEF HoldersType, Idle
    <2> HIDE DEF reads, idles
    <2> QED BY <1>2, <2>1, <2>2, <2>3
<1>4. RowsType'
    BY <1>1 DEF Insert, MayFail, RowState, RowsType
<1> QED BY <1>3, <1>4

\* What reading the profile makes of the request's record.
LEMMA ReadIs ==
    ASSUME VkType, NEW x \in Makers, Read(x)
    PROVE  /\ UNCHANGED <<calls, vk, prof, mu, stop, poll, form, saves, adrift>> /\ fails' \in Nat
           /\ maker[x].pc = "read" /\ maker[x].call \in Calls
           /\ \E r \in MakerType :
                /\ maker' = [maker EXCEPT ![x] = r]
                /\ \/ r.pc = "idle"
                   \/ /\ r.pc = "write" /\ r.call = maker[x].call
                      /\ r.page = [Page EXCEPT !.crossed = calls[maker[x].call] # "active"]
<1> DEFINE page == [Page EXCEPT !.crossed = calls[maker[x].call] # "active"]
           q == [maker[x] EXCEPT !.pc = "write", !.page = page]
<1>1. maker[x] \in MakerType /\ maker[x].pc = "read" /\ maker[x].call \in Calls /\ Idle \in MakerType
    BY NoPageType DEF Read, HoldersType, VkType
<1>2. page \in PageType
    BY PageIs DEF VkType, PageType
<1>3. maker' = [maker EXCEPT ![x] = q] \/ maker' = [maker EXCEPT ![x] = Idle]
    BY DEF Read
<1> HIDE DEF page
<1>4. q \in MakerType /\ q.pc = "write" /\ q.call = maker[x].call /\ q.page = page
    BY <1>1, <1>2 DEF MakerType
<1>5. fails' \in Nat
    BY DEF Read, MayFail, VkType, RowsType
<1> HIDE DEF q
<1>6. Idle.pc = "idle"
    BY DEF Idle
<1>7. UNCHANGED <<calls, vk, prof, mu, stop, poll, form, saves, adrift>>
    BY DEF Read
<1>8. page = [Page EXCEPT !.crossed = calls[maker[x].call] # "active"]
    BY DEF page
<1>9. CASE maker' = [maker EXCEPT ![x] = q]
    BY <1>1, <1>4, <1>5, <1>7, <1>8, <1>9
<1>10. CASE maker' = [maker EXCEPT ![x] = Idle]
    BY <1>1, <1>5, <1>6, <1>7, <1>10
<1> QED BY <1>3, <1>9, <1>10

LEMMA ReadType == ASSUME VkType, NEW x \in Makers, Read(x) PROVE VkType'
<1>1. PICK r \in MakerType : /\ maker' = [maker EXCEPT ![x] = r]
                             /\ r.pc = "idle" \/ (r.pc = "write" /\ r.call = maker[x].call)
    BY ReadIs
<1>2. r.pc # "idle" => r.call \in Calls
    BY <1>1, ReadIs
<1>3. HoldersType'
    BY <1>1, <1>2 DEF Read, VkType, HoldersType
<1> QED BY <1>3, ReadIs DEF VkType, RowsType

LEMMA WriteType == ASSUME VkType, NEW x \in Makers, Write(x) PROVE VkType'
<1>1. maker[x] \in MakerType /\ maker[x].call \in Hashes /\ maker[x].page \in PageType
    BY DEF VkType, HoldersType, MakerType
<1>2. Merge(maker[x].page.hash, maker[x].call) \in Seq(Hashes) /\ maker[x].page.on \in BOOLEAN
    BY <1>1, MergeIs DEF PageType
<1>3. RowsType'
    BY <1>2, WriteProfileType DEF VkType, RowsType, Write, MayFail
<1>4. [maker EXCEPT ![x] = Idle] \in [Makers -> MakerType]
    BY NoPageType DEF VkType, HoldersType
<1>5. HoldersType'
    BY <1>4, OthersType DEF Write, VkType, HoldersType, Idle
<1> QED BY <1>3, <1>5 DEF VkType

LEMMA StopType1 ==
    ASSUME VkType, (\E S \in SUBSET Calls, whole \in BOOLEAN : StopFinish(S, whole)) \/ StopGoesOn
    PROVE  VkType'
<1>1. CASE \E S \in SUBSET Calls, whole \in BOOLEAN : StopFinish(S, whole)
    <2>1. PICK S \in SUBSET Calls, whole \in BOOLEAN : StopFinish(S, whole)
        BY <1>1
    <2>2. HoldersType'
        BY <2>1 DEF StopFinish, VkType, HoldersType
    <2>3. /\ stop' \in StopType /\ fails' \in Nat /\ adrift' \in SUBSET Calls
          /\ mu' \in Makers \cup {"stop", "free"}
        <3>1. fails' \in Nat
            BY <2>1 DEF StopFinish, VkType, RowsType, MayFail
        <3>2. stop' \in StopType
            <4>1. [pc |-> "mark", set |-> S, whole |-> whole] \in StopType
                BY DEF StopType
            <4>2. [NoStop EXCEPT !.pc = "delete"] \in StopType
                BY DEF StopType, NoStop
            <4> QED BY <2>1, <4>1, <4>2 DEF StopFinish
        <3> QED BY <2>1, <3>1, <3>2 DEF StopFinish, VkType, RowsType
    <2>4. vk' \in [Calls -> {"none", "on", "over"}]
        BY <2>1 DEF StopFinish, VkType, RowsType, Finished
    <2>5. RowsType'
        BY <2>1, <2>3, <2>4 DEF StopFinish, VkType, RowsType
    <2> QED BY <2>2, <2>5 DEF VkType
<1>2. CASE StopMark
    <2>1. HoldersType'
        BY <1>2, OthersType DEF StopMark, VkType, HoldersType
    <2>2. stop' \in StopType
        BY <1>2 DEF StopMark, NoStop, StopType
    <2>3. calls' \in [Calls -> RowState]
        BY <1>2 DEF StopMark, Marked, VkType, RowsType, RowState
    <2>4. fails' \in Nat
        BY <1>2 DEF StopMark, MayFail, VkType, RowsType
    <2> QED BY <1>2, <2>1, <2>2, <2>3, <2>4 DEF StopMark, VkType, RowsType
<1>3. CASE StopDelete
    <2>1. HoldersType'
        BY <1>3, OthersType DEF StopDelete, VkType, HoldersType
    <2>2. stop' \in StopType
        BY <1>3 DEF StopDelete, NoStop, StopType
    <2>3. CASE UNCHANGED <<calls, prof, adrift>>
        BY <1>3, <2>1, <2>2, <2>3 DEF StopDelete, VkType, RowsType
    <2>4. CASE /\ prof' = [there |-> FALSE, on |-> FALSE, hash |-> <<>>]
               /\ calls' = [c \in Calls |-> "none"]
               /\ adrift' = adrift \cup Rows
        <3>1. prof' \in [there : BOOLEAN, on : BOOLEAN, hash : Seq(Hashes)]
            BY <2>4, NoPageType
        <3>2. calls' \in [Calls -> RowState] /\ adrift' \in SUBSET Calls
            BY <2>4 DEF VkType, RowsType, RowState, Rows
        <3> QED BY <1>3, <2>1, <2>2, <3>1, <3>2 DEF StopDelete, VkType, RowsType
    <2> QED BY <1>3, <2>1, <2>3, <2>4 DEF StopDelete, VkType
<1> QED BY <1>1, <1>2, <1>3 DEF StopGoesOn

\* What a status request makes of its record, and of adrift, when it turns to the next
\* call it has to drop.
LEMMA DropReadIs ==
    ASSUME VkType, NEW y \in Pollers, DropRead(y)
    PROVE  /\ UNCHANGED <<calls, vk, prof, mu, maker, stop, form, saves>> /\ fails' \in Nat
           /\ \E c \in poll[y].active \cup poll[y].ending, r \in PollType :
                /\ c \in Calls /\ poll' = [poll EXCEPT ![y] = r]
                /\ r.active \subseteq poll[y].active /\ r.ending \subseteq poll[y].ending
                /\ r.pc = "next" \/ (r.pc \in {"dwrite", "drow"} /\ r.call = c)
                /\ r.pc = "dwrite" => r.page = Page
                /\ \/ adrift' = adrift /\ Ended(y, c)
                   \/ ~Ended(y, c) /\ adrift' = adrift \cup {c}
<1> USE DEF VkType, RowsType, HoldersType
<1>1. UNCHANGED <<calls, vk, prof, mu, maker, stop, form, saves>> /\ poll[y].pc = "next"
    BY DEF DropRead
<1>2. PICK c \in poll[y].active \cup poll[y].ending :
         LET rest == [poll[y] EXCEPT !.active = @ \ {c}, !.ending = @ \ {c}] IN
         \/ /\ IF Ended(y, c) THEN UNCHANGED <<fails, adrift>>
               ELSE MayFail /\ adrift' = adrift \cup {c}
            /\ poll' = [poll EXCEPT ![y] =
                 IF ~prof.there THEN rest
                 ELSE IF Subtract(prof.hash, c) = prof.hash
                 THEN [rest EXCEPT !.pc = "drow", !.call = c]
                 ELSE [rest EXCEPT !.pc = "dwrite", !.call = c, !.page = Page]]
         \/ Ended(y, c) /\ MayFail /\ poll' = [poll EXCEPT ![y] = rest] /\ UNCHANGED adrift
    BY DEF DropRead
<1>3. c \in Calls /\ c \in Hashes /\ Page \in PageType /\ poll[y] \in PollType
    BY PageIs DEF PollType, Hashes
<1> DEFINE rest == [poll[y] EXCEPT !.active = @ \ {c}, !.ending = @ \ {c}]
           row == [rest EXCEPT !.pc = "drow", !.call = c]
           hash == [rest EXCEPT !.pc = "dwrite", !.call = c, !.page = Page]
<1>4. /\ rest \in PollType /\ rest.pc = "next"
      /\ rest.active \subseteq poll[y].active /\ rest.ending \subseteq poll[y].ending
    BY <1>1, <1>3 DEF PollType
<1>5. /\ poll' = [poll EXCEPT ![y] = rest] \/ poll' = [poll EXCEPT ![y] = row]
         \/ poll' = [poll EXCEPT ![y] = hash]
      /\ \/ adrift' = adrift /\ Ended(y, c)
         \/ ~Ended(y, c) /\ adrift' = adrift \cup {c}
      /\ fails' \in Nat
    <2> HIDE DEF rest
    <2>1. fails' \in Nat
        BY <1>2 DEF MayFail
    <2>2. \/ adrift' = adrift /\ Ended(y, c)
          \/ ~Ended(y, c) /\ adrift' = adrift \cup {c}
        BY <1>2
    <2>3. poll' = [poll EXCEPT ![y] = rest] \/ poll' = [poll EXCEPT ![y] = row]
          \/ poll' = [poll EXCEPT ![y] = hash]
        BY <1>2 DEF rest
    <2> QED BY <2>1, <2>2, <2>3
<1> HIDE DEF rest
<1>6. /\ row \in PollType /\ row.pc = "drow" /\ row.call = c
      /\ row.active = rest.active /\ row.ending = rest.ending
      /\ hash \in PollType /\ hash.pc = "dwrite" /\ hash.call = c /\ hash.page = Page
      /\ hash.active = rest.active /\ hash.ending = rest.ending
    BY <1>3, <1>4 DEF PollType
<1> HIDE DEF row, hash
<1>7. PICK r \in PollType :
          /\ poll' = [poll EXCEPT ![y] = r]
          /\ r.active \subseteq poll[y].active /\ r.ending \subseteq poll[y].ending
          /\ r.pc = "next" \/ (r.pc \in {"dwrite", "drow"} /\ r.call = c)
          /\ r.pc = "dwrite" => r.page = Page
    <2>1. CASE poll' = [poll EXCEPT ![y] = rest]
        BY <1>4, <2>1
    <2>2. CASE poll' = [poll EXCEPT ![y] = row]
        BY <1>4, <1>6, <2>2
    <2>3. CASE poll' = [poll EXCEPT ![y] = hash]
        BY <1>4, <1>6, <2>3
    <2> QED BY <1>5, <2>1, <2>2, <2>3
<1> QED BY <1>1, <1>3, <1>5, <1>7

LEMMA PollReadType ==
    ASSUME VkType, NEW y \in Pollers,
           PollCalls(y) \/ PollUsers(y) \/ PollList(y) \/ PollDone(y) \/ PollAlive(y) \/ DropRead(y)
    PROVE  VkType'
<1> USE DEF VkType, HoldersType
<1>1. poll[y] \in PollType
    OBVIOUS
<1>2. RowsType'
    <2>1. CASE DropRead(y)
        <3>1. adrift' \in SUBSET Calls
            BY <2>1, DropReadIs DEF RowsType
        <3> QED BY <2>1, <3>1, DropReadIs DEF RowsType
    <2>2. CASE PollCalls(y) \/ PollUsers(y) \/ PollList(y) \/ PollDone(y) \/ PollAlive(y)
        BY <2>2 DEF PollCalls, PollUsers, PollList, PollDone, PollAlive, RowsType
    <2> QED BY <2>1, <2>2
<1>3. ASSUME NEW r \in PollType, poll' = [poll EXCEPT ![y] = r], maker' = maker, form' = form,
             r.pc \in {"dwrite", "drow"} => r.call \in Calls
      PROVE  VkType'
    BY <1>2, <1>3
<1>4. CASE PollCalls(y)
    BY <1>3, <1>4, NoPageType DEF PollCalls, Asleep, PollType
<1>5. CASE PollUsers(y)
    <2>1. [Page EXCEPT !.on = FALSE, !.crossed = poll[y].page.crossed] \in PageType
        BY <1>1, PageIs DEF PageType, PollType
    <2> QED BY <1>1, <1>3, <1>5, <2>1 DEF PollUsers, PollType
<1>6. CASE PollList(y)
    BY <1>3, <1>6, NoPageType DEF PollList, Asleep, PollType
<1>7. CASE PollDone(y)
    BY <1>3, <1>7, NoPageType DEF PollDone, Asleep
<1>8. CASE PollAlive(y)
    <2>1. PICK c \in poll[y].active : poll' = [poll EXCEPT ![y].active = @ \ {c}]
        BY <1>8 DEF PollAlive
    <2>2. [poll[y] EXCEPT !.active = @ \ {c}] \in PollType /\ [poll[y] EXCEPT !.active = @ \ {c}].pc = poll[y].pc
        BY <1>1 DEF PollType
    <2>3. poll' = [poll EXCEPT ![y] = [poll[y] EXCEPT !.active = @ \ {c}]]
        BY <2>1
    <2> QED BY <1>3, <1>8, <2>2, <2>3 DEF PollAlive
<1>9. CASE DropRead(y)
    BY <1>3, <1>9, DropReadIs
<1> QED BY <1>4, <1>5, <1>6, <1>7, <1>8, <1>9

LEMMA PollWriteType ==
    ASSUME VkType, NEW y \in Pollers, PollFix(y) \/ DropWrite(y) \/ DropRow(y)
    PROVE  VkType'
<1> USE DEF VkType, HoldersType
<1>1. poll[y] \in PollType /\ poll[y].page \in PageType /\ Manual \in Hashes
    BY DEF PollType, Hashes
<1>2. RowsType'
    <2>1. CASE PollFix(y)
        <3> DEFINE want == Reconcile(poll[y].page.hash, poll[y].active, poll[y].ending)
        <3>1. want \in Seq(Hashes)
            BY <1>1, ReconcileIs DEF PollType, PageType
        <3>2. prof' = [prof EXCEPT !.hash = want] \/ prof' = prof
            BY <2>1 DEF PollFix
        <3> HIDE DEF want
        <3>3. prof' \in [there : BOOLEAN, on : BOOLEAN, hash : Seq(Hashes)]
            BY <3>1, <3>2 DEF RowsType
        <3>4. fails' \in Nat
            BY <2>1 DEF PollFix, MayFail, RowsType
        <3> QED BY <2>1, <3>3, <3>4 DEF PollFix, RowsType
    <2>2. CASE DropWrite(y)
        BY <1>1, <2>2, SubtractIs, WriteProfileType DEF DropWrite, RowsType, MayFail, PageType
    <2>3. CASE DropRow(y)
        BY <2>3 DEF DropRow, RowsType, RowState, MayFail
    <2> QED BY <2>1, <2>2, <2>3
<1>3. [poll EXCEPT ![y] = [Asleep EXCEPT !.pc = "list"]] \in [Pollers -> PollType]
    BY NoPageType DEF Asleep, PollType
<1>4. [poll EXCEPT ![y].pc = "drow", ![y].page = NoPage] \in [Pollers -> PollType]
    BY NoPageType DEF PollType
<1>5. [poll EXCEPT ![y].pc = "next", ![y].call = Manual, ![y].page = NoPage] \in [Pollers -> PollType]
    BY <1>1, NoPageType DEF PollType
<1>6. HoldersType'
    <2>1. CASE PollFix(y)
        BY <1>3, <2>1, OthersType DEF PollFix, Asleep
    <2>2. CASE DropWrite(y)
        <3>1. poll[y].call \in Calls
            BY <2>2 DEF DropWrite
        <3>2. CASE Others(maker, [poll EXCEPT ![y].pc = "drow", ![y].page = NoPage], form)
            <4> DEFINE p == [poll EXCEPT ![y].pc = "drow", ![y].page = NoPage]
            <4>1. \A z \in Pollers : p[z].pc \in {"dwrite", "drow"} => p[z].call \in Calls
                BY <3>1 DEF PollType
            <4>2. p \in [Pollers -> PollType] /\ Others(maker, p, form)
                BY <1>4, <3>2
            <4> HIDE DEF p
            <4> QED BY <4>1, <4>2, OthersType
        <3>3. CASE Others(maker, [poll EXCEPT ![y].pc = "next", ![y].call = Manual, ![y].page = NoPage], form)
            <4> DEFINE p == [poll EXCEPT ![y].pc = "next", ![y].call = Manual, ![y].page = NoPage]
            <4>1. \A z \in Pollers : p[z].pc \in {"dwrite", "drow"} => p[z].call \in Calls
                BY DEF PollType
            <4>2. p \in [Pollers -> PollType] /\ Others(maker, p, form)
                BY <1>5, <3>3
            <4> HIDE DEF p
            <4> QED BY <4>1, <4>2, OthersType
        <3> QED BY <2>2, <3>2, <3>3 DEF DropWrite
    <2>3. CASE DropRow(y)
        <3> DEFINE p == [poll EXCEPT ![y].pc = "next", ![y].call = Manual, ![y].page = NoPage]
        <3>1. Others(maker, p, form)
            BY <2>3 DEF DropRow
        <3>2. p \in [Pollers -> PollType]
            BY <1>5
        <3>3. \A z \in Pollers : p[z].pc \in {"dwrite", "drow"} => p[z].call \in Calls
            BY DEF PollType
        <3> HIDE DEF p
        <3> QED BY <3>1, <3>2, <3>3, OthersType
    <2> QED BY <2>1, <2>2, <2>3
<1> QED BY <1>2, <1>6

LEMMA FormSteps ==
    ASSUME VkType, \E hash \in Edited(form.page.hash), on \in {form.page.on, FALSE} : FormSave(hash, on)
    PROVE  /\ VkType'
           /\ \E hash \in Seq(Hashes), on \in BOOLEAN : FormSave(hash, on)
                 /\ ToSet(hash) \subseteq ToSet(form.page.hash) \cup {Manual}
<1>1. form.page.hash \in Seq(Hashes) /\ form.page.on \in BOOLEAN /\ Manual \in Hashes
    BY DEF VkType, HoldersType, FormType, PageType, Hashes
<1>2. PICK hash \in Edited(form.page.hash), on \in {form.page.on, FALSE} : FormSave(hash, on)
    OBVIOUS
<1>3. hash \in Seq(Hashes) /\ ToSet(hash) \subseteq ToSet(form.page.hash) \cup {Manual}
    <2>1. /\ Without(form.page.hash, {Manual}) \in Seq(Hashes)
          /\ ToSet(Without(form.page.hash, {Manual})) = ToSet(form.page.hash) \ {Manual}
        BY <1>1, WithoutIs
    <2>2. /\ Append(form.page.hash, Manual) \in Seq(Hashes)
          /\ ToSet(Append(form.page.hash, Manual)) = ToSet(form.page.hash) \cup {Manual}
        BY <1>1, ToSetAppend
    <2>3. \/ hash = form.page.hash
          \/ hash = Without(form.page.hash, {Manual})
          \/ hash = Append(form.page.hash, Manual)
        BY <1>2 DEF Edited
    <2> QED BY <1>1, <2>1, <2>2, <2>3
<1>4. RowsType'
    <2>1. on \in BOOLEAN
        BY <1>1
    <2>2. prof' \in [there : BOOLEAN, on : BOOLEAN, hash : Seq(Hashes)]
        BY <1>2, <1>3, <2>1, WriteProfileType DEF FormSave, VkType
    <2> QED BY <1>2, <2>2 DEF FormSave, VkType, RowsType
<1>5. HoldersType'
    BY <1>2, OthersType, NoPageType DEF FormSave, VkType, HoldersType
<1> QED BY <1>1, <1>2, <1>3, <1>4, <1>5 DEF VkType

LEMMA FormOpenType == ASSUME VkType, FormOpen PROVE VkType'
<1>1. form' \in FormType
    BY PageIs DEF FormOpen, VkType, FormType
<1> QED BY <1>1 DEF FormOpen, VkType, RowsType, HoldersType

LEMMA CallEndsType == ASSUME VkType, NEW c \in Calls, CallEnds(c) PROVE VkType'
BY DEF CallEnds, VkType, RowsType, HoldersType

LEMMA TypeStep == ASSUME VkType, [Next]_vars PROVE VkType'
<1>1. ASSUME NEW x \in Makers, Create(x) \/ MakeGoesOn(x) PROVE VkType'
    BY <1>1, CreateType, InsertType, ReadType, WriteType DEF MakeGoesOn
<1>2. ASSUME NEW y \in Pollers, Poll(y) PROVE VkType'
    BY <1>2, PollReadType, PollWriteType DEF Poll
<1>3. CASE UNCHANGED vars
    BY <1>3 DEF vars, VkType, RowsType, HoldersType
<1> QED BY <1>1, <1>2, <1>3, StopType1, FormSteps, FormOpenType, CallEndsType DEF Next

LEMMA TypeInit == Init => VkType
BY NoPageType DEF Init, VkType, RowsType, HoldersType, RowState, NoStop, StopType, Idle, Asleep

\* Type correctness: every variable keeps its shape; lists hold hashes only, and who
\* writes, or drops a row, knows which call it is about.
THEOREM TypeCorrect == Spec => []VkType
BY TypeInit, TypeStep, PTL DEF Spec

-----------------------------------------------------------------------------
(***************************************************************************)
(* The limit of rows, and calls without a row                              *)
(***************************************************************************)
\* Who makes a call, and who finishes some, holds vkCreatorMu.
MutexInv == /\ \A x \in Makers : maker[x].pc = "insert" => mu = x
            /\ stop.pc = "mark" => mu = "stop"

\* A row yet to be inserted fits.
RoomInv == (\E x \in Makers : maker[x].pc = "insert") => Cardinality(Rows) < MaxHashes

\* A call that is over, or was left running for a reason of its own.
GoneIn(v, a, c) == v[c] = "over" \/ c \in a
Gone(c) == GoneIn(vk, adrift, c)

\* What a status request has listed was made; what it listed as finishing, or is to
\* drop, is Gone.
SureIn(v, a, r) == /\ \A c \in r.active : v[c] # "none"
                   /\ \A c \in r.ending : GoneIn(v, a, c)
                   /\ r.pc \in {"dwrite", "drow"} => GoneIn(v, a, r.call)

\* Rows are of calls that were made; what is finishing, or is to go, is Gone.
GoneInv == /\ \A c \in Calls : calls[c] # "none" => vk[c] # "none"
           /\ \A c \in Calls : calls[c] = "finishing" => Gone(c)
           /\ \A x \in Makers : maker[x].pc = "insert" => vk[maker[x].call] # "none"
           /\ stop.pc = "mark" => /\ \A c \in stop.set : Gone(c)
                                  /\ stop.whole => Rows \subseteq stop.set
           /\ \A y \in Pollers : SureIn(vk, adrift, poll[y])

CallInv == MutexInv /\ RoomInv /\ CallLimit /\ GoneInv /\ NoStrayCall

LEMMA RowsFinite == IsFiniteSet(Rows) /\ Cardinality(Rows) \in Nat
<1>1. Rows \subseteq Calls
    BY DEF Rows
<1> QED BY <1>1, CallsAssumption, FS_Subset, FS_CardinalityType DEF CallsAssumption

LEMMA CallInit == Init => CallInv
<1> SUFFICES ASSUME Init PROVE CallInv
    OBVIOUS
<1>1. Rows = {}
    BY DEF Init, Rows
<1>2. Cardinality(Rows) = 0
    BY <1>1, FS_EmptySet
<1> QED BY <1>2, BoundsAssumption
        DEF Init, CallInv, MutexInv, RoomInv, CallLimit, GoneInv, NoStrayCall, Idle, Asleep, NoStop,
            BoundsAssumption, SureIn

\* A step that adds no row, starts no call and revives none keeps the limit.
LEMMA FewerRows ==
    ASSUME RoomInv, CallLimit, Rows' \subseteq Rows,
           \A x \in Makers : maker'[x].pc = "insert" => maker[x].pc = "insert"
    PROVE  RoomInv' /\ CallLimit'
<1>1. Cardinality(Rows)' <= Cardinality(Rows) /\ Cardinality(Rows)' \in Nat
    <2>1. IsFiniteSet(Rows') /\ Cardinality(Rows') <= Cardinality(Rows)
        BY RowsFinite, FS_Subset
    <2> QED BY <2>1, FS_CardinalityType
<1> QED BY <1>1, RowsFinite, BoundsAssumption DEF RoomInv, CallLimit, BoundsAssumption

\* Calls are neither unmade nor revived, and stay adrift: so requests stay sure.
OnlyEnds == /\ \A c \in Calls : vk[c] # "none" => vk'[c] # "none"
            /\ \A c \in Calls : vk[c] = "over" => vk'[c] = "over"
            /\ adrift \subseteq adrift'

LEMMA SureStays ==
    ASSUME VkType, CallInv, OnlyEnds, NEW y \in Pollers, NEW q, SameLists(q, poll[y])
    PROVE  SureIn(vk', adrift', q)
<1>1. poll[y] \in PollType /\ (poll[y].pc \in {"dwrite", "drow"} => poll[y].call \in Calls)
    BY DEF VkType, HoldersType
<1>2. poll[y].active \subseteq Calls /\ poll[y].ending \subseteq Calls
    BY <1>1 DEF PollType
<1>3. SureIn(vk, adrift, poll[y])
    BY DEF CallInv, GoneInv
<1> QED BY <1>1, <1>2, <1>3 DEF SureIn, SameLists, OnlyEnds, GoneIn

LEMMA CreateCalls == ASSUME VkType, CallInv, NEW x \in Makers, Create(x) PROVE CallInv'
<1> USE DEF VkType, RowsType, HoldersType
<1>1. PICK c \in Calls :
          /\ vk[c] = "none" /\ vk' = [vk EXCEPT ![c] = "on"]
          /\ maker' = [maker EXCEPT ![x].pc = "insert", ![x].call = c]
    BY DEF Create
<1>2. /\ maker'[x].pc = "insert" /\ maker'[x].call = c
      /\ \A z \in Makers \ {x} : maker'[z] = maker[z]
      /\ mu = "free" /\ mu' = x /\ calls' = calls /\ poll' = poll /\ stop' = stop /\ adrift' = adrift
      /\ Cardinality(Rows) < MaxHashes
    BY <1>1 DEF Create, MakerType
<1>3. \A z \in Makers : maker[z].pc # "insert"
    BY <1>2, ActorsAssumption DEF CallInv, MutexInv, ActorsAssumption
<1>4. stop.pc # "mark"
    BY <1>2, ActorsAssumption DEF CallInv, MutexInv, ActorsAssumption
<1>5. Rows' = Rows
    BY <1>2 DEF Rows
<1>6. MutexInv' /\ RoomInv' /\ CallLimit'
    BY <1>2, <1>3, <1>4, <1>5 DEF MutexInv, RoomInv, CallLimit, CallInv
<1>7. \A e \in Calls : Gone(e) => GoneIn(vk', adrift', e)
    BY <1>1, <1>2 DEF Gone, GoneIn
<1>8. GoneInv'
    <2>2. \A z \in Makers : maker'[z].pc = "insert" => maker'[z].call = c
        BY <1>2, <1>3
    <2>3. \A e \in Calls : (calls[e] # "none" => vk'[e] # "none") /\ (calls[e] = "finishing" => GoneIn(vk', adrift', e))
        BY <1>1, <1>7 DEF CallInv, GoneInv, Gone
    <2>4. \A y \in Pollers : SureIn(vk', adrift', poll[y])
        BY <1>1, <1>2, SureStays DEF OnlyEnds, SameLists
    <2>5. vk'[c] = "on"
        BY <1>1
    <2> QED BY <1>2, <1>4, <2>2, <2>3, <2>4, <2>5 DEF GoneInv, Gone
<1>9. NoStrayCall'
    BY <1>1, <1>2, <1>3 DEF CallInv, NoStrayCall
<1> QED BY <1>6, <1>8, <1>9 DEF CallInv

\* Once the row is in, or given up, no call is started.
LEMMA InsertOwn ==
    ASSUME VkType, CallInv, NEW x \in Makers, Insert(x)
    PROVE  /\ \A z \in Makers : maker'[z].pc # "insert"
           /\ \A y \in Pollers : SameLists(poll'[y], poll[y])
<1> USE DEF VkType, RowsType, HoldersType
<1>0. \A z \in Makers \ {x} : maker[z].pc # "insert"
    BY ActorsAssumption DEF Insert, CallInv, MutexInv, ActorsAssumption
<1>1. ASSUME NEW m \in [Makers -> MakerType], \A z \in Makers : m[z].pc # "insert",
             Others(m, poll, form)
      PROVE  /\ \A z \in Makers : maker'[z].pc # "insert"
             /\ \A y \in Pollers : SameLists(poll'[y], poll[y])
    BY <1>1, OthersKeep
<1>2. /\ [maker EXCEPT ![x].pc = "read"] \in [Makers -> MakerType]
      /\ \A z \in Makers : [maker EXCEPT ![x].pc = "read"][z].pc # "insert"
    BY <1>0 DEF MakerType
<1>3. /\ [maker EXCEPT ![x] = Idle] \in [Makers -> MakerType]
      /\ \A z \in Makers : [maker EXCEPT ![x] = Idle][z].pc # "insert"
    BY <1>0, NoPageType DEF Idle
<1> QED BY <1>1, <1>2, <1>3 DEF Insert

LEMMA InsertCalls == ASSUME VkType, CallInv, NEW x \in Makers, Insert(x) PROVE CallInv'
<1> USE DEF VkType, RowsType, HoldersType
<1> DEFINE c == maker[x].call
<1>1. /\ maker[x].pc = "insert" /\ c \in Calls /\ mu = x /\ mu' = "free"
      /\ vk[c] # "none" /\ vk' = vk /\ stop' = stop /\ stop.pc # "mark"
      /\ \A z \in Makers \ {x} : maker[z].pc # "insert"
      /\ Cardinality(Rows) < MaxHashes
    BY ActorsAssumption DEF Insert, CallInv, MutexInv, RoomInv, GoneInv, ActorsAssumption
<1>2. /\ \A z \in Makers : maker'[z].pc # "insert"
      /\ \A y \in Pollers : SameLists(poll'[y], poll[y])
    BY InsertOwn
<1>3. \/ calls' = [calls EXCEPT ![c] = "active"] /\ adrift' = adrift
      \/ calls' = calls /\ adrift' = adrift \cup {c}
    BY DEF Insert
<1>4. Rows' \subseteq Rows \cup {c}
    BY <1>3 DEF Rows
<1>5. Cardinality(Rows') <= MaxHashes
    <2>1. IsFiniteSet(Rows \cup {c}) /\ Cardinality(Rows \cup {c}) <= Cardinality(Rows) + 1
        <3>1. /\ IsFiniteSet(Rows \cup {c})
              /\ Cardinality(Rows \cup {c}) = IF c \in Rows THEN Cardinality(Rows) ELSE Cardinality(Rows) + 1
            BY RowsFinite, FS_AddElement
        <3> HIDE DEF c
        <3> QED BY <3>1, RowsFinite
    <2>2. Cardinality(Rows') <= Cardinality(Rows \cup {c}) /\ Cardinality(Rows') \in Nat
        BY <1>4, <2>1, FS_Subset, FS_CardinalityType
    <2>3. Cardinality(Rows \cup {c}) \in Nat
        BY <2>1, FS_CardinalityType
    <2> QED BY <1>1, <2>1, <2>2, <2>3, RowsFinite, BoundsAssumption DEF BoundsAssumption
<1>6. MutexInv' /\ RoomInv' /\ CallLimit'
    BY <1>1, <1>2, <1>5 DEF MutexInv, RoomInv, CallLimit
<1>7. \A e \in Calls : Gone(e) => GoneIn(vk', adrift', e)
    BY <1>1, <1>3 DEF Gone, GoneIn
<1>8. GoneInv'
    <2>1. \A y \in Pollers : SureIn(vk', adrift', poll'[y])
        BY <1>1, <1>2, <1>3, SureStays DEF OnlyEnds
    <2>2. \A e \in Calls : /\ calls'[e] # "none" => vk'[e] # "none"
                           /\ calls'[e] = "finishing" => GoneIn(vk', adrift', e)
        BY <1>1, <1>3, <1>7 DEF CallInv, GoneInv, Gone
    <2> HIDE DEF c
    <2> QED BY <1>1, <1>2, <2>1, <2>2 DEF GoneInv, Gone
<1>9. NoStrayCall'
    BY <1>1, <1>3 DEF CallInv, NoStrayCall
<1> QED BY <1>6, <1>8, <1>9 DEF CallInv

\* The steps by which neither calls nor rows, nor who holds the mutex, change.
LEMMA QuietCalls ==
    ASSUME VkType, CallInv, UNCHANGED <<calls, vk, mu, stop>>, adrift \subseteq adrift',
           adrift' \in SUBSET Calls,
           \A x \in Makers : /\ (maker'[x].pc = "insert") = (maker[x].pc = "insert")
                             /\ maker'[x].pc = "insert" => maker'[x].call = maker[x].call,
           \A y \in Pollers : SureIn(vk', adrift', poll'[y])
    PROVE  CallInv'
<1>1. Rows' = Rows
    BY DEF Rows
<1>2. \A c \in Calls : Gone(c) => GoneIn(vk', adrift', c)
    BY DEF Gone, GoneIn
<1>3. MutexInv' /\ RoomInv' /\ CallLimit'
    BY <1>1 DEF CallInv, MutexInv, RoomInv, CallLimit
<1>4. stop.set \subseteq Calls
    BY DEF VkType, RowsType, StopType
<1>5. GoneInv'
    BY <1>1, <1>2, <1>4 DEF CallInv, GoneInv, Gone
<1>6. NoStrayCall'
    BY DEF CallInv, NoStrayCall
<1> QED BY <1>3, <1>5, <1>6 DEF CallInv

\* A request that has its row reads, or writes the profile: nobody else starts a call.
LEMMA MakesOwn ==
    ASSUME VkType, NEW x \in Makers, Read(x) \/ Write(x)
    PROVE  /\ \A z \in Makers : /\ (maker'[z].pc = "insert") = (maker[z].pc = "insert")
                                /\ maker'[z].pc = "insert" => maker'[z].call = maker[z].call
           /\ \A y \in Pollers : SameLists(poll'[y], poll[y])
<1> USE DEF VkType, RowsType, HoldersType
<1>1. CASE Read(x)
    <2>1. PICK r \in MakerType : /\ maker' = [maker EXCEPT ![x] = r]
                                 /\ r.pc = "idle" \/ (r.pc = "write" /\ r.call = maker[x].call)
        BY <1>1, ReadIs
    <2>2. r.pc # "insert"
        BY <2>1
    <2> QED BY <1>1, <2>1, <2>2, ReadIs DEF SameLists
<1>2. CASE Write(x)
    <2>1. /\ [maker EXCEPT ![x] = Idle] \in [Makers -> MakerType]
          /\ maker[x].pc = "write"
          /\ Others([maker EXCEPT ![x] = Idle], poll, form)
        BY <1>2, NoPageType DEF Write
    <2>2. \A z \in Makers \ {x} : [maker EXCEPT ![x] = Idle][z] = maker[z]
        OBVIOUS
    <2>3. [maker EXCEPT ![x] = Idle][x].pc = "idle"
        BY DEF Idle
    <2>4. ASSUME NEW m \in [Makers -> MakerType], Others(m, poll, form)
          PROVE  /\ \A z \in Makers : maker'[z].pc = m[z].pc /\ maker'[z].call = m[z].call
                 /\ \A y \in Pollers : SameLists(poll'[y], poll[y])
        BY <2>4, OthersKeep DEF VkType, HoldersType
    <2> QED BY <2>1, <2>2, <2>3, <2>4
<1> QED BY <1>1, <1>2

LEMMA QuietMakes ==
    ASSUME VkType, CallInv, VkType', NEW x \in Makers, Read(x) \/ Write(x)
    PROVE  CallInv'
<1>1. /\ \A z \in Makers : /\ (maker'[z].pc = "insert") = (maker[z].pc = "insert")
                           /\ maker'[z].pc = "insert" => maker'[z].call = maker[z].call
      /\ \A y \in Pollers : SameLists(poll'[y], poll[y])
    BY MakesOwn
<1>2. UNCHANGED <<calls, vk, mu, stop, adrift>>
    BY DEF Read, Write
<1>3. \A y \in Pollers : SureIn(vk', adrift', poll'[y])
    BY <1>1, <1>2, SureStays DEF OnlyEnds
<1>4. adrift' \in SUBSET Calls
    BY <1>2 DEF VkType, RowsType
<1> QED BY <1>1, <1>2, <1>3, <1>4, QuietCalls

\* What the form does to the requests: it crosses their pages.
LEMMA FormOwn ==
    ASSUME VkType,
           FormOpen \/ \E hash \in Seq(Hashes), on \in BOOLEAN : FormSave(hash, on)
    PROVE  /\ \A z \in Makers : maker'[z].pc = maker[z].pc /\ maker'[z].call = maker[z].call
           /\ \A y \in Pollers : SameLists(poll'[y], poll[y])
<1> USE DEF VkType, RowsType, HoldersType
<1>1. CASE FormOpen
    BY <1>1 DEF FormOpen, SameLists
<1>2. CASE \E hash \in Seq(Hashes), on \in BOOLEAN : FormSave(hash, on)
    <2>1. Others(maker, poll, NoForm)
        BY <1>2 DEF FormSave
    <2>2. NoForm \in FormType /\ maker \in [Makers -> MakerType] /\ poll \in [Pollers -> PollType]
        BY NoPageType
    <2> QED BY <2>1, <2>2, OthersKeep
<1> QED BY <1>1, <1>2

LEMMA QuietForm ==
    ASSUME VkType, CallInv, VkType',
           FormOpen \/ \E hash \in Seq(Hashes), on \in BOOLEAN : FormSave(hash, on)
    PROVE  CallInv'
<1>1. /\ \A z \in Makers : maker'[z].pc = maker[z].pc /\ maker'[z].call = maker[z].call
      /\ \A y \in Pollers : SameLists(poll'[y], poll[y])
    BY FormOwn
<1>2. UNCHANGED <<calls, vk, mu, stop, adrift>>
    BY DEF FormOpen, FormSave
<1>3. \A y \in Pollers : SureIn(vk', adrift', poll'[y])
    BY <1>1, <1>2, SureStays DEF OnlyEnds
<1>4. adrift' \in SUBSET Calls
    BY <1>2 DEF VkType, RowsType
<1> QED BY <1>1, <1>2, <1>3, <1>4, QuietCalls

\* What a status request does to its own record, unless it drops a row: it stays sure
\* of what it has listed.
LEMMA PollOwn ==
    ASSUME VkType, CallInv, VkType', NEW y \in Pollers, Poll(y), ~DropRow(y)
    PROVE  /\ UNCHANGED <<calls, vk, mu, stop>> /\ adrift \subseteq adrift'
           /\ \A z \in Makers : maker'[z].pc = maker[z].pc /\ maker'[z].call = maker[z].call
           /\ \A z \in Pollers \ {y} : SameLists(poll'[z], poll[z])
           /\ SureIn(vk', adrift', poll'[y])
<1> DEFINE Own == /\ \A z \in Makers : maker'[z].pc = maker[z].pc /\ maker'[z].call = maker[z].call
                  /\ \A z \in Pollers \ {y} : SameLists(poll'[z], poll[z])
                  /\ SureIn(vk', adrift', poll'[y])
<1>1. /\ poll[y] \in PollType /\ poll \in [Pollers -> PollType]
      /\ maker \in [Makers -> MakerType] /\ form \in FormType
      /\ (poll[y].pc \in {"dwrite", "drow"} => poll[y].call \in Calls)
      /\ SureIn(vk, adrift, poll[y])
      /\ \A c \in Calls : calls[c] # "none" => vk[c] # "none"
      /\ \A c \in Calls : calls[c] = "finishing" => Gone(c)
    BY DEF VkType, HoldersType, CallInv, GoneInv
<1>2. /\ UNCHANGED <<calls, vk, mu, stop>> /\ adrift \subseteq adrift'
    BY DEF Poll, PollCalls, PollUsers, PollFix, PollList, PollDone, PollAlive, DropRead, DropWrite
<1>3. ASSUME NEW r \in PollType, Others(maker, [poll EXCEPT ![y] = r], form), adrift' = adrift,
             SureIn(vk, adrift, r)
      PROVE  Own
    <2> DEFINE p == [poll EXCEPT ![y] = r]
    <2>1. p \in [Pollers -> PollType] /\ p[y] = r /\ \A z \in Pollers \ {y} : p[z] = poll[z]
        BY <1>1
    <2>2. Others(maker, p, form)
        BY <1>3
    <2> HIDE DEF p
    <2>3. /\ \A z \in Makers : maker'[z].pc = maker[z].pc /\ maker'[z].call = maker[z].call
          /\ \A z \in Pollers : SameLists(poll'[z], p[z])
        BY <1>1, <2>1, <2>2, OthersKeep
    <2>4. SureIn(vk', adrift', poll'[y])
        BY <1>2, <1>3, <2>1, <2>3 DEF SureIn, SameLists
    <2> QED BY <2>1, <2>3, <2>4
<1>4. ASSUME NEW r, poll' = [poll EXCEPT ![y] = r], maker' = maker, SureIn(vk', adrift', r)
      PROVE  Own
    BY <1>1, <1>4 DEF SameLists
<1>5. ASSUME NEW r, r = [Asleep EXCEPT !.pc = r.pc, !.active = {c \in Calls : calls[c] = "active"},
                                       !.ending = {c \in Calls : calls[c] = "finishing"}],
             r.pc \notin {"dwrite", "drow"}, adrift' = adrift
      PROVE  SureIn(vk', adrift', r)
    <2>1. r.active = {c \in Calls : calls[c] = "active"} /\ r.ending = {c \in Calls : calls[c] = "finishing"}
        BY <1>5 DEF Asleep
    <2> QED BY <1>1, <1>2, <1>5, <2>1 DEF SureIn, Gone
<1>6. CASE PollCalls(y)
    <2> DEFINE r == [Asleep EXCEPT !.pc = "users", !.active = {c \in Calls : calls[c] = "active"},
                                   !.ending = {c \in Calls : calls[c] = "finishing"}]
    <2>1. poll' = [poll EXCEPT ![y] = r] /\ maker' = maker /\ adrift' = adrift
        BY <1>6 DEF PollCalls
    <2>2. r.pc = "users"
        BY DEF Asleep
    <2>3. r = [Asleep EXCEPT !.pc = r.pc, !.active = {c \in Calls : calls[c] = "active"},
                             !.ending = {c \in Calls : calls[c] = "finishing"}]
        BY <2>2
    <2> HIDE DEF r
    <2> QED BY <1>2, <1>4, <1>5, <2>1, <2>2, <2>3
<1>7. CASE PollList(y)
    <2> DEFINE r == [Asleep EXCEPT !.pc = "next", !.active = {c \in Calls : calls[c] = "active"},
                                   !.ending = {c \in Calls : calls[c] = "finishing"}]
    <2>1. poll' = [poll EXCEPT ![y] = r] /\ maker' = maker /\ adrift' = adrift
        BY <1>7 DEF PollList
    <2>2. r.pc = "next"
        BY DEF Asleep
    <2>3. r = [Asleep EXCEPT !.pc = r.pc, !.active = {c \in Calls : calls[c] = "active"},
                             !.ending = {c \in Calls : calls[c] = "finishing"}]
        BY <2>2
    <2> HIDE DEF r
    <2> QED BY <1>2, <1>4, <1>5, <2>1, <2>2, <2>3
<1>8. CASE PollUsers(y)
    <2> DEFINE r == [poll[y] EXCEPT !.pc = "fix", !.page = [Page EXCEPT !.on = FALSE, !.crossed = poll[y].page.crossed]]
    <2>1. poll' = [poll EXCEPT ![y] = r] /\ maker' = maker /\ adrift' = adrift
        BY <1>8 DEF PollUsers
    <2>2. r.active = poll[y].active /\ r.ending = poll[y].ending /\ r.pc = "fix"
        BY <1>1 DEF PollType
    <2> HIDE DEF r
    <2> QED BY <1>1, <1>2, <1>4, <2>1, <2>2 DEF SureIn
<1>9. CASE PollFix(y)
    <2>1. /\ [Asleep EXCEPT !.pc = "list"] \in PollType
          /\ [Asleep EXCEPT !.pc = "list"].active = {} /\ [Asleep EXCEPT !.pc = "list"].ending = {}
          /\ [Asleep EXCEPT !.pc = "list"].pc = "list"
        BY NoPageType DEF Asleep, PollType
    <2>2. Others(maker, [poll EXCEPT ![y] = [Asleep EXCEPT !.pc = "list"]], form) /\ adrift' = adrift
        BY <1>9 DEF PollFix
    <2>3. SureIn(vk, adrift, [Asleep EXCEPT !.pc = "list"])
        BY <2>1 DEF SureIn
    <2> QED BY <1>2, <1>3, <2>1, <2>2, <2>3
<1>10. CASE PollDone(y)
    <2>1. poll' = [poll EXCEPT ![y] = Asleep] /\ maker' = maker
        BY <1>10 DEF PollDone
    <2>2. SureIn(vk', adrift', Asleep)
        BY DEF SureIn, Asleep
    <2> QED BY <1>2, <1>4, <2>1, <2>2
<1>11. CASE PollAlive(y)
    <2>1. PICK c \in poll[y].active : poll' = [poll EXCEPT ![y].active = @ \ {c}]
        BY <1>11 DEF PollAlive
    <2> DEFINE r == [poll[y] EXCEPT !.active = @ \ {c}]
    <2>2. poll' = [poll EXCEPT ![y] = r] /\ maker' = maker /\ adrift' = adrift
        BY <1>11, <2>1 DEF PollAlive
    <2>3. r.active \subseteq poll[y].active /\ r.ending = poll[y].ending /\ r.pc = poll[y].pc /\ r.call = poll[y].call
        BY <1>1 DEF PollType
    <2> HIDE DEF r
    <2> QED BY <1>1, <1>2, <1>4, <2>2, <2>3 DEF SureIn
<1>12. CASE DropRead(y)
    <2>1. PICK c \in poll[y].active \cup poll[y].ending, r \in PollType :
             /\ c \in Calls /\ poll' = [poll EXCEPT ![y] = r]
             /\ r.active \subseteq poll[y].active /\ r.ending \subseteq poll[y].ending
             /\ r.pc = "next" \/ (r.pc \in {"dwrite", "drow"} /\ r.call = c)
             /\ \/ adrift' = adrift /\ Ended(y, c)
                \/ ~Ended(y, c) /\ adrift' = adrift \cup {c}
        BY <1>12, DropReadIs
    <2>2. GoneIn(vk', adrift', c)
        <3>1. CASE adrift' = adrift /\ Ended(y, c)
            <4>1. vk \in [Calls -> {"none", "on", "over"}]
                BY DEF VkType, RowsType
            <4> QED BY <1>1, <1>2, <2>1, <3>1, <4>1 DEF Ended, SureIn, GoneIn
        <3>2. CASE adrift' = adrift \cup {c}
            BY <3>2 DEF GoneIn
        <3> QED BY <2>1, <3>1, <3>2
    <2>3. SureIn(vk', adrift', r)
        BY <1>1, <1>2, <2>1, <2>2 DEF SureIn, GoneIn
    <2>4. maker' = maker
        BY <1>12 DEF DropRead
    <2> QED BY <1>2, <1>4, <2>1, <2>3, <2>4
<1>13. CASE DropWrite(y)
    <2>1. \/ Others(maker, [poll EXCEPT ![y].pc = "drow", ![y].page = NoPage], form)
          \/ Others(maker, [poll EXCEPT ![y].pc = "next", ![y].call = Manual, ![y].page = NoPage], form)
        BY <1>13 DEF DropWrite
    <2> DEFINE r == [poll[y] EXCEPT !.pc = "drow", !.page = NoPage]
               q == [poll[y] EXCEPT !.pc = "next", !.call = Manual, !.page = NoPage]
    <2>2. /\ r \in PollType /\ r.call = poll[y].call /\ r.active = poll[y].active /\ r.ending = poll[y].ending
          /\ q \in PollType /\ q.active = poll[y].active /\ q.ending = poll[y].ending /\ q.pc = "next"
        BY <1>1, NoPageType DEF PollType, Hashes
    <2>3. /\ [poll EXCEPT ![y].pc = "drow", ![y].page = NoPage] = [poll EXCEPT ![y] = r]
          /\ [poll EXCEPT ![y].pc = "next", ![y].call = Manual, ![y].page = NoPage] = [poll EXCEPT ![y] = q]
        OBVIOUS
    <2> HIDE DEF r, q
    <2>4. adrift' = adrift /\ poll[y].pc = "dwrite"
        BY <1>13 DEF DropWrite
    <2>5. SureIn(vk, adrift, r) /\ SureIn(vk, adrift, q)
        BY <1>1, <2>2, <2>4 DEF SureIn
    <2>6. Others(maker, [poll EXCEPT ![y] = r], form) \/ Others(maker, [poll EXCEPT ![y] = q], form)
        BY <2>1, <2>3
    <2> HIDE DEF Own
    <2> QED BY <1>2, <1>3, <2>2, <2>4, <2>5, <2>6 DEF Own
<1> QED BY <1>2, <1>6, <1>7, <1>8, <1>9, <1>10, <1>11, <1>12, <1>13 DEF Poll

LEMMA PollCallsInv ==
    ASSUME VkType, CallInv, VkType', NEW y \in Pollers, Poll(y), ~DropRow(y)
    PROVE  CallInv'
<1>1. /\ UNCHANGED <<calls, vk, mu, stop>> /\ adrift \subseteq adrift'
      /\ \A z \in Makers : maker'[z].pc = maker[z].pc /\ maker'[z].call = maker[z].call
      /\ \A z \in Pollers \ {y} : SameLists(poll'[z], poll[z])
      /\ SureIn(vk', adrift', poll'[y])
    BY PollOwn
<1>2. adrift' \in SUBSET Calls
    BY DEF VkType, RowsType
<1>3. \A z \in Pollers : SureIn(vk', adrift', poll'[z])
    BY <1>1, SureStays DEF OnlyEnds
<1>4. \A x \in Makers : /\ (maker'[x].pc = "insert") = (maker[x].pc = "insert")
                        /\ maker'[x].pc = "insert" => maker'[x].call = maker[x].call
    BY <1>1
<1> QED BY <1>1, <1>2, <1>3, <1>4, QuietCalls

LEMMA CallEndsCalls == ASSUME VkType, CallInv, NEW c \in Calls, CallEnds(c) PROVE CallInv'
<1> USE DEF VkType, RowsType, HoldersType
<1>1. /\ UNCHANGED <<calls, mu, maker, stop, poll, adrift>>
      /\ vk[c] = "on" /\ vk' = [vk EXCEPT ![c] = "over"]
    BY DEF CallEnds
<1>2. \A e \in Calls : Gone(e) => GoneIn(vk', adrift', e)
    BY <1>1 DEF Gone, GoneIn
<1>3. Rows' = Rows
    BY <1>1 DEF Rows
<1>4. MutexInv' /\ RoomInv' /\ CallLimit'
    BY <1>1, <1>3 DEF CallInv, MutexInv, RoomInv, CallLimit
<1>5. stop.set \subseteq Calls /\ \A y \in Pollers : SureIn(vk', adrift', poll'[y])
    BY <1>1, SureStays DEF StopType, OnlyEnds, SameLists
<1>6. GoneInv'
    BY <1>1, <1>2, <1>3, <1>5 DEF CallInv, GoneInv, Gone
<1>7. NoStrayCall'
    BY <1>1 DEF CallInv, NoStrayCall
<1> QED BY <1>4, <1>6, <1>7 DEF CallInv

LEMMA StopFinishCalls ==
    ASSUME VkType, CallInv, NEW S \in SUBSET Calls, NEW whole \in BOOLEAN, StopFinish(S, whole)
    PROVE  CallInv'
<1> USE DEF VkType, RowsType, HoldersType
<1>1. UNCHANGED <<calls, maker, poll>> /\ mu = "free" /\ S \subseteq Rows /\ (whole => S = Rows)
    BY DEF StopFinish
<1>2. \A x \in Makers : maker[x].pc # "insert"
    BY <1>1, ActorsAssumption DEF CallInv, MutexInv, ActorsAssumption
<1>3. Rows' = Rows
    BY <1>1 DEF Rows
<1>4. /\ adrift \subseteq adrift'
      /\ \A e \in Calls : vk'[e] = vk[e] \/ (vk'[e] = "over" /\ e \in S)
    BY DEF StopFinish, Finished
<1>5. \A e \in Calls : Gone(e) => GoneIn(vk', adrift', e)
    BY <1>4 DEF Gone, GoneIn
<1>6. /\ stop'.pc = "mark" => /\ stop'.set = S /\ stop'.whole = whole /\ mu' = "stop"
                              /\ \A e \in S : GoneIn(vk', adrift', e)
    <2>1. \A e \in S : vk[e] \in {"on", "over"}
        BY <1>1 DEF Rows, CallInv, GoneInv
    <2>2. CASE stop' = [NoStop EXCEPT !.pc = "delete"]
        BY <2>2 DEF NoStop
    <2>3. CASE stop' = [pc |-> "mark", set |-> S, whole |-> whole]
        <3>1. mu' = "stop" /\ \E F \in SUBSET S : vk' = Finished(F) /\ adrift' = adrift \cup {c \in S \ F : vk[c] = "on"}
            BY <2>3 DEF StopFinish, NoStop
        <3> QED BY <2>1, <2>3, <3>1 DEF Finished, GoneIn
    <2> QED BY <2>2, <2>3 DEF StopFinish
<1>7. MutexInv' /\ RoomInv' /\ CallLimit'
    BY <1>1, <1>2, <1>3, <1>6 DEF CallInv, MutexInv, RoomInv, CallLimit
<1>8. \A y \in Pollers : SureIn(vk', adrift', poll'[y])
    BY <1>1, <1>4, SureStays DEF OnlyEnds, SameLists
<1>9. GoneInv'
    BY <1>1, <1>2, <1>3, <1>4, <1>5, <1>6, <1>8 DEF CallInv, GoneInv, Gone
<1>10. NoStrayCall'
    BY <1>1, <1>4 DEF CallInv, NoStrayCall
<1> QED BY <1>7, <1>9, <1>10 DEF CallInv

LEMMA StopMarkCalls == ASSUME VkType, CallInv, VkType', StopMark PROVE CallInv'
<1> USE DEF VkType, RowsType, HoldersType
<1>1. /\ calls' = Marked \/ calls' = calls
      /\ stop.pc = "mark" /\ UNCHANGED <<vk, adrift>> /\ stop'.pc # "mark"
      /\ \A x \in Makers : maker[x].pc # "insert"
    BY ActorsAssumption DEF StopMark, NoStop, CallInv, MutexInv, ActorsAssumption
<1>2. /\ \A x \in Makers : maker'[x].pc = maker[x].pc /\ maker'[x].call = maker[x].call
      /\ \A y \in Pollers : SameLists(poll'[y], poll[y])
    <2>1. Others(maker, poll, form)
        BY DEF StopMark
    <2>2. maker \in [Makers -> MakerType] /\ poll \in [Pollers -> PollType] /\ form \in FormType
        OBVIOUS
    <2> QED BY ONLY <2>1, <2>2, OthersKeep
<1>3. \A c \in Calls : (calls'[c] = "none") = (calls[c] = "none")
    BY <1>1 DEF Marked
<1>4. Rows' = Rows
    BY <1>3 DEF Rows
<1>5. \A c \in Calls : calls'[c] = "finishing" => Gone(c)
    BY <1>1 DEF Marked, CallInv, GoneInv, Rows
<1>6. MutexInv' /\ RoomInv' /\ CallLimit'
    BY <1>1, <1>2, <1>4 DEF CallInv, MutexInv, RoomInv, CallLimit
<1>7. \A y \in Pollers : SureIn(vk', adrift', poll'[y])
    BY <1>1, <1>2, SureStays DEF OnlyEnds
<1>8. GoneInv'
    <2>1. \A c \in Calls : Gone(c) = GoneIn(vk', adrift', c)
        BY <1>1 DEF Gone, GoneIn
    <2>2. \A c \in Calls : calls'[c] # "none" => vk'[c] # "none"
        BY <1>1, <1>3 DEF CallInv, GoneInv
    <2>3. \A x \in Makers : maker'[x].pc # "insert"
        BY <1>1, <1>2
    <2> QED BY <1>1, <1>5, <1>7, <2>1, <2>2, <2>3 DEF GoneInv, Gone
<1>9. NoStrayCall'
    BY <1>1, <1>2, <1>3 DEF CallInv, NoStrayCall
<1> QED BY <1>6, <1>8, <1>9 DEF CallInv

\* Rows that go: the profile is deleted, or a status request drops one.
LEMMA LostRows ==
    ASSUME VkType, CallInv, VkType', UNCHANGED vk, adrift \subseteq adrift',
           \A c \in Calls : calls'[c] = calls[c] \/ (calls'[c] = "none" /\ GoneIn(vk', adrift', c)),
           \A x \in Makers : maker'[x].pc = maker[x].pc /\ maker'[x].call = maker[x].call,
           UNCHANGED mu, stop' = stop \/ stop' = NoStop,
           \A y \in Pollers : SureIn(vk', adrift', poll'[y])
    PROVE  CallInv'
<1> USE DEF VkType, RowsType, HoldersType
<1>1. Rows' \subseteq Rows
    BY DEF Rows
<1>2. \A x \in Makers : maker'[x].pc = "insert" => maker[x].pc = "insert"
    OBVIOUS
<1>3. RoomInv' /\ CallLimit'
    BY <1>1, <1>2, FewerRows DEF CallInv
<1>4. MutexInv'
    BY DEF MutexInv, CallInv, NoStop, StopType
<1>5. \A c \in Calls : Gone(c) => GoneIn(vk', adrift', c)
    BY DEF Gone, GoneIn
<1>6. stop.set \subseteq Calls
    BY DEF StopType
<1>7. GoneInv'
    <2>1. \A c \in Calls : calls'[c] # "none" => vk'[c] # "none"
        BY DEF CallInv, GoneInv
    <2>2. \A c \in Calls : calls'[c] = "finishing" => GoneIn(vk', adrift', c)
        BY <1>5 DEF CallInv, GoneInv
    <2>3. \A x \in Makers : maker'[x].pc = "insert" => vk'[maker'[x].call] # "none"
        BY DEF CallInv, GoneInv
    <2>4. stop'.pc = "mark" => /\ \A c \in stop'.set : GoneIn(vk', adrift', c)
                               /\ stop'.whole => Rows' \subseteq stop'.set
        BY <1>1, <1>5, <1>6 DEF CallInv, GoneInv, NoStop
    <2> QED BY <2>1, <2>2, <2>3, <2>4 DEF GoneInv, Gone
<1>8. NoStrayCall'
    BY DEF CallInv, NoStrayCall, GoneIn
<1> QED BY <1>3, <1>4, <1>7, <1>8 DEF CallInv

LEMMA StopDeleteCalls == ASSUME VkType, CallInv, VkType', StopDelete PROVE CallInv'
<1> USE DEF VkType, RowsType, HoldersType
<1>1. /\ UNCHANGED <<vk, mu>> /\ stop' = NoStop /\ adrift \subseteq adrift'
      /\ \A c \in Calls : calls'[c] = calls[c] \/ (calls'[c] = "none" /\ c \in adrift')
    BY DEF StopDelete, Rows
<1>2. /\ \A x \in Makers : maker'[x].pc = maker[x].pc /\ maker'[x].call = maker[x].call
      /\ \A y \in Pollers : SameLists(poll'[y], poll[y])
    <2>1. Others(maker, poll, form)
        BY DEF StopDelete
    <2>2. maker \in [Makers -> MakerType] /\ poll \in [Pollers -> PollType] /\ form \in FormType
        OBVIOUS
    <2> QED BY ONLY <2>1, <2>2, OthersKeep
<1>3. \A y \in Pollers : SureIn(vk', adrift', poll'[y])
    BY <1>1, <1>2, SureStays DEF OnlyEnds
<1> QED BY <1>1, <1>2, <1>3, LostRows DEF GoneIn

LEMMA DropRowCalls == ASSUME VkType, CallInv, VkType', NEW y \in Pollers, DropRow(y) PROVE CallInv'
<1> USE DEF VkType, RowsType, HoldersType
<1>1. /\ UNCHANGED <<vk, mu, stop, adrift>> /\ poll[y].pc = "drow"
      /\ calls' = [calls EXCEPT ![poll[y].call] = "none"] \/ calls' = calls
    BY DEF DropRow
<1>2. Gone(poll[y].call)
    BY <1>1 DEF CallInv, GoneInv, SureIn, Gone
<1>3. \A c \in Calls : calls'[c] = calls[c] \/ (calls'[c] = "none" /\ GoneIn(vk', adrift', c))
    BY <1>1, <1>2 DEF Gone
<1> DEFINE p == [poll EXCEPT ![y].pc = "next", ![y].call = Manual, ![y].page = NoPage]
<1>4. /\ p \in [Pollers -> PollType]
      /\ p[y].pc = "next" /\ p[y].active = poll[y].active /\ p[y].ending = poll[y].ending
      /\ \A z \in Pollers \ {y} : p[z] = poll[z]
    <2>1. ASSUME NEW r \in PollType, NEW q, q = [r EXCEPT !.pc = "next", !.call = Manual, !.page = NoPage]
          PROVE  q \in PollType /\ q.pc = "next" /\ q.active = r.active /\ q.ending = r.ending
        BY <2>1, NoPageType DEF PollType, Hashes
    <2>2. p = [poll EXCEPT ![y] = [poll[y] EXCEPT !.pc = "next", !.call = Manual, !.page = NoPage]]
        OBVIOUS
    <2>3. poll[y] \in PollType
        OBVIOUS
    <2> HIDE DEF p
    <2> QED BY <2>1, <2>2, <2>3
<1>5. Others(maker, p, form)
    BY DEF DropRow
<1> HIDE DEF p
<1>6. /\ \A x \in Makers : maker'[x].pc = maker[x].pc /\ maker'[x].call = maker[x].call
      /\ \A z \in Pollers : SameLists(poll'[z], p[z])
    <2>1. maker \in [Makers -> MakerType] /\ form \in FormType
        OBVIOUS
    <2> QED BY ONLY <1>4, <1>5, <2>1, OthersKeep
<1>7. \A z \in Pollers : SureIn(vk', adrift', poll'[z])
    <2>1. ASSUME NEW z \in Pollers PROVE SureIn(vk', adrift', poll'[z])
        <3>1. SureIn(vk, adrift, poll[z]) /\ SameLists(poll'[z], p[z])
            BY <1>6 DEF CallInv, GoneInv
        <3>2. /\ p[z].active = poll[z].active /\ p[z].ending = poll[z].ending
              /\ p[z].pc \in {"dwrite", "drow"} => p[z] = poll[z]
            BY <1>4
        <3> QED BY <1>1, <3>1, <3>2 DEF SureIn, SameLists
    <2> QED BY <2>1
<1> QED BY <1>1, <1>3, <1>6, <1>7, LostRows

LEMMA CallStep == ASSUME VkType, CallInv, [Next]_vars PROVE CallInv'
<1>1. VkType'
    BY TypeStep
<1>2. ASSUME NEW x \in Makers, Create(x) \/ MakeGoesOn(x) PROVE CallInv'
    BY <1>1, <1>2, CreateCalls, InsertCalls, QuietMakes DEF MakeGoesOn
<1>3. ASSUME NEW y \in Pollers, Poll(y) PROVE CallInv'
    BY <1>1, <1>3, PollCallsInv, DropRowCalls
<1>4. ASSUME \E S \in SUBSET Calls, whole \in BOOLEAN : StopFinish(S, whole) PROVE CallInv'
    BY <1>4, StopFinishCalls
<1>5. CASE StopGoesOn
    BY <1>1, <1>5, StopMarkCalls, StopDeleteCalls DEF StopGoesOn
<1>6. CASE FormOpen \/ \E hash \in Edited(form.page.hash), on \in {form.page.on, FALSE} : FormSave(hash, on)
    BY <1>1, <1>6, FormSteps, QuietForm
<1>7. CASE UNCHANGED vars
    <2>1. UNCHANGED <<calls, vk, mu, stop, maker, poll, adrift>>
        BY <1>7 DEF vars
    <2>2. \A y \in Pollers : SureIn(vk', adrift', poll'[y])
        BY <2>1 DEF CallInv, GoneInv
    <2>3. adrift' \in SUBSET Calls
        BY <1>1 DEF VkType, RowsType
    <2> QED BY <2>1, <2>2, <2>3, QuietCalls
<1> QED BY <1>2, <1>3, <1>4, <1>5, <1>6, <1>7, CallEndsCalls DEF Next

\* createVKCall counts and starts under vkCreatorMu, which it holds until the row is
\* saved: the rows of a profile never exceed the limit, whoever creates and finishes.
THEOREM CallLimitHolds == Spec => []CallLimit
<1>1. Init => VkType /\ CallInv
    BY TypeInit, CallInit
<1>2. VkType /\ CallInv /\ [Next]_vars => (VkType /\ CallInv)'
    BY TypeStep, CallStep
<1>3. CallInv => CallLimit
    BY DEF CallInv
<1> QED BY <1>1, <1>2, <1>3, PTL DEF Spec

\* No step loses the row of a call that runs, but for the reasons NoStrayCall names:
\* what is dropped, marked or waiting to be dropped was over, or adrift, before.
THEOREM NoStray == Spec => []NoStrayCall
<1>1. Init => VkType /\ CallInv
    BY TypeInit, CallInit
<1>2. VkType /\ CallInv /\ [Next]_vars => (VkType /\ CallInv)'
    BY TypeStep, CallStep
<1>3. CallInv => NoStrayCall
    BY DEF CallInv
<1> QED BY <1>1, <1>2, <1>3, PTL DEF Spec

-----------------------------------------------------------------------------
(***************************************************************************)
(* The book of calls: VkCalls implements CallBook.  A request that starts  *)
(* a call holds vkCreatorMu until the row is in, so Starting has one       *)
(* element at most; rows are dropped only if Gone.                         *)
(***************************************************************************)
LEMMA SameCardinality == \A S : Book!Cardinality(S) = Cardinality(S)
BY DEF Book!Cardinality, Cardinality, Book!IsFiniteSet, IsFiniteSet

LEMMA SameFinite == \A S : Book!IsFiniteSet(S) <=> IsFiniteSet(S)
BY DEF Book!IsFiniteSet, IsFiniteSet

LEMMA SameStarting ==
    ASSUME \A x \in Makers : /\ (maker'[x].pc = "insert") = (maker[x].pc = "insert")
                             /\ maker'[x].pc = "insert" => maker'[x].call = maker[x].call
    PROVE  Starting' = Starting
BY DEF Starting

\* The mutex makes it one call at a time.
LEMMA OneStarts ==
    ASSUME CallInv
    PROVE  /\ mu \notin Makers => Starting = {}
           /\ \A x \in Makers : maker[x].pc = "insert" => Starting = {maker[x].call}
BY DEF CallInv, MutexInv, Starting

LEMMA BookStays ==
    ASSUME UNCHANGED <<vk, adrift>>, Rows' = Rows, Starting' = Starting
    PROVE  [Book!Next]_(Book!vars)
BY DEF Book!vars

LEMMA BookInit == Init => Book!Init
BY DEF Init, Book!Init, Rows, Starting, Idle

LEMMA CreateBook ==
    ASSUME VkType, CallInv, NEW x \in Makers, Create(x)
    PROVE  [Book!Next]_(Book!vars)
<1> USE DEF VkType, RowsType, HoldersType
<1>1. PICK c \in Calls :
          /\ vk[c] = "none" /\ vk' = [vk EXCEPT ![c] = "on"]
          /\ maker' = [maker EXCEPT ![x].pc = "insert", ![x].call = c]
    BY DEF Create
<1>2. /\ mu = "free" /\ calls' = calls /\ adrift' = adrift /\ Cardinality(Rows) < MaxHashes
      /\ \A z \in Makers : maker[z].pc # "insert"
    BY ActorsAssumption DEF Create, CallInv, MutexInv, ActorsAssumption
<1>3. /\ maker'[x].pc = "insert" /\ maker'[x].call = c
      /\ \A z \in Makers \ {x} : maker'[z].pc # "insert"
    BY <1>1, <1>2 DEF MakerType
<1>4. Starting = {} /\ Starting' = {c}
    BY <1>2, <1>3 DEF Starting
<1>5. Rows' = Rows
    BY <1>2 DEF Rows
<1>6. Book!Start(c)
    BY <1>1, <1>2, <1>4, <1>5, SameCardinality DEF Book!Start
<1> QED BY <1>6 DEF Book!Next

LEMMA InsertBook ==
    ASSUME VkType, CallInv, NEW x \in Makers, Insert(x)
    PROVE  [Book!Next]_(Book!vars)
<1> DEFINE c == maker[x].call
<1>1. c \in Calls /\ Starting = {c} /\ vk' = vk
    BY OneStarts DEF Insert, VkType, HoldersType
<1>2. Starting' = {}
    <2>1. \A z \in Makers : maker'[z].pc # "insert"
        BY InsertOwn
    <2> QED BY <2>1 DEF Starting
<1>3. \/ calls' = [calls EXCEPT ![c] = "active"] /\ adrift' = adrift
      \/ calls' = calls /\ adrift' = adrift \cup {c}
    BY DEF Insert
<1>4. calls \in [Calls -> RowState]
    BY DEF VkType, RowsType
<1> HIDE DEF c
<1>5. CASE calls' = [calls EXCEPT ![c] = "active"] /\ adrift' = adrift
    <2>1. Rows' = Rows \cup {c}
        BY <1>1, <1>4, <1>5 DEF Rows
    <2>2. Book!Enter(c)
        BY <1>1, <1>2, <1>5, <2>1 DEF Book!Enter
    <2> QED BY <1>1, <2>2 DEF Book!Next
<1>6. CASE calls' = calls /\ adrift' = adrift \cup {c}
    <2>1. Rows' = Rows
        BY <1>6 DEF Rows
    <2>2. Book!Forget(c)
        BY <1>1, <1>2, <1>6, <2>1 DEF Book!Forget
    <2> QED BY <1>1, <2>2 DEF Book!Next
<1> QED BY <1>3, <1>5, <1>6

LEMMA ReadWriteBook ==
    ASSUME VkType, NEW x \in Makers, Read(x) \/ Write(x)
    PROVE  [Book!Next]_(Book!vars)
<1>1. UNCHANGED <<calls, vk, adrift>>
    BY DEF Read, Write
<1>2. Rows' = Rows
    BY <1>1 DEF Rows
<1>3. \A z \in Makers : /\ (maker'[z].pc = "insert") = (maker[z].pc = "insert")
                        /\ maker'[z].pc = "insert" => maker'[z].call = maker[z].call
    BY MakesOwn
<1>4. Starting' = Starting
    BY <1>3, SameStarting
<1> QED BY <1>1, <1>2, <1>4, BookStays

LEMMA FormBook ==
    ASSUME VkType, FormOpen \/ \E hash \in Seq(Hashes), on \in BOOLEAN : FormSave(hash, on)
    PROVE  [Book!Next]_(Book!vars)
<1>1. UNCHANGED <<calls, vk, adrift>>
    BY DEF FormOpen, FormSave
<1>2. Rows' = Rows
    BY <1>1 DEF Rows
<1>3. \A z \in Makers : maker'[z].pc = maker[z].pc /\ maker'[z].call = maker[z].call
    BY FormOwn
<1>4. Starting' = Starting
    BY <1>3, SameStarting
<1> QED BY <1>1, <1>2, <1>4, BookStays

\* A call that is finished is over; one that is not, or that cannot be, is let go.
LEMMA StopFinishBook ==
    ASSUME VkType, CallInv, NEW S \in SUBSET Calls, NEW whole \in BOOLEAN, StopFinish(S, whole)
    PROVE  [Book!Next]_(Book!vars)
<1>1. UNCHANGED <<calls, maker>> /\ mu = "free" /\ S \subseteq Rows
    BY DEF StopFinish
<1>2. Rows' = Rows /\ Starting' = Starting
    BY <1>1 DEF Rows, Starting
<1>3. Starting = {}
    BY <1>1, OneStarts, ActorsAssumption DEF ActorsAssumption
<1>4. CASE UNCHANGED <<vk, adrift>>
    BY <1>2, <1>4, BookStays
<1>5. CASE \E F \in SUBSET S : vk' = Finished(F) /\ adrift' = adrift \cup {c \in S \ F : vk[c] = "on"}
    <2>1. PICK F \in SUBSET S : vk' = Finished(F) /\ adrift' = adrift \cup {c \in S \ F : vk[c] = "on"}
        BY <1>5
    <2> DEFINE T == {c \in S \ F : vk[c] = "on"}
    <2>2. F \in SUBSET Calls /\ F \subseteq Rows /\ T \in SUBSET Calls /\ T \subseteq {c \in Rows : vk[c] = "on"}
        BY <1>1
    <2>3. vk' = [c \in Calls |-> IF c \in F THEN "over" ELSE vk[c]] /\ adrift' = adrift \cup T
        BY <2>1 DEF Finished
    <2> HIDE DEF T
    <2>4. Book!Finish(F, T)
        BY <1>2, <1>3, <2>2, <2>3 DEF Book!Finish
    <2> QED BY <2>2, <2>4 DEF Book!Next
<1> QED BY <1>4, <1>5 DEF StopFinish

LEMMA StopGoesOnBook ==
    ASSUME VkType, StopGoesOn
    PROVE  [Book!Next]_(Book!vars)
<1>1. Starting' = Starting /\ vk' = vk
    <2>1. Others(maker, poll, form) /\ vk' = vk
        BY DEF StopGoesOn, StopMark, StopDelete
    <2>2. maker \in [Makers -> MakerType] /\ poll \in [Pollers -> PollType] /\ form \in FormType
        BY DEF VkType, HoldersType
    <2>3. \A x \in Makers : maker'[x].pc = maker[x].pc /\ maker'[x].call = maker[x].call
        BY ONLY <2>1, <2>2, OthersKeep
    <2> QED BY <2>1, <2>3, SameStarting
<1>2. CASE StopMark
    <2>1. (calls' = Marked \/ calls' = calls) /\ adrift' = adrift
        BY <1>2 DEF StopMark
    <2>2. Rows' = Rows
        BY <2>1 DEF Marked, Rows
    <2> QED BY <1>1, <2>1, <2>2, BookStays
<1>3. CASE StopDelete /\ UNCHANGED <<calls, prof, adrift>>
    <2>1. Rows' = Rows
        BY <1>3 DEF Rows
    <2> QED BY <1>1, <1>3, <2>1, BookStays
<1>4. CASE calls' = [c \in Calls |-> "none"] /\ adrift' = adrift \cup Rows
    <2>1. Rows' = {}
        BY <1>4 DEF Rows
    <2>2. Book!Discard
        BY <1>1, <1>4, <2>1 DEF Book!Discard
    <2> QED BY <2>2 DEF Book!Next
<1> QED BY <1>2, <1>3, <1>4 DEF StopGoesOn, StopDelete

\* A status request strikes out what is Gone, and lets go what VK does not answer for.
LEMMA PollBook ==
    ASSUME VkType, CallInv, VkType', NEW y \in Pollers, Poll(y)
    PROVE  [Book!Next]_(Book!vars)
<1>1. CASE DropRow(y)
    <2> DEFINE c == poll[y].call
    <2>1. /\ UNCHANGED <<vk, adrift>> /\ (calls' = [calls EXCEPT ![c] = "none"] \/ calls' = calls)
          /\ poll[y].pc = "drow" /\ maker \in [Makers -> MakerType]
          /\ calls \in [Calls -> RowState]
        BY <1>1 DEF DropRow, VkType, HoldersType, RowsType
    <2>2. c \in Calls /\ GoneIn(vk, adrift, c)
        BY <2>1 DEF VkType, HoldersType, CallInv, GoneInv, SureIn
    <2>3. Starting' = Starting
        <3>1. maker' = [x \in Makers |-> Crossed(maker[x], Moved /\ maker[x].pc \in Holding)]
            BY <1>1 DEF DropRow, Others, Moved
        <3>2. \A x \in Makers : maker'[x].pc = maker[x].pc /\ maker'[x].call = maker[x].call
            BY <2>1, <3>1, CrossedIs DEF MakerType
        <3> QED BY <3>2, SameStarting
    <2> HIDE DEF c
    <2>4. Rows' = Rows \ {c} \/ Rows' = Rows
        BY <2>1, <2>2 DEF Rows
    <2>5. CASE c \in Rows /\ Rows' = Rows \ {c}
        <3>1. Book!Strike(c)
            BY <2>1, <2>2, <2>3, <2>4, <2>5 DEF Book!Strike, GoneIn
        <3> QED BY <2>2, <3>1 DEF Book!Next
    <2>6. CASE Rows' = Rows
        BY <2>1, <2>3, <2>6, BookStays
    <2> QED BY <2>4, <2>5, <2>6
<1>2. CASE ~DropRow(y)
    <2>1. UNCHANGED <<calls, vk>> /\ \A z \in Makers : maker'[z].pc = maker[z].pc /\ maker'[z].call = maker[z].call
        BY <1>2, PollOwn
    <2>2. Rows' = Rows /\ Starting' = Starting
        <3>1. Rows' = Rows
            BY <2>1 DEF Rows
        <3> QED BY <2>1, <3>1, SameStarting
    <2>3. CASE adrift' = adrift
        BY <2>1, <2>2, <2>3, BookStays
    <2>4. CASE DropRead(y)
        <3>1. PICK c \in poll[y].active \cup poll[y].ending, r \in PollType :
                 /\ c \in Calls
                 /\ \/ adrift' = adrift /\ Ended(y, c)
                    \/ ~Ended(y, c) /\ adrift' = adrift \cup {c}
            BY <2>4, DropReadIs
        <3>2. CASE ~Ended(y, c) /\ adrift' = adrift \cup {c}
            <4>1. Book!LetGo(c)
                BY <2>1, <2>2, <3>1, <3>2 DEF Book!LetGo, Ended
            <4> QED BY <3>1, <4>1 DEF Book!Next
        <3> QED BY <2>3, <3>1, <3>2
    <2>5. DropRead(y) \/ adrift' = adrift
        BY <1>2 DEF Poll, PollCalls, PollUsers, PollFix, PollList, PollDone, PollAlive, DropWrite
    <2> QED BY <2>3, <2>4, <2>5
<1> QED BY <1>1, <1>2

LEMMA CallEndsBook ==
    ASSUME VkType, NEW c \in Calls, CallEnds(c)
    PROVE  [Book!Next]_(Book!vars)
<1>1. /\ UNCHANGED <<calls, maker, adrift>> /\ vk[c] = "on" /\ vk' = [vk EXCEPT ![c] = "over"]
    BY DEF CallEnds
<1>2. Rows' = Rows /\ Starting' = Starting
    BY <1>1 DEF Rows, Starting
<1>3. Book!End(c)
    BY <1>1, <1>2 DEF Book!End
<1> QED BY <1>3 DEF Book!Next

LEMMA BookStep == ASSUME VkType, CallInv, [Next]_vars PROVE [Book!Next]_(Book!vars)
<1>1. VkType'
    BY TypeStep
<1>2. ASSUME NEW x \in Makers, Create(x) \/ MakeGoesOn(x) PROVE [Book!Next]_(Book!vars)
    BY <1>2, CreateBook, InsertBook, ReadWriteBook DEF MakeGoesOn
<1>3. ASSUME NEW y \in Pollers, Poll(y) PROVE [Book!Next]_(Book!vars)
    BY <1>1, <1>3, PollBook
<1>4. ASSUME \E S \in SUBSET Calls, whole \in BOOLEAN : StopFinish(S, whole)
      PROVE  [Book!Next]_(Book!vars)
    BY <1>4, StopFinishBook
<1>5. CASE FormOpen \/ \E hash \in Edited(form.page.hash), on \in {form.page.on, FALSE} : FormSave(hash, on)
    BY <1>5, FormSteps, FormBook
<1>6. CASE UNCHANGED vars
    <2>1. UNCHANGED <<calls, vk, maker, adrift>>
        BY <1>6 DEF vars
    <2>2. Rows' = Rows /\ Starting' = Starting
        BY <2>1 DEF Rows, Starting
    <2> QED BY <2>1, <2>2, BookStays
<1> QED BY <1>2, <1>3, <1>4, <1>5, <1>6, StopGoesOnBook, CallEndsBook DEF Next

\* The requests of the panel, with their three kinds of writers and a mutex that not
\* all of them take, implement the book of one call at a time.
THEOREM BookImplemented == Spec => ImplementsBook
<1>1. Init => VkType /\ CallInv /\ Book!Init
    BY TypeInit, CallInit, BookInit
<1>2. VkType /\ CallInv /\ [Next]_vars => (VkType /\ CallInv)' /\ [Book!Next]_(Book!vars)
    BY TypeStep, CallStep, BookStep
<1> QED BY <1>1, <1>2, PTL DEF Spec, ImplementsBook, Book!Spec

\* What the book keeps, so holds of VkCalls.
BookInv == /\ vk \in [Calls -> {"none", "on", "over"}]
           /\ Rows \subseteq Calls /\ Starting \subseteq Calls
           /\ Book!Kept

\* A room of the book: with one more, or with fewer.
LEMMA Room ==
    ASSUME NEW S, IsFiniteSet(S)
    PROVE  /\ \A x : Cardinality(S) < MaxHashes =>
                       IsFiniteSet(S \cup {x}) /\ Cardinality(S \cup {x}) <= MaxHashes
           /\ \A T \in SUBSET S : Cardinality(S) <= MaxHashes =>
                       IsFiniteSet(T) /\ Cardinality(T) <= MaxHashes
<1>1. Cardinality(S) \in Nat /\ MaxHashes \in Nat
    BY FS_CardinalityType, BoundsAssumption DEF BoundsAssumption
<1>2. ASSUME NEW x, Cardinality(S) < MaxHashes
      PROVE  IsFiniteSet(S \cup {x}) /\ Cardinality(S \cup {x}) <= MaxHashes
    <2>1. IsFiniteSet(S \cup {x}) /\ Cardinality(S \cup {x}) = IF x \in S THEN Cardinality(S) ELSE Cardinality(S) + 1
        BY FS_AddElement
    <2> QED BY <1>1, <1>2, <2>1
<1>3. ASSUME NEW T \in SUBSET S, Cardinality(S) <= MaxHashes
      PROVE  IsFiniteSet(T) /\ Cardinality(T) <= MaxHashes
    <2>1. IsFiniteSet(T) /\ Cardinality(T) <= Cardinality(S) /\ Cardinality(T) \in Nat
        BY FS_Subset, FS_CardinalityType
    <2> QED BY <1>1, <1>3, <2>1
<1> QED BY <1>2, <1>3

\* Kept, with the library's cardinality.
LEMMA KeptIs ==
    Book!Kept <=>
      /\ IsFiniteSet(Rows \cup Starting) /\ Cardinality(Rows \cup Starting) <= MaxHashes
      /\ \A c, e \in Starting : c = e
      /\ \A c \in Calls : vk[c] = "on" => c \in Rows \cup Starting \cup adrift
      /\ \A c \in Rows \cup Starting : vk[c] # "none"
BY SameCardinality, SameFinite DEF Book!Kept

LEMMA BookInvInit == Book!Init => BookInv
<1> SUFFICES ASSUME Book!Init PROVE BookInv
    OBVIOUS
<1>1. Rows = {} /\ Starting = {} /\ vk = [c \in Calls |-> "none"]
    BY DEF Book!Init
<1>2. Rows \cup Starting = {}
    BY <1>1
<1>3. IsFiniteSet({}) /\ Cardinality({}) = 0
    BY FS_EmptySet
<1>4. IsFiniteSet(Rows \cup Starting) /\ Cardinality(Rows \cup Starting) <= MaxHashes
    BY <1>2, <1>3, BoundsAssumption DEF BoundsAssumption
<1> QED BY <1>1, <1>4, KeptIs DEF BookInv

\* The calls that have room keep it.
LEMMA KeepsRoom ==
    ASSUME Book!Kept, (Rows \cup Starting)' \subseteq Rows \cup Starting
    PROVE  /\ IsFiniteSet((Rows \cup Starting)')
           /\ Cardinality((Rows \cup Starting)') <= MaxHashes
BY KeptIs, Room

LEMMA BookInvStep == BookInv /\ [Book!Next]_(Book!vars) => BookInv'
<1> SUFFICES ASSUME BookInv, [Book!Next]_(Book!vars) PROVE BookInv'
    OBVIOUS
<1>k. /\ Book!Kept /\ vk \in [Calls -> {"none", "on", "over"}]
      /\ Rows \subseteq Calls /\ Starting \subseteq Calls
      /\ IsFiniteSet(Rows \cup Starting) /\ Cardinality(Rows \cup Starting) <= MaxHashes
      /\ \A c, e \in Starting : c = e
      /\ \A c \in Calls : vk[c] = "on" => c \in Rows \cup Starting \cup adrift
      /\ \A c \in Rows \cup Starting : vk[c] # "none"
    BY KeptIs DEF BookInv
<1>q. ASSUME vk' \in [Calls -> {"none", "on", "over"}],
             Rows' \subseteq Calls, Starting' \subseteq Calls,
             IsFiniteSet((Rows \cup Starting)'), Cardinality((Rows \cup Starting)') <= MaxHashes,
             \A c, e \in Starting' : c = e,
             \A c \in Calls : vk'[c] = "on" => c \in Rows' \cup Starting' \cup adrift',
             \A c \in Rows' \cup Starting' : vk'[c] # "none"
      PROVE  BookInv'
    <2>1. Book!Kept'
        BY <1>q, SameCardinality, SameFinite DEF Book!Kept
    <2> QED BY <1>q, <2>1 DEF BookInv
<1>1. ASSUME NEW c \in Calls, Book!Start(c) PROVE BookInv'
    <2>1. /\ vk[c] = "none" /\ vk' = [vk EXCEPT ![c] = "on"] /\ Starting = {} /\ Starting' = {c}
          /\ Rows' = Rows /\ adrift' = adrift /\ Cardinality(Rows) < MaxHashes
        BY <1>1, SameCardinality DEF Book!Start
    <2>2. Rows \cup Starting = Rows /\ (Rows \cup Starting)' = Rows \cup {c}
        BY <2>1
    <2>3. IsFiniteSet(Rows \cup {c}) /\ Cardinality(Rows \cup {c}) <= MaxHashes
        BY <1>k, <2>1, <2>2, Room
    <2>4. IsFiniteSet((Rows \cup Starting)') /\ Cardinality((Rows \cup Starting)') <= MaxHashes
        BY <2>2, <2>3
    <2>5. /\ vk' \in [Calls -> {"none", "on", "over"}] /\ \A e \in Rows' \cup Starting' : vk'[e] # "none"
          /\ \A e \in Calls : vk'[e] = "on" => e \in Rows' \cup Starting' \cup adrift'
        BY <1>k, <2>1
    <2> QED BY <1>k, <1>q, <2>1, <2>4, <2>5
<1>2. ASSUME NEW c \in Calls, Book!Enter(c) \/ Book!Forget(c) PROVE BookInv'
    <2>1. /\ c \in Starting /\ Starting' = {} /\ vk' = vk
          /\ \/ Rows' = Rows \cup {c} /\ adrift' = adrift
             \/ Rows' = Rows /\ adrift' = adrift \cup {c}
        BY <1>2 DEF Book!Enter, Book!Forget
    <2>2. (Rows \cup Starting)' \subseteq Rows \cup Starting
        BY <2>1
    <2>3. IsFiniteSet((Rows \cup Starting)') /\ Cardinality((Rows \cup Starting)') <= MaxHashes
        BY <1>k, <2>2, KeepsRoom
    <2>4. \A e \in Calls : vk'[e] = "on" => e \in Rows' \cup Starting' \cup adrift'
        BY <1>k, <2>1
    <2>5. \A e \in Rows' \cup Starting' : vk'[e] # "none"
        BY <1>k, <2>1
    <2>6. Rows' \subseteq Calls
        BY <1>k, <2>1
    <2> QED BY <1>k, <1>q, <2>1, <2>3, <2>4, <2>5, <2>6
<1>3. ASSUME UNCHANGED <<Starting>>, Rows' \subseteq Rows,
             vk' \in [Calls -> {"none", "on", "over"}],
             \A c \in Calls : vk'[c] = "on" => vk[c] = "on",
             \A c \in Calls : vk[c] # "none" => vk'[c] # "none",
             \A c \in Calls : vk'[c] = "on" /\ c \in Rows \cup adrift => c \in Rows' \cup adrift'
      PROVE  BookInv'
    <2>1. (Rows \cup Starting)' \subseteq Rows \cup Starting
        BY <1>3
    <2>2. IsFiniteSet((Rows \cup Starting)') /\ Cardinality((Rows \cup Starting)') <= MaxHashes
        BY <1>k, <2>1, KeepsRoom
    <2>3. \A c \in Calls : vk'[c] = "on" => c \in Rows' \cup Starting' \cup adrift'
        BY <1>k, <1>3
    <2>4. Rows' \subseteq Calls /\ Starting' \subseteq Calls /\ \A c, e \in Starting' : c = e
        BY <1>k, <1>3
    <2>5. \A c \in Rows' \cup Starting' : vk'[c] # "none"
        BY <1>k, <1>3
    <2> QED BY <1>3, <1>q, <2>2, <2>3, <2>4, <2>5
<1>4. ASSUME NEW c \in Calls, Book!End(c) PROVE BookInv'
    BY <1>k, <1>3, <1>4 DEF Book!End
<1>5. ASSUME NEW c \in Calls, Book!Strike(c) PROVE BookInv'
    <2>1. /\ UNCHANGED <<vk, adrift>> /\ Starting' = Starting /\ Rows' = Rows \ {c}
          /\ vk[c] = "over" \/ c \in adrift
        BY <1>5 DEF Book!Strike
    <2> QED BY <1>k, <1>3, <2>1
<1>6. ASSUME NEW S \in SUBSET Calls, NEW T \in SUBSET Calls, Book!Finish(S, T) PROVE BookInv'
    <2>1. /\ vk' = [c \in Calls |-> IF c \in S THEN "over" ELSE vk[c]]
          /\ adrift' = adrift \cup T /\ Starting' = Starting /\ Rows' = Rows
        BY <1>6 DEF Book!Finish
    <2> QED BY <1>k, <1>3, <2>1
<1>7. ASSUME NEW c \in Calls, Book!LetGo(c) PROVE BookInv'
    <2>1. /\ UNCHANGED vk /\ adrift' = adrift \cup {c} /\ Starting' = Starting /\ Rows' = Rows
        BY <1>7 DEF Book!LetGo
    <2> QED BY <1>k, <1>3, <2>1
<1>8. CASE Book!Discard
    <2>1. /\ UNCHANGED vk /\ adrift' = adrift \cup Rows /\ Starting' = Starting /\ Rows' = {}
        BY <1>8 DEF Book!Discard
    <2> QED BY <1>k, <1>3, <2>1
<1>9. CASE UNCHANGED Book!vars
    <2>1. UNCHANGED <<vk, adrift>> /\ Starting' = Starting /\ Rows' = Rows
        BY <1>9 DEF Book!vars
    <2> QED BY <1>k, <1>3, <2>1
<1> QED BY <1>1, <1>2, <1>4, <1>5, <1>6, <1>7, <1>8, <1>9 DEF Book!Next

\* The call being started is counted against the limit as the rows are; no two are
\* started at a time; a call that runs is in the book, is about to be, or was let go.
THEOREM BookIsKept == Spec => []Book!Kept
<1>1. Book!Init => BookInv
    BY BookInvInit
<1>2. BookInv /\ [Book!Next]_(Book!vars) => BookInv'
    BY BookInvStep
<1>3. BookInv => Book!Kept
    BY DEF BookInv
<1> QED BY <1>1, <1>2, <1>3, BookImplemented, PTL DEF ImplementsBook, Book!Spec
-----------------------------------------------------------------------------
(***************************************************************************)
(* Only a page read too early undoes what others wrote                     *)
(***************************************************************************)
\* A page that nothing crossed still is the profile, and what goes with it still holds.
FreshMaker(x) == maker[x].pc = "write" /\ ~maker[x].page.crossed =>
                     /\ maker[x].page.hash = prof.hash /\ maker[x].page.on = prof.on
                     /\ calls[maker[x].call] = "active"
FreshPoll(y) ==
    /\ poll[y].pc \in {"users", "fix"} /\ ~poll[y].page.crossed =>
           poll[y].active = {c \in Calls : calls[c] = "active"}
    /\ poll[y].pc = "fix" /\ ~poll[y].page.crossed => poll[y].page.hash = prof.hash
    /\ poll[y].pc = "dwrite" /\ ~poll[y].page.crossed =>
           poll[y].page.hash = prof.hash /\ poll[y].page.on = prof.on
FreshForm == form.open /\ ~form.page.crossed =>
                 form.page.hash = prof.hash /\ form.page.on = prof.on

StaleInv == /\ \A x \in Makers : FreshMaker(x)
            /\ \A y \in Pollers : FreshPoll(y)
            /\ FreshForm

\* A step that moves something crosses every page but those it gives up.
LEMMA OthersStale ==
    ASSUME StaleInv, form \in FormType, poll \in [Pollers -> PollType], maker \in [Makers -> MakerType],
           NEW m \in [Makers -> MakerType], NEW p \in [Pollers -> PollType], NEW f \in FormType,
           Others(m, p, f),
           \A x \in Makers : m[x] = maker[x] \/ m[x].pc # "write",
           \A y \in Pollers : p[y] = poll[y] \/ p[y].pc \notin {"users", "fix", "dwrite"},
           f = form \/ ~f.open
    PROVE  StaleInv'
<1>1. ~Moved => prof' = prof /\ calls' = calls
    BY DEF Moved
<1>2. ASSUME NEW x \in Makers PROVE FreshMaker(x)'
    <2>1. /\ maker'[x].pc = m[x].pc /\ maker'[x].call = m[x].call
          /\ maker'[x].page.hash = m[x].page.hash /\ maker'[x].page.on = m[x].page.on
          /\ maker'[x].page.crossed = (m[x].page.crossed \/ (Moved /\ m[x].pc \in Holding))
        BY OthersIs
    <2>2. m[x].page.crossed \in BOOLEAN
        BY DEF MakerType, PageType
    <2>3. SUFFICES ASSUME m[x].pc = "write", ~m[x].page.crossed, ~Moved
                   PROVE  m[x].page.hash = prof'.hash /\ m[x].page.on = prof'.on
                          /\ calls'[m[x].call] = "active"
        BY <2>1, <2>2 DEF FreshMaker, Holding
    <2> QED BY <1>1, <2>3 DEF StaleInv, FreshMaker
<1>3. ASSUME NEW y \in Pollers PROVE FreshPoll(y)'
    <2>1. /\ poll'[y].pc = p[y].pc /\ poll'[y].active = p[y].active
          /\ poll'[y].page.hash = p[y].page.hash /\ poll'[y].page.on = p[y].page.on
          /\ poll'[y].page.crossed = (p[y].page.crossed \/ (Moved /\ p[y].pc \in Holding))
        BY OthersIs
    <2>2. p[y].page.crossed \in BOOLEAN
        BY DEF PollType, PageType
    <2>3. CASE p[y].pc \notin {"users", "fix", "dwrite"}
        BY <2>1, <2>3 DEF FreshPoll
    <2>4. CASE p[y] = poll[y] /\ p[y].pc \in {"users", "fix", "dwrite"}
        <3>1. FreshPoll(y)
            BY DEF StaleInv
        <3>2. CASE Moved \/ p[y].page.crossed
            <4>1. poll'[y].page.crossed
                BY <2>1, <2>2, <2>4, <3>2 DEF Holding
            <4> QED BY <2>1, <4>1, <2>4 DEF FreshPoll
        <3>3. CASE ~Moved /\ ~p[y].page.crossed
            BY <1>1, <2>1, <2>4, <3>1, <3>3 DEF FreshPoll
        <3> QED BY <3>2, <3>3
    <2> QED BY <2>3, <2>4
<1>4. FreshForm'
    <2>1. /\ form'.open = f.open /\ form'.page.hash = f.page.hash /\ form'.page.on = f.page.on
          /\ form'.page.crossed = (f.page.crossed \/ (Moved /\ f.open))
        BY OthersIs
    <2>2. f.page.crossed \in BOOLEAN /\ f.open \in BOOLEAN
        BY DEF FormType, PageType
    <2> QED BY <1>1, <2>1, <2>2 DEF StaleInv, FreshForm
<1> QED BY <1>2, <1>3, <1>4 DEF StaleInv

LEMMA StaleMakes == ASSUME VkType, StaleInv, NEW x \in Makers, Create(x) \/ MakeGoesOn(x) PROVE StaleInv'
<1> USE DEF VkType, RowsType, HoldersType
<1>1. ASSUME NEW r \in MakerType, r.pc # "write", Others([maker EXCEPT ![x] = r], poll, form)
      PROVE  StaleInv'
    <2> DEFINE m == [maker EXCEPT ![x] = r]
    <2>1. /\ m \in [Makers -> MakerType] /\ Others(m, poll, form)
          /\ \A z \in Makers : m[z] = maker[z] \/ m[z].pc # "write"
        BY <1>1
    <2> HIDE DEF m
    <2> QED BY <2>1, OthersStale
<1>2. CASE Create(x)
    <2>1. UNCHANGED <<prof, calls, poll, form>> /\ maker'[x].pc = "insert"
          /\ \A z \in Makers \ {x} : maker'[z] = maker[z]
        <3>1. PICK c \in Calls : maker' = [maker EXCEPT ![x].pc = "insert", ![x].call = c]
            BY <1>2 DEF Create
        <3>2. maker'[x].pc = "insert" /\ \A z \in Makers \ {x} : maker'[z] = maker[z]
            BY <3>1 DEF MakerType
        <3> QED BY <1>2, <3>2 DEF Create
    <2> QED BY <2>1 DEF StaleInv, FreshMaker, FreshPoll, FreshForm
<1>3. CASE Insert(x)
    <2> DEFINE r == [maker[x] EXCEPT !.pc = "read"]
    <2>1. r \in MakerType /\ r.pc = "read" /\ [maker EXCEPT ![x].pc = "read"] = [maker EXCEPT ![x] = r]
        BY DEF MakerType
    <2>2. Others([maker EXCEPT ![x].pc = "read"], poll, form) \/ Others([maker EXCEPT ![x] = Idle], poll, form)
        BY <1>3 DEF Insert
    <2>3. Idle \in MakerType /\ Idle.pc # "write"
        BY NoPageType DEF Idle
    <2> HIDE DEF r
    <2> QED BY <1>1, <2>1, <2>2, <2>3
<1>4. CASE Read(x)
    <2>0. PICK r \in MakerType :
              /\ maker' = [maker EXCEPT ![x] = r]
              /\ \/ r.pc = "idle"
                 \/ /\ r.pc = "write" /\ r.call = maker[x].call
                    /\ r.page = [Page EXCEPT !.crossed = calls[maker[x].call] # "active"]
        BY <1>4, ReadIs
    <2>1. /\ UNCHANGED <<prof, calls, poll, form>>
          /\ \A z \in Makers \ {x} : maker'[z] = maker[z]
          /\ maker'[x] = r
        BY <1>4, <2>0, ReadIs
    <2>2. FreshMaker(x)'
        BY <2>0, <2>1 DEF FreshMaker, Page
    <2>3. ASSUME NEW z \in Makers \ {x} PROVE FreshMaker(z)'
        <3>1. maker'[z] = maker[z] /\ FreshMaker(z) /\ UNCHANGED <<prof, calls>>
            BY <2>1 DEF StaleInv
        <3> QED BY ONLY <3>1 DEF FreshMaker
    <2> QED BY <2>1, <2>2, <2>3 DEF StaleInv, FreshPoll, FreshForm
<1>5. CASE Write(x)
    BY <1>1, <1>5, NoPageType DEF Write, Idle
<1> QED BY <1>2, <1>3, <1>4, <1>5 DEF MakeGoesOn

LEMMA StalePolls == ASSUME VkType, StaleInv, NEW y \in Pollers, Poll(y) PROVE StaleInv'
<1> USE DEF VkType, RowsType, HoldersType
<1>1. ASSUME NEW r \in PollType, r.pc \notin {"users", "fix", "dwrite"},
             Others(maker, [poll EXCEPT ![y] = r], form)
      PROVE  StaleInv'
    <2> DEFINE p == [poll EXCEPT ![y] = r]
    <2>1. /\ p \in [Pollers -> PollType] /\ Others(maker, p, form)
          /\ \A z \in Pollers : p[z] = poll[z] \/ p[z].pc \notin {"users", "fix", "dwrite"}
        BY <1>1
    <2> HIDE DEF p
    <2> QED BY <2>1, OthersStale
<1>2. ASSUME UNCHANGED <<prof, calls, maker, form>>, FreshPoll(y)',
             \A z \in Pollers \ {y} : poll'[z] = poll[z]
      PROVE  StaleInv'
    BY <1>2 DEF StaleInv, FreshMaker, FreshPoll, FreshForm
<1>3. poll[y] \in PollType /\ FreshPoll(y)
    BY DEF StaleInv
<1>4. CASE PollCalls(y)
    <2>1. FreshPoll(y)'
        BY <1>4 DEF PollCalls, Asleep, FreshPoll
    <2> QED BY <1>2, <1>4, <2>1 DEF PollCalls
<1>5. CASE PollUsers(y)
    <2>1. /\ poll'[y].pc = "fix" /\ poll'[y].active = poll[y].active /\ calls' = calls /\ prof' = prof
          /\ poll'[y].page.crossed = poll[y].page.crossed /\ poll'[y].page.hash = prof.hash
          /\ poll[y].pc = "users"
        BY <1>3, <1>5 DEF PollUsers, PollType, Page
    <2>2. FreshPoll(y)'
        BY <1>3, <2>1 DEF FreshPoll
    <2> QED BY <1>2, <1>5, <2>2 DEF PollUsers
<1>6. CASE PollFix(y)
    <2>1. [Asleep EXCEPT !.pc = "list"] \in PollType /\ [Asleep EXCEPT !.pc = "list"].pc = "list"
        BY NoPageType DEF Asleep, PollType
    <2> QED BY <1>1, <1>6, <2>1 DEF PollFix
<1>7. CASE PollList(y)
    <2>1. poll'[y].pc = "next"
        BY <1>3, <1>7 DEF PollList, Asleep
    <2>2. FreshPoll(y)'
        BY <2>1 DEF FreshPoll
    <2> QED BY <1>2, <1>7, <2>2 DEF PollList
<1>8. CASE PollDone(y)
    <2>1. FreshPoll(y)'
        BY <1>8 DEF PollDone, Asleep, FreshPoll
    <2> QED BY <1>2, <1>8, <2>1 DEF PollDone
<1>9. CASE DropRead(y)
    <2>1. /\ prof' = prof
          /\ \/ poll'[y].pc = "dwrite" /\ poll'[y].page = Page
             \/ poll'[y].pc \in {"drow", "next"}
        <3>1. PICK r \in PollType :
                 /\ poll' = [poll EXCEPT ![y] = r]
                 /\ r.pc = "next" \/ r.pc \in {"dwrite", "drow"}
                 /\ r.pc = "dwrite" => r.page = Page
            BY <1>9, DropReadIs
        <3> QED BY <1>9, <3>1 DEF DropRead
    <2>2. FreshPoll(y)'
        BY <2>1 DEF FreshPoll, Page
    <2> QED BY <1>2, <1>9, <2>2 DEF DropRead
<1>10. CASE DropWrite(y) \/ DropRow(y)
    <2> DEFINE r == [poll[y] EXCEPT !.pc = "drow", !.page = NoPage]
               q == [poll[y] EXCEPT !.pc = "next", !.call = Manual, !.page = NoPage]
    <2>1. \/ Others(maker, [poll EXCEPT ![y].pc = "drow", ![y].page = NoPage], form)
          \/ Others(maker, [poll EXCEPT ![y].pc = "next", ![y].call = Manual, ![y].page = NoPage], form)
        BY <1>10 DEF DropWrite, DropRow
    <2>2. r \in PollType /\ r.pc = "drow" /\ q \in PollType /\ q.pc = "next"
        BY <1>3, NoPageType DEF PollType, Hashes
    <2>3. /\ [poll EXCEPT ![y].pc = "drow", ![y].page = NoPage] = [poll EXCEPT ![y] = r]
          /\ [poll EXCEPT ![y].pc = "next", ![y].call = Manual, ![y].page = NoPage] = [poll EXCEPT ![y] = q]
        OBVIOUS
    <2> HIDE DEF r, q
    <2> QED BY <1>1, <2>1, <2>2, <2>3
<1>11. CASE PollAlive(y)
    <2>1. poll'[y].pc = "next"
        BY <1>3, <1>11 DEF PollAlive, PollType
    <2>2. FreshPoll(y)'
        BY <2>1 DEF FreshPoll
    <2> QED BY <1>2, <1>11, <2>2 DEF PollAlive
<1> QED BY <1>4, <1>5, <1>6, <1>7, <1>8, <1>9, <1>10, <1>11 DEF Poll

LEMMA StaleStep == ASSUME VkType, StaleInv, [Next]_vars PROVE StaleInv'
<1>1. maker \in [Makers -> MakerType] /\ poll \in [Pollers -> PollType] /\ form \in FormType
    BY DEF VkType, HoldersType
<1>2. ASSUME UNCHANGED <<prof, calls, maker, poll, form>> PROVE StaleInv'
    BY <1>2 DEF StaleInv, FreshMaker, FreshPoll, FreshForm
<1>3. CASE \E S \in SUBSET Calls, whole \in BOOLEAN : StopFinish(S, whole)
    BY <1>2, <1>3 DEF StopFinish
<1>4. CASE StopGoesOn
    <2>1. Others(maker, poll, form)
        BY <1>4 DEF StopGoesOn, StopMark, StopDelete
    <2> QED BY <1>1, <2>1, OthersStale
<1>5. CASE FormOpen
    BY <1>5 DEF FormOpen, Page, StaleInv, FreshMaker, FreshPoll, FreshForm
<1>6. CASE \E hash \in Edited(form.page.hash), on \in {form.page.on, FALSE} : FormSave(hash, on)
    <2>1. Others(maker, poll, NoForm)
        BY <1>6 DEF FormSave
    <2>2. NoForm \in FormType /\ ~NoForm.open
        BY NoPageType DEF NoForm
    <2> QED BY <1>1, <2>1, <2>2, OthersStale
<1>7. ASSUME NEW c \in Calls, CallEnds(c) PROVE StaleInv'
    BY <1>2, <1>7 DEF CallEnds
<1>8. CASE UNCHANGED vars
    BY <1>2, <1>8 DEF vars
<1> QED BY <1>3, <1>4, <1>5, <1>6, <1>7, <1>8, StaleMakes, StalePolls DEF Next

LEMMA StaleInit == Init => StaleInv
<1> SUFFICES ASSUME Init PROVE StaleInv
    OBVIOUS
<1>1. \A x \in Makers : maker[x].pc = "idle"
    BY DEF Init, Idle
<1>2. \A y \in Pollers : poll[y].pc = "idle"
    BY DEF Init, Asleep
<1>3. ~form.open
    BY DEF Init, NoForm
<1> QED BY <1>1, <1>2, <1>3 DEF StaleInv, FreshMaker, FreshPoll, FreshForm

\* Requests and the form write from their own page.
LEMMA PagesAre ==
    /\ \A x \in Makers : maker[x] # maker'[x] => maker[x].page \in Pages
    /\ \A y \in Pollers : poll[y] # poll'[y] => poll[y].page \in Pages
    /\ form # form' => form.page \in Pages
BY DEF Pages

LEMMA Unwritten == ASSUME prof' = prof PROVE UndoesNothing
BY DEF UndoesNothing

\* What is enough of a new list for a fresh page of the old one.
LEMMA Kept ==
    ASSUME VkType, NEW new \in Seq(Hashes), prof'.hash = new,
           \A c \in ToSet(new) \ ToSet(prof.hash) : c = Manual \/ calls[c] = "active",
           Manual \in ToSet(prof.hash) => Manual \in ToSet(new) \/ Len(prof.hash) > MaxHashes,
           prof'.on = prof.on
    PROVE  UndoesNothing
BY DEF UndoesNothing

LEMMA WriteUndo == ASSUME VkType, VkType', StaleInv, NEW x \in Makers, Write(x) PROVE UndoesNothing
<1> DEFINE page == maker[x].page
           have == page.hash
           want == Merge(have, maker[x].call)
<1>1. /\ maker[x] \in MakerType /\ maker[x].pc = "write" /\ maker[x].call \in Calls
      /\ have \in Seq(Hashes) /\ maker[x].call \in Hashes
    BY DEF Write, VkType, HoldersType, MakerType, PageType
<1>2. page \in Pages
    <2>1. [maker EXCEPT ![x] = Idle] \in [Makers -> MakerType] /\ Others([maker EXCEPT ![x] = Idle], poll, form)
        BY NoPageType DEF Write, VkType, HoldersType
    <2>2. poll \in [Pollers -> PollType] /\ form \in FormType
        BY DEF VkType, HoldersType
    <2>3. [maker EXCEPT ![x] = Idle][x].pc = "idle"
        BY DEF Idle, VkType, HoldersType
    <2>4. maker'[x].pc = "idle"
        BY <2>1, <2>2, <2>3, OthersIs
    <2> QED BY <1>1, <2>4, PagesAre
<1>3. SUFFICES ASSUME ~page.crossed, prof' # prof PROVE UndoesNothing
    BY <1>2, Unwritten DEF UndoesNothing
<1>4. have = prof.hash /\ page.on = prof.on /\ calls[maker[x].call] = "active"
    BY <1>1, <1>3 DEF StaleInv, FreshMaker
<1>5. prof' = [prof EXCEPT !.hash = Normalize(want), !.on = page.on]
    BY <1>3 DEF Write, WriteProfile
<1>6. /\ want \in Seq(Hashes) /\ Len(want) <= MaxHashes
      /\ ToSet(want) \subseteq ToSet(have) \cup {maker[x].call}
      /\ Len(have) <= MaxHashes => ToSet(have) \subseteq ToSet(want)
    BY <1>1, MergeIs
<1>7. Normalize(want) = want
    BY <1>6, NormalizeIs
<1>8. prof'.hash = want /\ prof'.on = prof.on
    BY <1>4, <1>5, <1>7 DEF VkType, RowsType
<1>9. Len(have) \in Nat /\ (Len(have) <= MaxHashes \/ Len(have) > MaxHashes)
    BY <1>1, BoundsAssumption DEF BoundsAssumption
<1> HIDE DEF have, want, page
<1> QED BY <1>4, <1>6, <1>8, <1>9, Kept

LEMMA FixUndo == ASSUME VkType, StaleInv, NEW y \in Pollers, PollFix(y) PROVE UndoesNothing
<1> DEFINE page == poll[y].page
           want == Reconcile(page.hash, poll[y].active, poll[y].ending)
<1>1. /\ poll[y] \in PollType /\ poll[y].pc = "fix" /\ page.hash \in Seq(Hashes)
      /\ poll[y].active \in SUBSET Calls /\ poll[y].ending \in SUBSET Calls
    BY DEF PollFix, VkType, HoldersType, PollType, PageType
<1>2. page \in Pages
    <2> DEFINE p == [poll EXCEPT ![y] = [Asleep EXCEPT !.pc = "list"]]
    <2>1. p \in [Pollers -> PollType] /\ p[y].pc = "list"
        BY NoPageType DEF Asleep, PollType, VkType, HoldersType
    <2>2. Others(maker, p, form) /\ maker \in [Makers -> MakerType] /\ form \in FormType
        BY DEF PollFix, VkType, HoldersType
    <2> HIDE DEF p
    <2>3. poll'[y].pc = "list"
        BY <2>1, <2>2, OthersIs
    <2> QED BY <1>1, <2>3, PagesAre
<1>3. SUFFICES ASSUME ~page.crossed, prof' # prof PROVE UndoesNothing
    BY <1>2, Unwritten DEF UndoesNothing
<1>4. page.hash = prof.hash /\ poll[y].active = {c \in Calls : calls[c] = "active"}
    BY <1>1, <1>3 DEF StaleInv, FreshPoll
<1>5. prof' = [prof EXCEPT !.hash = want]
    BY <1>3 DEF PollFix
<1>6. want \in Seq(Hashes) /\ ToSet(want) = (ToSet(page.hash) \ poll[y].ending) \cup (poll[y].active \ ToSet(page.hash))
    BY <1>1, ReconcileIs
<1>7. prof'.hash = want /\ prof'.on = prof.on
    BY <1>5 DEF VkType, RowsType
<1>8. Manual \notin poll[y].ending
    BY <1>1, CallsAssumption DEF CallsAssumption
<1> HIDE DEF want, page
<1> QED BY <1>4, <1>6, <1>7, <1>8, Kept

LEMMA DropUndo == ASSUME VkType, StaleInv, NEW y \in Pollers, DropWrite(y) PROVE UndoesNothing
<1> DEFINE page == poll[y].page
           have == page.hash
           want == Subtract(have, poll[y].call)
<1>1. /\ poll[y] \in PollType /\ poll[y].pc = "dwrite" /\ have \in Seq(Hashes)
      /\ poll[y].call \in Calls
    BY DEF DropWrite, VkType, HoldersType, PollType, PageType
<1>2. page \in Pages
    <2>1. ASSUME NEW p \in [Pollers -> PollType], p[y].pc # "dwrite", Others(maker, p, form)
          PROVE  poll'[y].pc # "dwrite"
        BY <2>1, OthersIs DEF VkType, HoldersType
    <2> DEFINE p == [poll EXCEPT ![y].pc = "drow", ![y].page = NoPage]
               q == [poll EXCEPT ![y].pc = "next", ![y].call = Manual, ![y].page = NoPage]
    <2>2. p \in [Pollers -> PollType] /\ p[y].pc # "dwrite" /\ q \in [Pollers -> PollType] /\ q[y].pc # "dwrite"
        BY <1>1, NoPageType DEF PollType, VkType, HoldersType, Hashes
    <2>3. Others(maker, p, form) \/ Others(maker, q, form)
        BY DEF DropWrite
    <2> HIDE DEF p, q
    <2>4. poll'[y].pc # "dwrite"
        BY <2>1, <2>2, <2>3
    <2> QED BY <1>1, <2>4, PagesAre
<1>3. SUFFICES ASSUME ~page.crossed, prof' # prof PROVE UndoesNothing
    BY <1>2, Unwritten DEF UndoesNothing
<1>4. have = prof.hash /\ page.on = prof.on
    BY <1>1, <1>3 DEF StaleInv, FreshPoll
<1>5. prof' = [prof EXCEPT !.hash = Normalize(want), !.on = page.on]
    BY <1>3 DEF DropWrite, WriteProfile
<1>6. /\ want \in Seq(Hashes) /\ Len(want) <= MaxHashes /\ ToSet(want) \subseteq ToSet(have)
      /\ Len(have) <= MaxHashes => ToSet(want) = ToSet(have) \ {poll[y].call}
    BY <1>1, SubtractIs
<1>7. Normalize(want) = want
    BY <1>6, NormalizeIs
<1>8. prof'.hash = want /\ prof'.on = prof.on
    BY <1>4, <1>5, <1>7 DEF VkType, RowsType
<1>9. Len(have) \in Nat /\ (Len(have) <= MaxHashes \/ Len(have) > MaxHashes)
    BY <1>1, BoundsAssumption DEF BoundsAssumption
<1>10. poll[y].call # Manual
    BY <1>1, CallsAssumption DEF CallsAssumption
<1> HIDE DEF have, want, page
<1> QED BY <1>4, <1>6, <1>8, <1>9, <1>10, Kept

LEMMA SaveUndo ==
    ASSUME VkType, StaleInv, NEW hash \in Seq(Hashes), NEW on \in BOOLEAN, FormSave(hash, on),
           ToSet(hash) \subseteq ToSet(form.page.hash) \cup {Manual}
    PROVE  UndoesNothing
<1>1. form.page \in Pages
    <2>1. /\ NoForm \in FormType /\ ~NoForm.open /\ form.open /\ Others(maker, poll, NoForm)
          /\ maker \in [Makers -> MakerType] /\ poll \in [Pollers -> PollType]
        BY NoPageType DEF NoForm, FormSave, VkType, HoldersType
    <2>2. form'.open = NoForm.open
        BY <2>1, OthersIs
    <2> QED BY <2>1, <2>2, PagesAre
<1>2. saves' # saves /\ form.open
    BY DEF FormSave, VkType, RowsType
<1>3. SUFFICES ASSUME ~form.page.crossed, prof' # prof PROVE UndoesNothing
    BY <1>1, Unwritten DEF UndoesNothing
<1>4. form.page.hash = prof.hash
    BY <1>2, <1>3 DEF StaleInv, FreshForm
<1>5. prof'.hash = Normalize(hash)
    BY <1>3 DEF FormSave, WriteProfile, VkType, RowsType
<1>6. ToSet(Normalize(hash)) \subseteq ToSet(hash)
    BY NormalizeIs
<1> QED BY <1>2, <1>4, <1>5, <1>6 DEF UndoesNothing

LEMMA UndoStep == ASSUME VkType, StaleInv, [Next]_vars PROVE [UndoesNothing]_vars
<1>1. VkType'
    BY TypeStep
<1>2. ASSUME NEW x \in Makers, Create(x) \/ MakeGoesOn(x) PROVE UndoesNothing
    BY <1>1, <1>2, WriteUndo, Unwritten DEF MakeGoesOn, Create, Insert, Read
<1>3. ASSUME NEW y \in Pollers, Poll(y) PROVE UndoesNothing
    BY <1>3, FixUndo, DropUndo, Unwritten DEF Poll, PollCalls, PollUsers, PollList, PollDone, PollAlive, DropRead, DropRow
<1>4. CASE StopGoesOn
    BY <1>4, Unwritten DEF StopGoesOn, StopMark, StopDelete, UndoesNothing
<1>5. CASE FormOpen \/ (\E c \in Calls : CallEnds(c))
           \/ \E S \in SUBSET Calls, whole \in BOOLEAN : StopFinish(S, whole)
    BY <1>5, Unwritten DEF FormOpen, CallEnds, StopFinish
<1>6. CASE \E hash \in Edited(form.page.hash), on \in {form.page.on, FALSE} : FormSave(hash, on)
    BY <1>6, FormSteps, SaveUndo
<1> QED BY <1>2, <1>3, <1>4, <1>5, <1>6 DEF Next

\* mergeVKHashes, mergeVKHashReconcile, subtractVKHashes and the form only undo what
\* others wrote when they write from a page that was read before: for any number of
\* requests and calls, a hash comes only for an active row, and the typed hash and
\* the switch are the form's.
THEOREM StaleWritesOnly == Spec => OnlyStaleWritesUndo
<1>1. Init => VkType /\ StaleInv
    BY TypeInit, StaleInit
<1>2. VkType /\ StaleInv /\ [Next]_vars => (VkType /\ StaleInv)'
    BY TypeStep, StaleStep
<1>3. VkType /\ StaleInv /\ [Next]_vars => [UndoesNothing]_vars
    BY UndoStep
<1> QED BY <1>1, <1>2, <1>3, PTL DEF Spec, OnlyStaleWritesUndo
=============================================================================
