---------------------------- MODULE PanelPort_proofs ----------------------------
(***************************************************************************)
(* The bound on login attempts, for any number of connections and any      *)
(* limit.  AttemptBound is inductive with the types of fails and conn: an  *)
(* attempt is let in only below the limit, and what is let in adds to the  *)
(* failures only what it takes from the attempts under way.                *)
(***************************************************************************)
EXTENDS PanelPort, FiniteSetTheorems, TLAPS

PortType == fails \in Nat /\ conn \in [Conns -> Places]
PortInv == PortType /\ AttemptBound

Checking == At({"check"})

\* The attempts under way are some of the connections.
LEMMA CheckingFinite ==
    /\ IsFiniteSet(Checking)
    /\ Cardinality(Checking) \in Nat
    /\ Cardinality(Conns) \in Nat
    /\ Cardinality(Checking) <= Cardinality(Conns)
<1>1. Checking \subseteq Conns
    BY DEF Checking, At
<1> QED BY <1>1, PortAssumption, FS_Subset, FS_CardinalityType DEF PortAssumption

\* A connection that goes from one place to another, neither of them the comparison
\* of a password, leaves the attempts under way as they are.
LEMMA MoveElsewhere ==
    ASSUME PortInv, NEW c \in Conns, NEW p \in Places \ {"check"},
           conn[c] # "check", Move(c, p), UNCHANGED fails
    PROVE  PortInv'
<1>1. conn' = [conn EXCEPT ![c] = p] /\ p # "check"
    BY DEF Move
<1>2. conn' \in [Conns -> Places]
    BY <1>1 DEF PortInv, PortType
<1>3. \A d \in Conns : conn'[d] = "check" <=> conn[d] = "check"
    BY <1>1 DEF PortInv, PortType
<1>4. At({"check"})' = At({"check"})
    BY <1>3 DEF At
<1> QED BY <1>2, <1>4 DEF PortInv, PortType, AttemptBound

\* The end of the process ends the attempts; the failures are forgotten at the start.
LEMMA DieKeeps == ASSUME PortInv, Die PROVE PortInv'
<1>1. conn' = [c \in Conns |-> "away"] /\ fails' = fails
    BY DEF Die
<1>2. At({"check"})' = {}
    BY <1>1 DEF At
<1>3. Cardinality(At({"check"}))' = 0
    BY <1>2, FS_EmptySet
<1> QED BY <1>1, <1>3, CheckingFinite, PortAssumption
        DEF PortInv, PortType, AttemptBound, Checking, Places, PortAssumption

\* allow: the attempts under way cannot outnumber the connections.
LEMMA LoginKeeps == ASSUME PortInv, NEW c \in Conns, Login(c) PROVE PortInv'
<1>1. /\ conn' = [conn EXCEPT ![c] = "check"]
      /\ fails' = fails /\ fails < MaxFailures
    BY DEF Login, Move
<1>2. conn' \in [Conns -> Places]
    BY <1>1 DEF PortInv, PortType, Places
<1>3. At({"check"})' \subseteq Conns
    BY DEF At
<1>4. /\ Cardinality(At({"check"}))' \in Nat
      /\ Cardinality(At({"check"}))' <= Cardinality(Conns)
    BY <1>3, PortAssumption, FS_Subset, FS_CardinalityType DEF PortAssumption
<1>5. fails' + Cardinality(At({"check"}))' <= MaxFailures - 1 + Cardinality(Conns)
    BY <1>1, <1>4, CheckingFinite, PortAssumption DEF PortInv, PortType, PortAssumption
<1> QED BY <1>1, <1>2, <1>5 DEF PortInv, PortType, AttemptBound

\* handleLogin: one attempt less, at most one failure more.
LEMMA ComparedKeeps == ASSUME PortInv, NEW c \in Conns, Compared(c) PROVE PortInv'
<1>1. /\ conn' = [conn EXCEPT ![c] = "served"]
      /\ fails' \in {fails, fails + 1, 0} /\ conn[c] = "check"
    BY DEF Compared, Move
<1>2. conn' \in [Conns -> Places] /\ fails' \in Nat
    BY <1>1 DEF PortInv, PortType, Places
<1>3. At({"check"})' = At({"check"}) \ {c}
    BY <1>1 DEF At, PortInv, PortType
<1>4. c \in At({"check"})
    BY <1>1 DEF At
<1>5. Cardinality(At({"check"}))' = Cardinality(At({"check"})) - 1
    BY <1>3, <1>4, CheckingFinite, FS_RemoveElement DEF Checking
<1>6. fails' + Cardinality(At({"check"}))' <= fails + Cardinality(At({"check"}))
    BY <1>1, <1>2, <1>5, CheckingFinite DEF Checking, PortInv, PortType
<1>7. fails' + Cardinality(At({"check"}))' <= MaxFailures - 1 + Cardinality(Conns)
    BY <1>2, <1>5, <1>6, CheckingFinite, PortAssumption
       DEF Checking, PortInv, PortType, AttemptBound, PortAssumption
<1> QED BY <1>2, <1>7 DEF PortInv, PortType, AttemptBound

\* The steps of the loop, of Serve and of time move no connection.
LEMMA RestKeeps ==
    ASSUME PortInv, conn' = conn, fails' \in Nat, fails' <= fails
    PROVE  PortInv'
<1>1. At({"check"})' = At({"check"})
    BY DEF At
<1> QED BY <1>1, CheckingFinite, PortAssumption
        DEF PortInv, PortType, AttemptBound, Checking, PortAssumption

LEMMA PortStep == ASSUME PortInv, [Next]_vars PROVE PortInv'
<1>1. ASSUME NEW c \in Conns,
             Dial(c) \/ Accept(c) \/ Redirect(c) \/ HandOver(c) \/ Hangup(c)
      PROVE  PortInv'
    <2>1. /\ conn[c] # "check" /\ UNCHANGED fails
          /\ \E p \in Places \ {"check"} : Move(c, p)
        BY <1>1 DEF Dial, Accept, Redirect, HandOver, Hangup, Places
    <2> QED BY <2>1, MoveElsewhere
<1>2. ASSUME NEW c \in Conns, Peek(c) PROVE PortInv'
    <2>1. \/ Die
          \/ /\ conn[c] # "check" /\ UNCHANGED fails
             /\ \E p \in Places \ {"check"} : Move(c, p)
        BY <1>2 DEF Peek, Places
    <2> QED BY <2>1, MoveElsewhere, DieKeeps
<1>3. CASE Close
    <2>1. Die \/ (conn' = conn /\ fails' = fails)
        BY <1>3 DEF Close
    <2> QED BY <2>1, DieKeeps, RestKeeps DEF PortInv, PortType
<1>4. CASE Exit
    BY <1>4, DieKeeps DEF Exit
<1>5. CASE AcceptFails \/ SendError \/ Resume \/ ServeClosed \/ Boot \/ Expire \/ UNCHANGED vars
    <2>1. conn' = conn /\ fails' \in Nat /\ fails' <= fails
        BY <1>5 DEF AcceptFails, SendError, Resume, ServeClosed, Boot, Expire, vars, PortInv, PortType
    <2> QED BY <2>1, RestKeeps
<1> QED BY <1>1, <1>2, <1>3, <1>4, <1>5, LoginKeeps, ComparedKeeps DEF Next

\* Every reachable state is well typed and within the bound.
THEOREM PortInvariant == Spec => []PortInv
<1>1. Init => PortInv
    <2> SUFFICES ASSUME Init PROVE PortInv
        OBVIOUS
    <2>1. At({"check"}) = {}
        BY DEF Init, At
    <2>2. Cardinality(At({"check"})) = 0
        BY <2>1, FS_EmptySet
    <2> QED BY <2>2, CheckingFinite, PortAssumption
            DEF Init, PortInv, PortType, AttemptBound, Places, PortAssumption
<1>2. PortInv /\ [Next]_vars => PortInv'
    BY PortStep
<1> QED BY <1>1, <1>2, PTL DEF Spec

\* The limiter of loginLimiter.allow and recordFail (panel/login_limit.go): whatever
\* attempts overlap, failures and attempts under way exceed the limit by no more than
\* the connections there are, less one.
THEOREM AttemptsBounded == Spec => []AttemptBound
<1>1. PortInv => AttemptBound
    BY DEF PortInv
<1> QED BY <1>1, PortInvariant, PTL
=============================================================================
