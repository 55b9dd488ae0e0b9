-------------------------- MODULE MC_RelaySession --------------------------
(* Model-checking instances of RelaySession: the connections of one        *)
(* device, which are interchangeable.                                      *)
EXTENDS RelaySession, TLC

CONSTANT d1

OneDevice == [c \in Conns |-> d1]

ConnSymmetry == Permutations(Conns)
=============================================================================
