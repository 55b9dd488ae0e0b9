---------------------------- MODULE MC_RawGroups ----------------------------
(* Model-checking instances of RawGroups: the sessions of one identity,    *)
(* which are interchangeable.                                              *)
EXTENDS RawGroups, TLC

CONSTANT d1

OneId == [s \in Sessions |-> d1]

SessionSymmetry == Permutations(Sessions)
=============================================================================
