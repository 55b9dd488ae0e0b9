--------------------------- MODULE MC_WGPresence ---------------------------
(* Model-checking instances of WGPresence: the connections of one device.  *)
EXTENDS WGPresence

CONSTANT d1

OneDevice == [c \in Conns |-> d1]
=============================================================================
