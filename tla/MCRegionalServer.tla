-------------------------- MODULE MCRegionalServer --------------------------
(* The regional server on small instances: every sensor watches zone 1, and   *)
(* all sessions are of one lamp, so that they are interchangeable.            *)
EXTENDS RegionalServer, TLC

InZoneOne == [s \in Sensors |-> 1]
OfOneLamp == [c \in Sessions |-> CHOOSE u \in Lamps : TRUE]

SessionSymmetry == Permutations(Sessions)
=============================================================================
