---------------------------- MODULE MCCentralSync ---------------------------
(* CentralSync with two sets of figures: two zones with a dark lamp each, and *)
(* a registry that was read while the lamp of zone 1 moved to zone 2: the     *)
(* power sums already have it there, lit, the summary has both zones.         *)
EXTENDS CentralSync, TLC

MCFigures == {[power |-> (1 :> 0) @@ (2 :> 0), summary |-> (1 :> "off") @@ (2 :> "off")],
              [power |-> (2 :> 1), summary |-> (1 :> "on") @@ (2 :> "off")]}
=============================================================================
