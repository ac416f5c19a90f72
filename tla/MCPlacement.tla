---------------------------- MODULE MCPlacement ----------------------------
(* Two hosts, one that reports its cores and one that does not.             *)
EXTENDS Placement
OneUnit == [s \in Sessions |-> [mem |-> 1, cpu |-> 1]]
OneEach == [h \in Hosts |-> [mem |-> 1, cpu |-> IF h = 1 THEN 1 ELSE 0]]
============================================================================
