---------------------------- MODULE MCCacheScan ----------------------------
(* Instances of CacheScan for TLC. *)
EXTENDS CacheScan

Plan(fills, evictions, faults, crashes) ==
  [fills |-> fills, evictions |-> evictions, faults |-> faults, crashes |-> crashes]

(* A row that is evicted and comes back under running scans, a fault in any *)
(* statement, and a crash between any two.                                  *)
AllPlans == {Plan(2, 1, 1, 0), Plan(2, 1, 0, 1)}
=============================================================================
