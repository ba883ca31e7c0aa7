-------------------------- MODULE MCScanLifecycle --------------------------
(* Instances of ScanLifecycle for TLC. *)
EXTENDS ScanLifecycle

CONSTANTS s1, s2, s3, c1, c2
=============================================================================
