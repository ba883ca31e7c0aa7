--------------------------- MODULE MCReplication ---------------------------
(* Instances of Replication for TLC. *)
EXTENDS Replication

CONSTANTS n1, n2, n3, c1, c2, fileA, short, long

AllLocal == [n \in Nodes |-> "local"]

OneOfEach == [n \in Nodes |-> IF n = n1 THEN "local"
                              ELSE IF n = n2 THEN "s3" ELSE "other"]

SameFile == [c \in Callers |-> fileA]

Setup(default, tables, first, second, failing, edits, faults) ==
  [default |-> default, hasDB |-> tables # {{}},
   tables  |-> tables,
   calls   |-> [c \in Callers |-> IF c = c1 THEN first ELSE second],
   checks  |-> failing, changes |-> edits, crashes |-> faults]

(* The singleton on two nodes with one caller and failing health checks, on *)
(* one node with two callers of one file; a tenant's service whose table is *)
(* edited, and one that two callers share, where a load may also fail and   *)
(* fall back to the default node.                                           *)
AllSetups == {Setup({n1, n2}, {{}}, 2, 0, 1, 0, 1),
              Setup({n1},     {{}}, 2, 1, 0, 0, 1),
              Setup({n1},     {{}, {n2, n3}}, 1, 0, 0, 1, 1),
              Setup({n1},     {{n2, n3}}, 1, 1, 0, 0, 0)}

ThreeNodes == {Setup({n1, n2, n3}, {{}}, 1, 0, 0, 0, 1)}

Lengths == [v \in Values |-> IF v = short THEN 1 ELSE 2]
=============================================================================
