--------------------------- MODULE MCKeyRotation ---------------------------
(* Instances of KeyRotation for TLC. *)
EXTENDS KeyRotation

CONSTANTS r1, r2, j1, j2

Scene(keyed, present, metas, active, old, new, faults, crashes, deletes) ==
  [keyed |-> keyed, stored |-> present, metas |-> metas, active |-> active,
   new |-> new, old |-> old, faults |-> faults,
   crashes |-> crashes, deletes |-> deletes]

One == [j \in Jobs |-> 1]
Two == [j \in Jobs |-> 2]
Mixed == [j \in Jobs |-> IF j = j1 THEN 2 ELSE 3]

(* A new tenant: uploads and rotations race for its first key.  A tenant with *)
(* artifacts: two jobs for different versions, one of whose artifacts has no  *)
(* meta.json, while another is uploaded or deleted; two faults, after which a *)
(* temporary is neither renamed nor removed.  A job from a version that does  *)
(* not exist.                                                                 *)
AllSetups ==
  {Scene(FALSE, {}, {}, {1, 2, r1, r2}, One, Two, 1, 1, 0),
   Scene(TRUE, {1, 3, 4}, {1, 3}, {j1, 2, r1}, One, Two, 1, 1, 1),
   Scene(TRUE, {1, 3}, {1, 3}, {j1, j2}, One, Mixed, 1, 0, 0),
   Scene(TRUE, {1}, {1}, {j1, j2}, One, Mixed, 2, 0, 0),
   Scene(TRUE, {1, 2}, {2}, {j1, j2}, One, Two, 0, 1, 0),
   Scene(TRUE, {1}, {1}, {j1}, Two, Mixed, 0, 0, 0)}

(* A tenant that has a key, one rotation, and nothing that fails.             *)
QuietRotation == {Scene(TRUE, {1}, {}, {r1}, One, Two, 0, 0, 0)}
=============================================================================
