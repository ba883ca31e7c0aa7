----------------------------- MODULE MCArtifacts -----------------------------
(* An instance of ArtifactUpload and PropertyStore for TLC: an artifact and   *)
(* its properties.  The two share no state, so a property of one says the     *)
(* same of it alone as of both together, and the instance has the behaviours  *)
(* of each while the other is at rest.                                        *)
EXTENDS ArtifactUpload, PropertyStore, TLC

CONSTANTS u1, u2, u3, c1, c2, r1, r2

(* Calls differ in nothing but their identity and whether they carry tags.    *)
Symmetric == Permutations(Calls \ Tagged)

Creations == [kind: {"create"}, sensitive: BOOLEAN, multi: BOOLEAN]
Updates(c) == [kind: {"update"}, row: {c}, sensitive: BOOLEAN \cup {None}, valued: BOOLEAN]
Reads(c) == [kind: {"get", "list"}, row: {c}]
Removals(c) == [kind: {"delete"}, row: {c}]

(* A property and what may be done to it, by three in turn or at once.        *)
OneRow ==
  [asks |-> (c1 :> {a \in Creations : ~a.multi}) @@ (c2 :> Updates(c1))
            @@ (r1 :> Updates(c1) \cup Removals(c1)) @@ (r2 :> Reads(c1)),
   faults |-> 1, crashes |-> 1]

(* Creations of the same key, and a reader.                                   *)
ManyRows ==
  [asks |-> (c1 :> Creations) @@ (c2 :> Creations) @@ (r1 :> Removals(c1))
            @@ (r2 :> Reads(c2) \cup {a \in Creations : ~a.multi}),
   faults |-> 1, crashes |-> 1]

SomePlans == {OneRow, ManyRows}

VARIABLE part   \* the one that is not at rest

ArtifactsInit ==
  /\ UploadInit /\ Init
  /\ \/ part = "artifact" /\ plan = OneRow
     \/ part = "properties" /\ ~encrypting

ArtifactsNext ==
  \/ part = "artifact" /\ UploadNext /\ UNCHANGED <<vars, part>>
  \/ part = "properties" /\ Next /\ UNCHANGED <<uploadVars, part>>

ArtifactsSpec == ArtifactsInit /\ [][ArtifactsNext]_<<uploadVars, vars, part>>
=============================================================================
