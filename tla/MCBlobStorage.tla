--------------------------- MODULE MCBlobStorage ---------------------------
(* Instances of BlobStorage for TLC. *)
EXTENDS BlobStorage

CONSTANTS t1, t2, t3, v1, v2
=============================================================================
