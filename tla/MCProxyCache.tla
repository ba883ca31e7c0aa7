----------------------------- MODULE MCProxyCache -----------------------------
(* An instance of ProxyCache for TLC. *)
EXTENDS ProxyCache, TLC

CONSTANTS index, archive, r1, r2

Nested  == {<<index, archive>>}
\* The second version is the shortest, the third too long for Redis.
Lengths == <<2, 1, 3>>

Plan(g, d, fl, fa, c) ==
  [gets |-> g, deletes |-> d, flushes |-> fl, faults |-> fa, crashes |-> c]

\* Three requests, a deletion and one failure; the same and a crash; a flush.
DeletionAndCrash ==
  {Plan(3, 1, 0, 1, 0), Plan(3, 1, 0, 0, 1), Plan(1, 0, 1, 0, 0)}

Interchangeable == Permutations(Requests)
=============================================================================
