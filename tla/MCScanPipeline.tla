--------------------------- MODULE MCScanPipeline ---------------------------
(* Instances of ScanPipeline for TLC. *)
EXTENDS ScanPipeline

Says(key, severity) == [key |-> key, severity |-> severity]

(* Two scanners may rate c1 differently, and one may name it twice. *)
AllAnswers ==
  {<<>>, <<Says("c1", "CRITICAL")>>,
   <<Says("c2", "HIGH"), Says("c1", "LOW"), Says("c1", "CRITICAL")>>}

Ask(given, registered, failFast, retries, skipUnavailable, expires) ==
  [given |-> given, named |-> TRUE, workflow |-> Scanners, typed |-> {},
   registered |-> registered, failFast |-> failFast, retries |-> retries,
   skipUnavailable |-> skipUnavailable, expires |-> expires]

ForType(suitable) ==
  [Ask({}, Scanners, FALSE, 2, FALSE, FALSE) EXCEPT !.named = FALSE, !.typed = suitable]

(* What ScanWithAll asks, with no, some or all scanners of the workflow      *)
(* registered; then retries, an early end, and unavailable scanners skipped; *)
(* and scanners that are chosen for the type of the file.                    *)
AllRequests ==
  LET Two == Scanners \ {CHOOSE s \in Scanners : TRUE} IN
  {Ask({}, {}, FALSE, 0, FALSE, TRUE), Ask({}, Scanners, FALSE, 0, FALSE, TRUE),
   Ask({}, Two, FALSE, 3, FALSE, TRUE), Ask(Scanners, {}, TRUE, 2, FALSE, FALSE),
   Ask(Two, {}, FALSE, 2, TRUE, TRUE), ForType(Two)}
=============================================================================
