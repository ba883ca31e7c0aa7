----------------------------- MODULE AtomicBlob -----------------------------
(***************************************************************************)
(* What the blob store promises for one artifact: its value is put and     *)
(* removed in single steps although it is spread over many files, and a    *)
(* get returns the value of the latest put or an error, never a mixture    *)
(* and never an older value.                                                *)
(***************************************************************************)
CONSTANTS Threads, Values, None

VARIABLES
  value,    \* the artifact, or None
  answer    \* [Threads -> what the thread's current request has returned]

avars == <<value, answer>>

AInit == value = None /\ answer = [t \in Threads |-> "none"]

Put(t, v) ==
  /\ answer[t] = "none"
  /\ value' = v
  /\ answer' = [answer EXCEPT ![t] = "ok"]

\* A delete ("ok"), or an upload that fails and takes the artifact with it.
Take(t) ==
  /\ answer[t] = "none"
  /\ value' = None
  /\ \E a \in {"ok", "error"} : answer' = [answer EXCEPT ![t] = a]

Get(t) ==
  /\ answer[t] = "none"
  /\ answer' = [answer EXCEPT ![t] = value]
  /\ UNCHANGED value

\* Any request may fail and change nothing; a scan answers in its own words.
Reply(t) ==
  /\ answer[t] = "none"
  /\ \E a \in {"error", "valid", "invalid"} : answer' = [answer EXCEPT ![t] = a]
  /\ UNCHANGED value

Call(t) ==
  /\ answer' = [answer EXCEPT ![t] = "none"]
  /\ UNCHANGED value

\* A write that fails or a crash inside it may lose the artifact.
Damage ==
  /\ value' = None
  /\ UNCHANGED answer

Restart ==
  /\ value' \in {value, None}
  /\ answer' = [t \in Threads |-> "none"]

ANext ==
  \/ \E t \in Threads : Take(t) \/ Get(t) \/ Reply(t) \/ Call(t)
                        \/ \E v \in Values : Put(t, v)
  \/ Damage \/ Restart

ASpec == AInit /\ [][ANext]_avars
=============================================================================
