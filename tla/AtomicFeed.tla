----------------------------- MODULE AtomicFeed -----------------------------
(***************************************************************************)
(* What the hub of internal/api/websocket_handler.go promises the clients   *)
(* of the update feed: a client that joins receives the messages published  *)
(* from then on, in their order and without a gap, up to some point; it may *)
(* leave, or be dropped, at any time, and never comes back.                 *)
(***************************************************************************)
EXTENDS Naturals, Sequences

CONSTANT Clients

VARIABLES
  log,    \* how many messages were published: message i is the i-th
  seat,   \* [Clients -> "out" before the client joins, "in", or "gone"]
  from,   \* [Clients -> the length of the log when the client joined]
  got     \* [Clients -> the messages the client has received]

fvars == <<log, seat, from, got>>

Init ==
  /\ log = 0
  /\ seat = [c \in Clients |-> "out"]
  /\ from = [c \in Clients |-> 0]
  /\ got = [c \in Clients |-> <<>>]

Publish ==
  /\ log' = log + 1
  /\ UNCHANGED <<seat, from, got>>

Join(c) ==
  /\ seat[c] = "out"
  /\ seat' = [seat EXCEPT ![c] = "in"]
  /\ from' = [from EXCEPT ![c] = log]
  /\ UNCHANGED <<log, got>>

\* The messages after the first n of client c's part of the log.
After(c, n) == [i \in 1 .. log - from[c] - n |-> from[c] + n + i]

Receive(c) ==
  /\ seat[c] # "out"
  /\ \E k \in 1 .. log - from[c] - Len(got[c]) :
        got' = [got EXCEPT ![c] = @ \o SubSeq(After(c, Len(@)), 1, k)]
  /\ UNCHANGED <<log, seat, from>>

Leave(c) ==
  /\ seat[c] = "in"
  /\ seat' = [seat EXCEPT ![c] = "gone"]
  /\ UNCHANGED <<log, from, got>>

Next == Publish \/ \E c \in Clients : Join(c) \/ Receive(c) \/ Leave(c)

Spec == Init /\ [][Next]_fvars
=============================================================================
