---------------------------- MODULE WebSocketHub ----------------------------
(***************************************************************************)
(* WebSocketHub (internal/api/websocket_handler.go): one goroutine keeps    *)
(* the set of clients and passes every broadcast on to all of them; each    *)
(* client is served by goroutines of its own, which take what the hub put   *)
(* into the client's channel.                                               *)
(*                                                                          *)
(* A WebSocket client (Sockets) has a read pump and a write pump around one *)
(* connection; an event stream (Streams) has the handler's goroutine only.  *)
(* Broadcasts are numbered in the order in which they enter the hub's       *)
(* channel; 0 is the pong that a read pump sends its own client.  The       *)
(* unbuffered channels register and unregister are rendezvous: one step of  *)
(* the hub and of the goroutine that waits there.                           *)
(***************************************************************************)
EXTENDS Naturals, Sequences

CONSTANTS
  Sockets, Streams,
  BroadcastCap, SendCap, EventCap,  \* make(chan []byte, ...): 256, 256 and 10
  MaxMessages,   \* bound: broadcasts
  MaxPings       \* bound: pings that clients send

ASSUME HubAssumption ==
  /\ Sockets \cap Streams = {}
  /\ {BroadcastCap, SendCap, EventCap} \subseteq Nat \ {0}
  /\ {MaxMessages, MaxPings} \subseteq Nat

VARIABLES
  process,    \* "up", or whose run-time panic ended the process
  clients,    \* Hub.clients
  broadcast,  \* Hub.broadcast
  current,    \* the message the hub passes on, 0 while it is in its select
  todo,       \* the clients its loop over Hub.clients has yet to visit
  open,       \* [Clients -> whether Client.send is open]
  buf,        \* [Clients -> what Client.send holds]
  reader,     \* [Clients -> stage of readPump, or of handleSSE]
  writer,     \* [Clients -> stage of writePump]
  held,       \* [Clients -> the broadcasts of the message writePump is writing]
  more,       \* [Clients -> how many more from Client.send writePump will add]
  conn,       \* [Clients -> whether this end of the connection is open]
  peer,       \* [Clients -> whether the other end is there]
  delivered,  \* history: [Clients -> the broadcasts written to the peer]
  joined,     \* history: [Clients -> the broadcasts the hub took before it joined]
  published, pings

chans == <<broadcast, open, buf>>
ends  == <<reader, writer, held, more, conn>>
hubHist  == <<delivered, joined, published, pings>>
hubVars  == <<process, clients, broadcast, current, todo, open, buf, reader,
           writer, held, more, conn, peer, delivered, joined, published, pings>>

Clients == Sockets \cup Streams
Cap(c)  == IF c \in Streams THEN EventCap ELSE SendCap

\* How many broadcasts the hub has taken from its channel.
Taken == published - Len(broadcast)

ReaderStages == {"out", "register", "read", "pong", "unregister", "end"}
WriterStages == {"off", "wait", "open", "write", "end"}

HubTypeOK ==
  /\ process \in {"up", "hub panicked", "pump panicked"}
  /\ clients \in SUBSET Clients /\ todo \in SUBSET Clients
  /\ published \in Nat /\ pings \in Nat
  /\ current \in Nat /\ (current = 0 <=> todo = {})
  /\ broadcast \in Seq(Nat) /\ Len(broadcast) <= BroadcastCap
  /\ open \in [Clients -> BOOLEAN]
  /\ buf \in [Clients -> Seq(Nat)] /\ \A c \in Clients : Len(buf[c]) <= Cap(c)
  /\ reader \in [Clients -> ReaderStages] /\ writer \in [Clients -> WriterStages]
  /\ held \in [Clients -> Seq(Nat)] /\ more \in [Clients -> Nat]
  /\ conn \in [Clients -> BOOLEAN] /\ peer \in [Clients -> BOOLEAN]
  /\ delivered \in [Clients -> Seq(Nat)] /\ joined \in [Clients -> Nat]

HubInit ==
  /\ process = "up"
  /\ clients = {} /\ todo = {} /\ current = 0
  /\ broadcast = <<>> /\ published = 0 /\ pings = 0
  /\ open = [c \in Clients |-> TRUE]
  /\ buf = [c \in Clients |-> <<>>]
  /\ reader = [c \in Clients |-> "out"]
  /\ writer = [c \in Clients |-> "off"]
  /\ held = [c \in Clients |-> <<>>] /\ more = [c \in Clients |-> 0]
  /\ conn = [c \in Clients |-> TRUE]
  /\ peer = [c \in Clients |-> TRUE]
  /\ delivered = [c \in Clients |-> <<>>]
  /\ joined = [c \in Clients |-> 0]

-----------------------------------------------------------------------------
(* The hub: Run.                                                            *)

Selecting == process = "up" /\ current = 0

\* The rendezvous on register; the handler then starts its pumps.
HubRegister(c) ==
  /\ Selecting /\ reader[c] = "register"
  /\ clients' = clients \cup {c}
  /\ joined' = [joined EXCEPT ![c] = Taken]
  /\ reader' = [reader EXCEPT ![c] = "read"]
  /\ writer' = [writer EXCEPT ![c] = IF c \in Sockets THEN "wait" ELSE "off"]
  /\ UNCHANGED <<process, broadcast, current, todo, open, buf, held, more,
                 conn, peer, delivered, published, pings>>

\* close(client.send): a run-time panic when it is closed already.
CloseSend(c) ==
  IF open[c]
  THEN open' = [open EXCEPT ![c] = FALSE] /\ UNCHANGED process
  ELSE process' = "hub panicked" /\ UNCHANGED open

\* What follows the rendezvous on unregister in the goroutine of client c.
Unregistered(c) ==
  /\ reader[c] = "unregister"
  /\ reader' = [reader EXCEPT ![c] = "end"]
  /\ conn' = [conn EXCEPT ![c] = FALSE]

\* Mutant: the hub does not look whether the client is still registered.
HubUnregisterAlways(c) ==
  /\ Selecting /\ Unregistered(c)
  /\ CloseSend(c) /\ clients' = clients \ {c}
  /\ UNCHANGED <<broadcast, current, todo, buf, writer, held, more, peer, hubHist>>

HubUnregister(c) ==
  /\ Selecting /\ Unregistered(c)
  /\ IF c \in clients
     THEN CloseSend(c) /\ clients' = clients \ {c}
     ELSE UNCHANGED <<process, open, clients>>
  /\ UNCHANGED <<broadcast, current, todo, buf, writer, held, more, peer, hubHist>>

\* The hub takes a broadcast and starts its loop over the clients.
HubTake ==
  /\ Selecting /\ broadcast # <<>>
  /\ broadcast' = Tail(broadcast)
  /\ current' = IF clients = {} THEN 0 ELSE Head(broadcast)
  /\ todo' = clients
  /\ UNCHANGED <<process, clients, open, buf, ends, peer, hubHist>>

\* The loop goes on to the next client, and back to the select after the last.
Visited(c) ==
  /\ process = "up" /\ current # 0 /\ c \in todo
  /\ todo' = todo \ {c}
  /\ current' = IF todo = {c} THEN 0 ELSE current

Room(c) == Len(buf[c]) < Cap(c)

\* Mutant: the send has no default, so the hub waits for a slow client.
HubSendBlocking(c) ==
  /\ Visited(c) /\ Room(c)
  /\ buf' = [buf EXCEPT ![c] = Append(@, current)]
  /\ UNCHANGED <<process, open, clients, broadcast, ends, peer, hubHist>>

\* Mutant: a slow client misses the message and stays registered.
HubSendSkipping(c) ==
  /\ Visited(c)
  /\ IF Room(c) THEN buf' = [buf EXCEPT ![c] = Append(@, current)]
                ELSE UNCHANGED buf
  /\ UNCHANGED <<process, open, clients, broadcast, ends, peer, hubHist>>

\* select { case client.send <- message: default: close, delete }
HubSend(c) ==
  /\ Visited(c)
  /\ \/ /\ ~open[c] /\ process' = "hub panicked"
        /\ UNCHANGED <<open, buf, clients>>
     \/ /\ open[c] /\ Room(c)
        /\ buf' = [buf EXCEPT ![c] = Append(@, current)]
        /\ UNCHANGED <<process, open, clients>>
     \/ /\ open[c] /\ ~Room(c)
        /\ CloseSend(c) /\ clients' = clients \ {c}
        /\ UNCHANGED buf
  /\ UNCHANGED <<broadcast, ends, peer, hubHist>>

\* Broadcast: a caller waits while the hub's channel is full.
Publish ==
  /\ process = "up" /\ published < MaxMessages
  /\ Len(broadcast) < BroadcastCap
  /\ broadcast' = Append(broadcast, published + 1)
  /\ published' = published + 1
  /\ UNCHANGED <<process, clients, current, todo, open, buf, ends, peer,
                 delivered, joined, pings>>

-----------------------------------------------------------------------------
(* The handlers and the read pump.                                          *)

\* The step of client c's reading goroutine, which leaves the hub alone.
ReaderGoes(c, from, to) ==
  /\ process = "up" /\ reader[c] = from
  /\ reader' = [reader EXCEPT ![c] = to]
  /\ UNCHANGED <<clients, broadcast, current, todo, open, writer, held, more,
                 conn, peer, delivered, joined, published>>

\* handleWebSocket and handleSSE, up to the send on register.
Connect(c) ==
  /\ ReaderGoes(c, "out", "register")
  /\ UNCHANGED <<process, buf, pings>>

\* readPump reads a ping that the client has sent.
ReadPing(c) ==
  /\ ReaderGoes(c, "read", "pong")
  /\ c \in Sockets /\ conn[c] /\ peer[c] /\ pings < MaxPings
  /\ pings' = pings + 1
  /\ UNCHANGED <<process, buf>>

\* c.send <- pongJSON: waits for room; the hub may have closed the channel.
Pong(c) ==
  /\ ReaderGoes(c, "pong", "read")
  /\ IF open[c]
     THEN /\ Room(c) /\ buf' = [buf EXCEPT ![c] = Append(@, 0)]
          /\ UNCHANGED process
     ELSE /\ process' = "pump panicked" /\ UNCHANGED buf
  /\ UNCHANGED pings

\* ReadMessage fails: the client left or stayed silent for the deadline, or
\* the write pump closed the connection.  For an event stream, the request's
\* context is done.
ReadFails(c) ==
  /\ ReaderGoes(c, "read", "unregister")
  /\ ~conn[c] \/ ~peer[c]
  /\ UNCHANGED <<process, buf, pings>>

\* The client goes away, without a word to this end.
PeerLeaves(c) ==
  /\ process = "up" /\ peer[c] /\ reader[c] # "out"
  /\ peer' = [peer EXCEPT ![c] = FALSE]
  /\ UNCHANGED <<process, clients, chans, current, todo, ends, hubHist>>

\* handleSSE passes an event on.  A closed channel yields empty events for as
\* long as the request lasts, which changes nothing here.
StreamEvent(c) ==
  /\ process = "up" /\ c \in Streams /\ reader[c] = "read" /\ buf[c] # <<>>
  /\ buf' = [buf EXCEPT ![c] = Tail(@)]
  /\ delivered' = [delivered EXCEPT
                     ![c] = IF peer[c] THEN Append(@, Head(buf[c])) ELSE @]
  /\ UNCHANGED <<process, clients, broadcast, current, todo, open, ends, peer,
                 joined, published, pings>>

-----------------------------------------------------------------------------
(* The write pump.                                                          *)

WriterAt(c, stage) == process = "up" /\ writer[c] = stage

HubIdle == UNCHANGED <<process, clients, broadcast, current, todo, open,
                       reader, peer, joined, published, pings>>

\* The pump returns: its deferred call closes the connection.
WriterReturns(c) ==
  /\ writer' = [writer EXCEPT ![c] = "end"]
  /\ held' = [held EXCEPT ![c] = <<>>] /\ more' = [more EXCEPT ![c] = 0]
  /\ conn' = [conn EXCEPT ![c] = FALSE]
  /\ UNCHANGED <<buf, delivered>>

\* A receive from c.send: a pong is written as well, and is no broadcast.
Receives(c) ==
  /\ buf[c] # <<>> /\ buf' = [buf EXCEPT ![c] = Tail(@)]
  /\ held' = IF Head(buf[c]) = 0 THEN held
             ELSE [held EXCEPT ![c] = Append(@, Head(buf[c]))]

\* message, ok := <-c.send
Take(c) ==
  /\ WriterAt(c, "wait") /\ Receives(c)
  /\ writer' = [writer EXCEPT ![c] = "open"]
  /\ UNCHANGED <<more, conn, delivered>>
  /\ HubIdle

\* The channel is closed and empty: a close message, and the pump returns.
TakeClosed(c) ==
  /\ WriterAt(c, "wait") /\ buf[c] = <<>> /\ ~open[c]
  /\ WriterReturns(c)
  /\ HubIdle

\* NextWriter, and n := len(c.send); the hub may go on sending.
OpenMessage(c) ==
  /\ WriterAt(c, "open")
  /\ more' = [more EXCEPT ![c] = Len(buf[c])]
  /\ writer' = [writer EXCEPT ![c] = "write"]
  /\ UNCHANGED <<buf, held, conn, delivered>>
  /\ HubIdle

\* w.Write(<-c.send), one of the n that follow the first.
AddQueued(c) ==
  /\ WriterAt(c, "write") /\ more[c] > 0 /\ Receives(c)
  /\ more' = [more EXCEPT ![c] = @ - 1]
  /\ UNCHANGED <<writer, conn, delivered>>
  /\ HubIdle

\* w.Close: what was written goes out as one message.
Write(c) ==
  /\ WriterAt(c, "write") /\ more[c] = 0 /\ conn[c] /\ peer[c]
  /\ delivered' = [delivered EXCEPT ![c] = @ \o held[c]]
  /\ held' = [held EXCEPT ![c] = <<>>]
  /\ writer' = [writer EXCEPT ![c] = "wait"]
  /\ UNCHANGED <<buf, more, conn>>
  /\ HubIdle

Unwritten(c) == WriterAt(c, "open") \/ (WriterAt(c, "write") /\ more[c] = 0)

\* Mutant: no write deadline, a write to a client that has gone never ends.
WriteFailsLocally(c) ==
  /\ Unwritten(c) /\ ~conn[c]
  /\ WriterReturns(c)
  /\ HubIdle

\* NextWriter fails, or Close does, after the others were taken.
WriteFails(c) ==
  /\ Unwritten(c) /\ (~conn[c] \/ ~peer[c])
  /\ WriterReturns(c)
  /\ HubIdle

\* The ticker's ping cannot be written.
PingFails(c) ==
  /\ WriterAt(c, "wait") /\ (~conn[c] \/ ~peer[c])
  /\ WriterReturns(c)
  /\ HubIdle

-----------------------------------------------------------------------------
HubStep(c) == HubRegister(c) \/ HubUnregister(c) \/ HubSend(c)

ClientStep(c) == \/ Pong(c) \/ ReadFails(c) \/ StreamEvent(c) \/ Take(c)
                 \/ TakeClosed(c) \/ OpenMessage(c) \/ AddQueued(c) \/ Write(c)
                 \/ WriteFails(c) \/ PingFails(c)

HubNext ==
  \/ HubTake \/ Publish
  \/ \E c \in Clients : \/ HubStep(c) \/ ClientStep(c)
                        \/ Connect(c) \/ ReadPing(c) \/ PeerLeaves(c)

HubSpec == HubInit /\ [][HubNext]_hubVars

\* Goroutines that can run do.  A select with several cases ready chooses one
\* at random; the others stay ready, and are taken when the choice runs out,
\* which the bounds on connections and broadcasts make certain.  Nobody has to
\* connect, ping, publish or leave.
Fairness ==
  /\ WF_hubVars(HubTake)
  /\ \A c \in Clients : /\ WF_hubVars(HubRegister(c)) /\ WF_hubVars(HubUnregister(c))
                        /\ WF_hubVars(HubSend(c)) /\ WF_hubVars(ClientStep(c))

FairHubSpec == HubSpec /\ Fairness

-----------------------------------------------------------------------------
(* Properties.                                                              *)

\* The hub's channel to a client is open exactly from the time the client
\* connects until the hub forgets it: a registered client can be sent to, and
\* the channel of a forgotten one is closed, which is what ends its pumps.
OpenWhileRegistered ==
  \A c \in Clients :
    /\ c \in clients => open[c] /\ reader[c] \notin {"out", "register"}
    /\ open[c] /\ reader[c] \notin {"out", "register"} => c \in clients

\* The hub never panics: a client's channel is closed by a send that finds it
\* full or by the client's departure, and whichever comes second, even for a
\* client that has already been dropped, neither sends on it nor closes it.
HubNeverPanics == process # "hub panicked"

\* What a client was written is the feed from the time it joined, in order and
\* without a gap, whatever was dropped, closed or lost on the way.
seats == [c \in Clients |-> IF c \in clients THEN "in"
                            ELSE IF reader[c] \in {"out", "register"} THEN "out"
                            ELSE "gone"]
Feed == INSTANCE AtomicFeed
          WITH log <- Taken, from <- joined, got <- delivered, seat <- seats
FeedIsOrdered == Feed!Spec

\* A client that cannot keep up never holds up the others: the hub takes every
\* broadcast, however many clients have stopped reading.
BroadcastsAreTaken ==
  \A m \in 1 .. MaxMessages :
    published >= m ~> (Taken >= m \/ process # "up")

\* A read pump that answers a ping comes back to its reading, also when the
\* channel is full: the write pump empties it, the hub closes it, or the pump
\* panics on the closed channel, unless the write pump has returned before.
PongEnds ==
  \A c \in Sockets :
    reader[c] = "pong" ~> (reader[c] # "pong" \/ writer[c] = "end" \/ process # "up")
=============================================================================
