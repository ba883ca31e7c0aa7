SPECIFICATION FairHubSpec
CONSTANTS
  w1 = w1  w2 = w2  e1 = e1
  Sockets = {w1}
  Streams = {e1}
  BroadcastCap = 1  SendCap = 1  EventCap = 1
  MaxMessages = 3  MaxPings = 1
CHECK_DEADLOCK FALSE
INVARIANTS HubNeverPanics
PROPERTIES FeedIsOrdered BroadcastsAreTaken PongEnds
