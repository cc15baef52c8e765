SPECIFICATION FairSpec
CHECK_DEADLOCK FALSE
CONSTANTS
  d1 = d1
  d2 = d2
  k1 = k1
  x1 = x1
  x2 = x2
  b1 = b1
  Channels = {"tui", "smtp"}
  Conversations = {"chat", "room", "mail"}
  Calls = {d1, k1, x1, x2}
  Call <- CrossCall
  Home <- CrossHome
  Outlets = {"tui", "smtp"}
  Streaming = {"tui"}
  Fatal = {}
  Barriers = {b1}
  BarrierOn <- BarrierTui
  QueueSize = 1
  MaxRetries = 0
  NoCall = NoCall
PROPERTIES
  BarrierReturns
  BlockedCallReturns
  CloseReturns
