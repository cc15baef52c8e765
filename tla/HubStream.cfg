SPECIFICATION Spec
CHECK_DEADLOCK FALSE
CONSTANTS
  d1 = d1
  d2 = d2
  k1 = k1
  x1 = x1
  x2 = x2
  b1 = b1
  Channels = {"tui"}
  Conversations = {"chat", "room"}
  Calls = {d1, d2, k1, x1}
  Call <- StreamCall
  Home <- OnTui
  Outlets = {"tui"}
  Streaming = {"tui"}
  Fatal = {x1}
  Barriers = {b1}
  BarrierOn <- BarrierTui
  QueueSize = 1
  MaxRetries = 1
  NoCall = NoCall
INVARIANTS
  TypeOK
  WorkCounted
  DeliveredInOrder
  OpenIsClosable
  BarrierCovers
  ClosedIsEmpty
