SPECIFICATION UserFairSpec
CHECK_DEADLOCK FALSE
CONSTANTS
  Turns = {t1, t2}
  Lanes = {l1, l2}
  Conversations = {"chat", "room", "job"}
  Requests <- MixedRequests
  Capacity <- OneSlotEach
  NoTurn = NoTurn
  NoLane = NoLane
PROPERTIES
  UserTurnsSettle
  ShutdownReturns
