SPECIFICATION Spec
CHECK_DEADLOCK FALSE
CONSTANTS
  Turns = {t1, t2, t3}
  Lanes = {l1}
  Conversations = {"chat"}
  Requests <- ChatRequests
  Capacity <- OneSlotEach
  NoTurn = NoTurn
  NoLane = NoLane
PROPERTIES
  InterruptJumpsBacklog
