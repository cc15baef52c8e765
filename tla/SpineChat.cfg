SPECIFICATION Spec
SYMMETRY Symmetry
CHECK_DEADLOCK FALSE
CONSTANTS
  Turns = {t1, t2, t3}
  Lanes = {l1, l2}
  Conversations = {"chat", "room"}
  Requests <- CrossRequests
  Capacity <- OneSlotEach
  NoTurn = NoTurn
  NoLane = NoLane
INVARIANTS
  TypeOK
  SlotsConserved
  AcceptedIsKept
  SoleResolver
  OneTurnPerConversation
  LifecycleAgrees
  ClosedIsQuiet
  KeepingInv
PROPERTIES
  LedgerSpec
