\* Two turns of the user and the result of a subagent, with two
\* turn.cancel calls at any time, with one subscriber.
SPECIFICATION FairSpec
CONSTANTS
  u1 = u1  u2 = u2  reply = reply
  NoTurn = NoTurn
  Turns = {u1, u2, reply}
  UserTurns = {u1, u2}
  Regretted = {u1}
  Subs = {a}
  QueueCapacity = 2
  MaxText = 2
  MaxCancels = 2
INVARIANTS TypeOK StreamIsWhole TextIsAttributable TerminalIsTrue ActiveIsReachable
PROPERTIES CancelFreesSlot
CHECK_DEADLOCK FALSE
