\* One turn, cancelled once, at any time.
SPECIFICATION Spec
CONSTANTS
  u1 = u1  u2 = u2  reply = reply
  NoTurn = NoTurn
  Turns = {u1}
  UserTurns = {u1}
  Regretted = {u1}
  Subs = {a}
  QueueCapacity = 2
  MaxText = 1
  MaxCancels = 1
INVARIANTS OneReport
CHECK_DEADLOCK FALSE
