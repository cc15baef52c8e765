SPECIFICATION Spec
CHECK_DEADLOCK FALSE
CONSTANTS
  h1 = h1
  h2 = h2
  t1 = t1
  t2 = t2
  Sessions = {h1, h2}
  Turns = {t1, t2}
  MaxEpoch = 2
  MaxMeta = 2
  MaxCrashes = 1
SYMMETRY Interchangeable
INVARIANTS
  CrashKeepsKeyUsable
