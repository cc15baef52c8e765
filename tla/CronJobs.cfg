SPECIFICATION FairSpec
CHECK_DEADLOCK FALSE
CONSTANTS
  gateway = gateway
  tui = tui
  cli = cli
  g1 = g1
  g2 = g2
  t1 = t1
  c1 = c1
  daily = daily
  again = again
  Processes = {gateway, tui, cli}
  Tasks = {g1, g2, t1, c1}
  Pid <- TaskPids
  Jobs = {daily, again}
  Hosts = {gateway, tui}
  Mortal = {tui}
  Allowed <- AllowedJobs
  Topics = {"pills"}
  DeleteAfterRun = {again}
  Asked <- Schedules
  Stored <- StoredJobs
  Interval = 2
  TTL = 1
  Window = 0
  MaxClock = 4
  MaxCalls = 2
  Nobody = Nobody
  NoTopic = NoTopic
  Missing = Missing
INVARIANTS
  TypeOK
  ExclusiveClaims
  ClaimsAreHeld
  SettledStaysSettled
PROPERTIES
  DueIsServed
