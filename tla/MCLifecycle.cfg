CONSTANTS
  Port = {p1, p2}
  NQUEUES = 2
  InitialStores <- AnyStore
  SYSTEMD = TRUE
  SLOW_RELEASE = TRUE
  FAULTS = TRUE
  MAX_STARTS = 3
SPECIFICATION FairSpec
INVARIANTS
  LinkPinIsWhole
  PortsAreAsStarted
  RunningIsReachable
  ShutdownIsCompleteOrKept
PROPERTIES
  BrokenDaemonEnds
CHECK_DEADLOCK FALSE
