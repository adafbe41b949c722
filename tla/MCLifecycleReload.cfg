CONSTANTS
  Port = {p1, p2}
  NQUEUES = 1
  InitialStores <- AnyStore
  SYSTEMD = TRUE
  SLOW_RELEASE = TRUE
  FAULTS = FALSE
  MAX_STARTS = 1
SPECIFICATION Spec
INVARIANTS
  PortsFollowReload
CHECK_DEADLOCK FALSE
