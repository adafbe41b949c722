CONSTANTS
  b1 = b1
  b2 = b2
  Addr = {b1}
  ConfigId = {0}
  Worker = {}
  NoBatch = NoBatch
  FAILURE_THRESHOLD = 3
  PROBE_INTERVAL = 1
  BACKOFF_SCHEDULE <- Backoff
  TRANSITIONS_MOD = 2
  BootFiles <- BootB1
  ReloadFiles <- DrainReloads
SPECIFICATION Spec
INVARIANTS
  RestoredByNextProbe
