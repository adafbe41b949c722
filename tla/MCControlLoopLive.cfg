CONSTANTS
  b1 = b1
  b2 = b2
  Addr = {b1, b2}
  ConfigId = {0, 1}
  Worker = {w1}
  NoBatch = NoBatch
  FAILURE_THRESHOLD = 1
  PROBE_INTERVAL = 1
  BACKOFF_SCHEDULE <- ShortBackoff
  TRANSITIONS_MOD = 2
  BootFiles <- BootB1
  ReloadFiles <- ReplaceReloads
SPECIFICATION FairSpec
PROPERTIES
  ProbedForever
  ReachableJoinsPool
  DrainIsAnnounced
