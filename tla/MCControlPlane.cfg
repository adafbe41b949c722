CONSTANTS
  b1 = b1
  b2 = b2
  Addr = {b1, b2}
  ConfigId = {0, 1}
  Worker = {}
  NoBatch = NoBatch
  FAILURE_THRESHOLD = 3
  PROBE_INTERVAL = 1
  BACKOFF_SCHEDULE <- Backoff
  TRANSITIONS_MOD = 4
  BootFiles <- Boot
  ReloadFiles <- Reloads
  Iface = {1, 2}
  PID_MAX = 2
  Inode = {1, 2, 3}
  Starts <- SomeStarts
  MAX_EXECS = 3
SPECIFICATION PlaneSpec
INVARIANTS
  PoolMatchesSlots
  AllOrNothing
  DownIsNotRouted
  TransitionsCountFlips
  OneDaemonUntilUnlinked
  SignalFindsItsDaemon
PROPERTIES
  NamedKeepsPidfile
