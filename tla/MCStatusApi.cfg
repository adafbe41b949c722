SPECIFICATION FairSpec
CONSTANTS
  NUM_WORKERS = 2
  c1 = c1
  c2 = c2
  MainLoop = MainLoop
  Conn <- Connections
  Reader <- Readers
  COUNTERS <- Counters
  Verdict <- Verdicts
  WRAP = 256
  MAX_PACKETS = 1
  MAX_CONCURRENT = 1
CHECK_DEADLOCK FALSE
INVARIANT NothingLost
INVARIANT DeltasAreTraffic
INVARIANT SlotsAreHandlers
PROPERTY ShutdownEnds
PROPERTY ConnectionsEnd
