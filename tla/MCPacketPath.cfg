SPECIFICATION PathSpec
CONSTANTS
  a = a
  b = b
  w1 = w1
  f1 = f1
  f2 = f2
  none = none
  Addr = {a, b}
  ConfigId = {0, 1}
  Worker = {w1}
  Flow = {f1, f2}
  NoServer = none
  Packet <- SomePackets
  Tables <- SomeTables
  PAYLOAD <- Payloads
  Queue <- OneQueue
  Hash <- Hashes
  ENTRY_TTL = 3
  SWEEP_INTERVAL = 2
  MAX_LAG = 1
  PORTS = {2}
  Caller = {c1, c2}
  MAX_SECOND = 3
  MAX_TALLY = 1
  MAX_RECORDED = 2
  Frames <- SomeFrames
INVARIANT FlowPinned
INVARIANT DownIsAbandoned
INVARIANT RebindReachesSameBackend
INVARIANT LingersLessThanAnInterval
INVARIANT FilterMatchesParser
INVARIANT OnlyCutEchoesPanic
INVARIANT CountsConserved
INVARIANT RateIsExact
CHECK_DEADLOCK FALSE
