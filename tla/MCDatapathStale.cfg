SPECIFICATION Spec
CONSTANTS
  a = a
  b = b
  w1 = w1
  f1 = f1
  f2 = f2
  none = none
  Addr = {a, b}
  ConfigId = {0, 1}
  Worker = {w1}
  Flow = {f1, f2}
  NoServer = none
  Packet <- AllPackets
  Tables <- FewTables
  PAYLOAD <- Payloads
  Queue <- OneQueue
  Hash <- Hashes
  ENTRY_TTL = 2
  SWEEP_INTERVAL = 2
  MAX_LAG = 1
INVARIANT UnroutableFallsBack
