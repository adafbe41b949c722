SPECIFICATION PartsSpec
CONSTANTS
  Frame = {f1, f2, f3}
  RING_SIZE = 3
  TX_SIZE = 1
  BATCH_SIZE = 2
  Entry = {f1, f2}
  SIZE = 2
  WRAP = 4
  MAX_BATCH = 3
  BLOCK = 3
  MAX_SID = 2
  MIN_NONCE = 1
  MAX_NONCE = 4
  MAX_PAYLOAD = 5
  Bit = {0, 1}
  PassBits <- MCPassBits
  Key <- MCKey
  Aes <- MCAes
  Files <- MCFiles
  Backend <- MCBackend
  Nonce <- MCNonce
  Low = {0, 31}
  Slot = {"c0", "retry"}
  KeyedFiles <- SomeFiles
  TICKS_PER_SEC = 2
  MAX_TIME = 9
INVARIANTS
  FramesConserved
  CidReachesItsServer
  WhoamiAgrees
  WarnsOnlyOldKeys
  OneWarningPerKey
PROPERTIES
  RingIsFifo
  FramesReturn
  OverdueIsReported
CHECK_DEADLOCK FALSE
