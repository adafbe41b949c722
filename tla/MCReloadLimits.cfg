SPECIFICATION ReloadSpec
CONSTANTS
  BLOCK = 3
  MAX_SID = 2
  MIN_NONCE = 1
  MAX_NONCE = 4
  MAX_PAYLOAD = 5
  Bit = {0, 1}
  PassBits <- MCPassBits
  Key <- MCKey
  Aes <- MCAes
  Files <- MCFiles
  Backend <- MCBackend
  Nonce <- MCNonce
  Low = {0, 31}
  Slot = {"c0", "retry"}
  KeyedFiles <- SomeFiles
  TICKS_PER_SEC = 2
  MAX_TIME = 9
INVARIANT
  LoadedConfigsDecode
