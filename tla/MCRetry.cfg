SPECIFICATION FairSpec
CONSTANTS
  Worker = {w1, w2}
  Ip = {i1, i2}
  HOME = i1
  RetryConfig <- Sections
  PORT = 443
  CHECKS_SCID = FALSE
  MAX_TIME = 2
  MAX_ATTEMPTS = 4
  MAX_FLIGHT = 2
  MAX_RELOADS = 1
  MAX_MOVES = 1
CHECK_DEADLOCK FALSE
INVARIANT HonestTokenAccepted
INVARIANT ValidatedOwnsAddress
PROPERTY GetsThrough
