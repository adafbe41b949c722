SPECIFICATION FairSpec
CONSTANTS
  Worker = {w1}
  Ip = {i1}
  HOME = i1
  RetryConfig <- Sections
  PORT = 443
  CHECKS_SCID = TRUE
  MAX_TIME = 0
  MAX_ATTEMPTS = 2
  MAX_FLIGHT = 1
  MAX_RELOADS = 0
  MAX_MOVES = 0
CHECK_DEADLOCK FALSE
PROPERTY GetsThrough
