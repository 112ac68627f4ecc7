SPECIFICATION FairSpec
CONSTANTS
  Requests = {q1}
  Responses = {r1, r2}
  Gathers = {}
  From0 = {q1}
  From1 = {r1, r2}
  Long = {q1}
  LNG <- MCLNG
  Sends <- MCSends
  MAX_LINK_BUF = 2
  MAX_RETRY_BUF = 8
  MaxSEQ = 2
  NUM_OF_IRTRY = 1
  RETRY_ATTEMPT_LIMIT = 2
  CRC_CHECK = FALSE
  NoisyLinks = {}
  MaxNoise = 0
  NULL = NULL
INVARIANTS TypeOK TokensConserved
PROPERTIES IsChannel PacketsArrive
CHECK_DEADLOCK FALSE
