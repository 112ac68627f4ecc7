SPECIFICATION FairSpec
CONSTANTS
  Requests = {q1, q2}
  Responses = {}
  Gathers = {q2}
  From0 = {q1, q2}
  From1 = {}
  Long = {}
  LNG <- MCLNG
  Sends <- MCSends
  MAX_LINK_BUF = 2
  MAX_RETRY_BUF = 3
  MaxSEQ = 2
  NUM_OF_IRTRY = 1
  RETRY_ATTEMPT_LIMIT = 2
  CRC_CHECK = TRUE
  NoisyLinks = {0}
  MaxNoise = 2
  NULL = NULL
INVARIANTS NoExit InStep
PROPERTIES IsChannel PacketsArrive
