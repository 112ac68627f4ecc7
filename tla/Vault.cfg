SPECIFICATION FairSpec
CONSTANTS
  a = a
  d = d
  w = w
  x = x
  Requests = {a, d, w, x}
  CMD <- MCCMD
  Bank <- MCBank
  Row <- MCRow
  LNG <- MCLNG
  reqDataSize <- MCreqDataSize
  NUM_BANKS = 2
  MAX_VLT_BUF = 6
  MAX_CMD_QUE = 4
  USE_LOW_POWER = TRUE
  MaxOpen = 3
  NULL = NULL
INVARIANTS TypeOK NoResponseLost ReservationExact CommandLegal
PROPERTIES RefreshIssued Answered
