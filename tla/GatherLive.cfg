SPECIFICATION FairSpec
CONSTANTS
  t1 = t1
  t2 = t2
  Threads = {t1, t2}
  Leader = t1
  NumTargets = 1
  NumPorts = 2
  PortOf <- MCPortShared
  Schemes = {"naive", "tid", "addr"}
  UpdateTypes = {"add", "mult"}
  RobSize = 3
  MaxUpdates = 1
  ReqBuf = 1
  Nobody = Nobody
PROPERTIES AnswerComplete GatherReturns
