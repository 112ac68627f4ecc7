SPECIFICATION Spec
CONSTANTS
  t1 = t1
  t2 = t2
  Threads = {t1, t2}
  Leader = t1
  NumTargets = 2
  NumPorts = 2
  PortOf <- MCPortOf
  Schemes = {"naive", "tid", "addr"}
  UpdateTypes = {"add"}
  RobSize = 2
  MaxUpdates = 1
  ReqBuf = 1
  Nobody = Nobody
INVARIANTS AssertsHold TypeOK RoundsApart GatherOnce
PROPERTIES SubflowsAreReductions
