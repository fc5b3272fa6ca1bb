SPECIFICATION FairSpec
CONSTANTS
  Connection = {k1, k2}
  Splint = {s1}
  LastIncarnation = 2
  Incarnation <- MCIncarnation
  Grant = {}
  LairGrant = {}
  NoGrant = NoGrant
  MaxId = 2
  PersistMayFail = FALSE
CHECK_DEADLOCK FALSE
PROPERTIES ExitIsRecorded KillCompletes TransfersResolve
