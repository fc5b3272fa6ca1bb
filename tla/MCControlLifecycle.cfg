SPECIFICATION Spec
CONSTANTS
  Connection = {k1, k2}
  Splint = {s1}
  LastIncarnation = 1
  Incarnation <- MCIncarnation
  Grant = {g1, h1}
  LairGrant = {h1}
  NoGrant = NoGrant
  MaxId = 3
  PersistMayFail = FALSE
SYMMETRY Symmetry
CHECK_DEADLOCK FALSE
INVARIANTS ControlNeedsConnection EndedGrantLeavesNothing
