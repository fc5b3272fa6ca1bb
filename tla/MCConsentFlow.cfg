SPECIFICATION Spec
CONSTANTS
  p1 = p1
  p2 = p2
  l1 = l1
  Process = {p1, p2}
  Lair = {l1}
  Call = {c1}
  Identity <- MCIdentity
  Scopes <- MCScopes
  Asking <- MCAsking
  MaxRequests = 2
  MaxPending = 2
  MaxDenials = 1
  MaxUpsets = 2
CHECK_DEADLOCK FALSE
INVARIANTS EndsAreFinal StoreKeepsItsWord QueueHasPrompter
PROPERTIES FenceHolds RevokedStaysRevoked
