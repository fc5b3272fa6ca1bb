SPECIFICATION Spec
CONSTANTS
  Connection = {k1, k2, k3}
  Splint = {s1, s2}
  Incarnation = {1, 2}
  Grant = {g1}
  NoGrant = NoGrant
  None = None
  MaxId = 4
SYMMETRY Symmetry
INVARIANTS TablesAgree
PROPERTIES LeaseIdsAreForever ImplementsExclusiveControl
