SPECIFICATION FairSpec
CONSTANTS
  Closer = {c1, c2}
  Typist = {t1, t2}
  Window = {w1, w2}
INVARIANTS ClosedOnlyUnused
PROPERTIES ClaimEnds
