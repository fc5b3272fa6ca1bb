SPECIFICATION FairSpec
CONSTANTS
  Splint = {s1, s2}
  Lair = {l1}
  Connection = {k1}
  Process = {p1, p2}
  NoLair = NoLair
  NoProcess = NoProcess
  MaxLive = 2
  MaxSplints = 2
  MaxLairs = 1
PROPERTIES TransientLairEnds
