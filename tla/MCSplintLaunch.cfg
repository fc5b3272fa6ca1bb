SPECIFICATION Spec
CONSTANTS
  Splint = {s1, s2, s3}
  Lair = {l1, l2}
  Connection = {k1}
  NoLair = NoLair
  MaxLive = 2
  MaxSplints = 2
  MaxLairs = 1
  Process = {p1, p2, p3}
  NoProcess = NoProcess
SYMMETRY Symmetry
INVARIANTS LiveLimit NoSlotLeaks 
PROPERTIES LeavesTakeProcesses
