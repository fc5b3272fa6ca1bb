SPECIFICATION Spec
CONSTANTS
  Splint = {s1, s2, s3, s4}
  Axis = {h, v}
  Ratio = {r1, r2}
SYMMETRY Symmetry
CHECK_DEADLOCK FALSE
PROPERTIES ImplementsPaths
