SPECIFICATION Spec
CONSTANTS
  Lair = {l1, l2}
  Dojo = {d1, d2}
  Splint = {s1, s2, s3}
  Name = {a, b}
  Client = {c}
  MaxLairs = 1
  MaxDojos = 2
  MaxSplints = 2
  MaxCommits = 4
SYMMETRY Symmetry
CHECK_DEADLOCK FALSE
INVARIANTS CatalogConsistent  RevisionIdentifiesTopology
