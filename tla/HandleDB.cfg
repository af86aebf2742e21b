SPECIFICATION HandleSpec
CONSTANTS
  Players = {l1, l2}
  Sessions = {s1, s2, s3}
  Words = {w, u}
  Spellings = {lower, mixed}
  None = None
  Faults = {"query", "update"}
SYMMETRY HandleSymmetry
INVARIANTS
  HandlesClashOnlyIfRaced
