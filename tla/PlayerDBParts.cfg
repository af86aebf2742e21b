SPECIFICATION Spec
CONSTANTS
  Players = {p1}
  Barred = {}
  Sessions = {s1, s2}
  Bays = {1}
  Cars = {c1}
  Values = {v}
  Blank = Blank
  None = None
  Sections = {"items"}
  Faults = {"query", "update"}
  MaxRows = 2
  MaxGarage = 1
  MaxCars = 1
SYMMETRY SessionSymmetry
INVARIANTS
  CleanSaveSticks
  LockedOutOnlyByTornSave
PROPERTIES
  BlanksHaveACause
