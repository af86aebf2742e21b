SPECIFICATION Spec
CONSTANTS
  Players = {p1}
  Barred = {}
  Sessions = {s1}
  Bays = {1, 2}
  Cars = {c1, c2}
  Values = {v}
  Blank = Blank
  None = None
  Sections = {}
  Faults = {"query", "update"}
  MaxRows = 2
  MaxGarage = 2
  MaxCars = 2
INVARIANTS
  BaysHoldOneCar
  CleanSaveSticks
PROPERTIES
  ImpoundedUntouched
  GarageAsPromised
