SPECIFICATION Spec
CONSTANTS
  Backend = "mysql"
  Procs = {p1, p2}
  NumTables = 8
  Faults = {"query", "update"}
  Kills = TRUE
INVARIANTS
  StartedHasTables
PROPERTIES
  DefaultNeverReset
