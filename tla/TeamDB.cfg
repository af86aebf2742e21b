SPECIFICATION Spec
CONSTANTS
  Accounts = {l1, l2}
  Words = {w}
  Spellings = {lower, mixed}
  Settings = {s1, s2}
  Areas = {0, 1}
  None = None
  MaxFaults = 1
  MaxTeams = 2
SYMMETRY AccountSymmetry
INVARIANTS
  NamesUnique
  DismissedAreOut
PROPERTIES
  CreatedIsLed
  OnlyLeaderActs
  TeamsAsPromised
