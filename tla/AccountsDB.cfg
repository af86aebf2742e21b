SPECIFICATION Spec
CONSTANTS
  Backends = {"sqlite", "mysql"}
  Admins = {a1, a2}
  Words = {w}
  Spellings = {lower, mixed}
  Passwords = {pw}
  Unset = Unset
  Keys = {k1, k2}
  None = None
  Faults = {"query", "update", "open", "file"}
  MaxAccounts = 3
SYMMETRY AccountsSymmetry
INVARIANTS
  NamesUnique
  CreatedNameExists
  KeyFileIsAccepted
