\* One restart.
SPECIFICATION Spec
CONSTANTS
  Jobs = {j1, j2}
  Forms <- Persons
  Blank = {"nobody"}
  Garbled = {"noise"}
  Faults = {"crash"}
  MaxRestarts = 1
  HandleRange = 4
INVARIANTS
  HandleUnique
