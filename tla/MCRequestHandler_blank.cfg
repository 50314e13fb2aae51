\* An image without a person in it, and nothing else that could go wrong.
SPECIFICATION Spec
CONSTANTS
  Jobs = {j1, j2}
  Forms <- NoPerson
  Blank = {"nobody"}
  Garbled = {"noise"}
  Faults = {}
  MaxRestarts = 0
  HandleRange = 4
INVARIANTS
  SurvivesRequests
