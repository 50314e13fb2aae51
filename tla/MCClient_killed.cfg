\* The server is killed.
SPECIFICATION Spec
CONSTANTS
  Paths = {"a", "b"}
  Asked <- CommandLine
  Pieces = 3
  Faults = {"kill"}
INVARIANTS
  EmptyUnlessSuccess
CHECK_DEADLOCK FALSE
