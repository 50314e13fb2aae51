\* Files vanish and the server is killed at any time.
SPECIFICATION FairSpec
CONSTANTS
  Paths = {"a", "b"}
  Asked <- AnyCall
  Pieces = 3
  Faults = {"files", "kill"}
INVARIANTS
  AllFilesSent
  ResponseWhole
PROPERTIES
  ClientEnds
CHECK_DEADLOCK FALSE
