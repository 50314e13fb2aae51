\* The command line names a path that is no image file: nothing there, or a directory.
SPECIFICATION Spec
CONSTANTS
  Paths = {"a", "b"}
  Asked <- CommandLine
  Pieces = 3
  Faults = {}
INVARIANTS
  InvalidIsFalse
CHECK_DEADLOCK FALSE
