\* After the last image the pipeline is destroyed.
SPECIFICATION Spec
CHECK_DEADLOCK FALSE
CONSTANTS
  Batches <- MCBatches
  Models <- MCModels
  Failures = {"load", "inference"}
  Word = 64
  Scale = 60
INVARIANTS
  TypeOK
  OutputsAreCurrent
PROPERTIES
  RunIsFunction
  AllRun
