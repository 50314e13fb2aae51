\* Everything may fail between any two steps, and the server is started again
\* once, with the same Redis.
SPECIFICATION FairSpec
CONSTANTS
  Jobs = {j1, j2, j3}
  Forms <- AllForms
  Blank = {"nobody"}
  Garbled = {"noise"}
  Faults = {"crash", "redis", "models"}
  MaxRestarts = 1
  HandleRange = 3
INVARIANTS
  TypeOK
  AnswerIsOwn
  RecordsWhole
  AnsweredIsSaved
PROPERTIES
  HistoryKept
  HistoryTold
  ImplementsInference
  Settled
