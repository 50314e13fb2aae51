\* handle_request returns, or throws.
SPECIFICATION Spec
CHECK_DEADLOCK FALSE
CONSTANTS
  Tokens <- MCTokens
  Requests <- OtherRequests
  Blank <- MCBlank
  Records <- MCRecords
INVARIANTS
  StandardAccepted
