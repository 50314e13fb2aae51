\* handle_request returns, or throws.
SPECIFICATION Spec
CHECK_DEADLOCK FALSE
CONSTANTS
  Tokens <- MCTokens
  Requests <- BatchRequests
  Blank <- MCBlank
  Records <- MCRecords
INVARIANTS
  ReplyIsJson
