\* handle_request returns, or throws.
SPECIFICATION Spec
CHECK_DEADLOCK FALSE
CONSTANTS
  Tokens <- MCTokens
  Requests <- AllRequests
  Blank <- MCBlank
  Records <- MCRecords
INVARIANTS
  DecodedAsEncoded
  Paired
  RepliedAsSent
  InBounds
  BytesAsEncoded
PROPERTIES
  Decided
