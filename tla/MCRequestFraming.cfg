\* The client's requests, in every way of cutting them, and any characters at all.
\* The exchange ends: with a reply, with an exception, or with both sides waiting.
SPECIFICATION FSpec
CHECK_DEADLOCK FALSE
CONSTANTS
  Letter <- MCLetter
  Input <- MCInput
  Kept <- MCKept
  KeptBody <- MCKeptBody
  SizeMax = 30
  MaxUri = 0
  MaxHeaders = 2
  MaxName = 1
  MaxValue = 2
  MaxBody = 4
  BufferSize = 3
  Requests <- ClientRequests
  Anything = Anything
INVARIANTS
  TypeOK
  HeaderOpen
  LengthAsDeclared
  BodyFramed
  LinesPaired
  ParsedAsSent
PROPERTIES
  Answered
