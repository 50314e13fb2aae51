\* Three connection objects: two peers served at once, one accept outstanding.
\* No symmetry: it is not sound for the liveness properties.
SPECIFICATION FairSpec
CONSTANTS
  Connections = {c1, c2, c3}
  MaxUnread = 1
INVARIANTS
  TypeOK
  OneInFlight
  NothingWaitsUnmanaged
  AcceptOutstanding
  ReplyEndsReading
PROPERTIES
  ReplyStable
  NoStartAfterStop
  ImplementsService
  StopEndsRun
  HangupReleases
