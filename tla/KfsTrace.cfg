\* An MDS write, an MDS read of another client with the same tid and an OSD request;
\* three sends in all, tables and rings of one entry.
SPECIFICATION Spec
CONSTANTS
  Req = {1, 2, 3}
  Writes = {1}
  KindOf <- Kind
  ClientOf <- Client
  TidOf <- Tid
  Mode = "all"
  MAX_REQUESTS = 1
  RING_SIZE = 1
  None = None
  MaxCalls = 3
  MaxSends <- Bounds
  Killable = {2}
  UnsafeLatency = {"fast"}
  FinalLatency = {"slow"}
CHECK_DEADLOCK FALSE
INVARIANTS
  TypeOK
  AttemptsCounted
  SendsReportedOnce
  UnsafeReplyKept
  AnswersReported
  EntriesReleased
PROPERTIES
  RingsDrained
  Stops
