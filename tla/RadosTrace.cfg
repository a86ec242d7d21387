\* Three requests, each sent up to twice; room for two in the hash and for one in the ring.
SPECIFICATION Spec
CONSTANTS
  Req = {1, 2, 3}
  CidOf <- Cid
  TidOf <- Tid
  LibOf <- Lib
  Libraries <- AllLibraries
  Carriers <- Carrying
  Slot <- Place
  MAX_ENTRIES = 2
  RING_SIZE = 1
  None = None
  MaxSends = 2
CHECK_DEADLOCK FALSE
INVARIANTS
  TypeOK
  CompleteRowsRight
  AnswersReported
  EntriesReleased
  StopLosesNothing
  StandingReported
PROPERTIES
  Stops
