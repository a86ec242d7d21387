\* Two requests and one library, no resend.
SPECIFICATION Spec
CONSTANTS
  Req = {1, 2}
  CidOf <- Cid
  TidOf <- Tid
  LibOf <- InCommon
  Libraries <- OneLibrary
  Carriers <- Carrying
  Slot <- Place
  MAX_ENTRIES = 2
  RING_SIZE = 1
  None = None
  MaxSends = 1
CHECK_DEADLOCK FALSE
INVARIANTS
  ListedOnce
