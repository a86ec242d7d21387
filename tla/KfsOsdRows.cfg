\* One OSD request, slower than the threshold.
SPECIFICATION Spec
CONSTANTS
  Req = {3}
  Writes = {}
  KindOf <- Kind
  ClientOf <- Client
  TidOf <- Tid
  Mode = "osd"
  MAX_REQUESTS = 1
  RING_SIZE = 1
  None = None
  MaxCalls = 3
  MaxSends <- Bounds
  Killable = {}
  UnsafeLatency = {"fast"}
  FinalLatency = {"slow"}
CHECK_DEADLOCK FALSE
INVARIANTS
  OsdRowsShown
