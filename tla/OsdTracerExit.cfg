\* Two processes traced by their ids, one of which may exit.
SPECIFICATION Spec
CONSTANTS
  Pid = {11, 12}
  Running = {11, 12}
  Selections = {{11, 12}}
  OsdOf <- ThreeProcesses
  osd0 = osd0  osd1 = osd1  None = None
  Missing = {}
  ProbeModes <- FullMode
  Timeouts = {TRUE}
  RING_SIZE = 1
  MaxEvents = 0
CHECK_DEADLOCK FALSE
INVARIANTS
  AliveTargetsTraced
