\* Two processes, which may exit at any time and one of which may be started again,
\* traced by their ids or with every other; with a timeout.
SPECIFICATION Spec
CONSTANTS
  Pid = {11, 12, 13}
  Running = {11, 12}
  Selections = {{}, {11, 12}}
  OsdOf <- ThreeProcesses
  osd0 = osd0  osd1 = osd1  None = None
  Missing = {"OpRequest::mark_flag_point"}
  ProbeModes <- AllModes
  Timeouts = {TRUE}
  RING_SIZE = 2
  MaxEvents = 3
CHECK_DEADLOCK FALSE
INVARIANTS
  TypeOK
  TimeoutLosesNothing
  TrackedCompletely
  LabelledRight
  CacheFits
  NothingDiscarded
PROPERTIES
  Delivers
  TimeoutStops
