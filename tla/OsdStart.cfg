SPECIFICATION Spec
CONSTANTS
  Build = {"B1", "B2", "B3"}
  Debug <- MCDebug
  Embedded = {"B1", "B2"}
  Symbols = {"B1", "B3"}
  VersionOf <- MCVersionOf
  Ns = {"host", "c1", "c2"}
  Host = "host"
  Installed <- MCInstalled
  PathOf <- MCPathOf
  Pid = {1, 2, 3, 4, 5}
  Running = {1, 2, 3, 5}
  NsOf <- MCNsOf
  OsdOf <- MCOsdOf
  Daemon = {1, 2, 3, 4}
  Options <- MCOptions
  None = None
  Unplaced = Unplaced
  Failed = Failed
  Regs <- MCRegs
  MemOf <- MCMemOf
INVARIANTS
  TypeOK AllReadOwnFields OneTargetReadsOwnFields SelectedAreSeen ExportedTogether
CHECK_DEADLOCK FALSE
