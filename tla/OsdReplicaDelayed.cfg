\* A replica's request that waits, and work of the pg on its thread.
SPECIFICATION Spec
CONSTANTS
  t1 = t1  t2 = t2  x1 = x1  x2 = x2  x3 = x3  p1 = p1  p2 = p2  p3 = p3
  write = write  resend = resend  write2 = write2  read = read
  ecwrite = ecwrite  subwrite = subwrite  subwrite2 = subwrite2  ping = ping
  kw = kw  kw2 = kw2  kr = kr  ke = ke  ks = ks  ks2 = ks2  ko = ko
  None = None  Unset = Unset  Background = Background
  Thread = {t1, t2}
  Msg = {subwrite}
  Key = {ks}
  Txc = {x1, x2, x3}
  PgTxc = {x3}
  Peer = {p1}
  KeyOf <- KeyOfMsg
  TypeOf <- TypeOfKey
  ResendOf <- Resends
  Reads = {}
  Erasure = {}
  OpCount <- Operations
  TxnOps = {1}
  Probes <- AllProbes
  Unread = {}
  MAX_DETAIL_OPS = 2
  MAX_DELAYS = 1
  RING_SIZE = 1
  AttachLate = FALSE
  Evicts = FALSE
  MayAge = FALSE
  MaxMsgs = 1
  MaxRequeues = 1
  MaxTxns = 1
CHECK_DEADLOCK FALSE
INVARIANTS
  ReplicaAttribution
