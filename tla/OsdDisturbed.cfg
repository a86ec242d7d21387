\* Map entries are evicted or age, and some fields cannot be read.
SPECIFICATION Spec
CONSTANTS
  t1 = t1  t2 = t2  x1 = x1  x2 = x2  x3 = x3  p1 = p1  p2 = p2  p3 = p3
  write = write  resend = resend  write2 = write2  read = read
  ecwrite = ecwrite  subwrite = subwrite  subwrite2 = subwrite2  ping = ping
  kw = kw  kw2 = kw2  kr = kr  ke = ke  ks = ks  ks2 = ks2  ko = ko
  None = None  Unset = Unset  Background = Background
  Thread = {t1, t2}
  Msg = {write, resend, read, ecwrite, subwrite}
  Key = {kw, kr, ke, ks}
  Txc = {x1, x2, x3}
  PgTxc = {x3}
  Peer = {p1}
  KeyOf <- KeyOfMsg
  TypeOf <- TypeOfKey
  ResendOf <- Resends
  Reads = {read}
  Erasure = {ecwrite}
  OpCount <- Operations
  TxnOps = {1}
  Probes <- AllProbes
  Unread = {"repop.len", "execute.ops", "txn.buffers"}
  MAX_DETAIL_OPS = 2
  MAX_DELAYS = 1
  RING_SIZE = 1
  AttachLate = FALSE
  Evicts = TRUE
  MayAge = TRUE
  MaxMsgs = 2
  MaxRequeues = 0
  MaxTxns = 1
SYMMETRY Symmetric
CHECK_DEADLOCK FALSE
INVARIANTS
  ClientAttribution
  NoReportWithoutReply
