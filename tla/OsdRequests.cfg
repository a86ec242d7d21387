\* Any two requests, on two threads that also do work of the pg, with three replicas;
\* the ring holds one report.
SPECIFICATION Spec
CONSTANTS
  t1 = t1  t2 = t2  x1 = x1  x2 = x2  x3 = x3  p1 = p1  p2 = p2  p3 = p3
  write = write  resend = resend  write2 = write2  read = read
  ecwrite = ecwrite  subwrite = subwrite  subwrite2 = subwrite2  ping = ping
  kw = kw  kw2 = kw2  kr = kr  ke = ke  ks = ks  ks2 = ks2  ko = ko
  None = None  Unset = Unset  Background = Background
  Thread = {t1, t2}
  Msg = {write, resend, write2, read, ecwrite, subwrite, subwrite2, ping}
  Key = {kw, kw2, kr, ke, ks, ks2, ko}
  Txc = {x1, x2, x3}
  PgTxc = {x3}
  Peer = {p1, p2, p3}
  KeyOf <- KeyOfMsg
  TypeOf <- TypeOfKey
  ResendOf <- Resends
  Reads = {read}
  Erasure = {ecwrite}
  OpCount <- Operations
  TxnOps = {1, 2}
  Probes <- AllProbes
  Unread = {}
  MAX_DETAIL_OPS = 2
  MAX_DELAYS = 1
  RING_SIZE = 1
  AttachLate = FALSE
  Evicts = FALSE
  MayAge = FALSE
  MaxMsgs = 2
  MaxRequeues = 0
  MaxTxns = 2
SYMMETRY Symmetric
CHECK_DEADLOCK FALSE
INVARIANTS
  ReportsAreComplete
  EveryReplyReported
  EntriesReleased
  LinksReleased
  ReplicaOpsListed
  LastPeerTimed
