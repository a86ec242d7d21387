--------------------------- MODULE OsdProbesProofs ---------------------------
(***************************************************************************)
(* Proofs about OsdProbes: its type invariant, and that a client request   *)
(* is only ever charged with its own transactions (ClientAttribution).     *)
(***************************************************************************)
EXTENDS OsdProbes, TLAPS

\* A thread inside queue_transactions has the TransContext it is building.
QueueingHasTxc ==
  \A t \in Thread : worker[t].pc \in {"queueing", "costed"} => worker[t].txc \in Txc

TypeInv == TypeOK /\ QueueingHasTxc

\* The tracer's half of TypeOK, which the handlers are to preserve.
ProbesTyped ==
  /\ ops \in [Key -> OpV \cup {None}]
  /\ ptid_opk \in [Thread -> Key \cup {None}]
  /\ ctx_opk \in [Txc -> Key \cup {None}]
  /\ rb \in Seq(OpV)
  /\ rb_drops \in Nat

-----------------------------------------------------------------------------
(* The strengthening of ClientAttribution that steps preserve.             *)

\* A record's client stamps name TransContexts of the record's own request.
OwnStamps(e) ==
  e.op_type = "OSD_OP" =>
    \A s \in TxcStamps : e.stamp[s] # Unset =>
      /\ e.stamp[s] \in Txc
      /\ txc[e.stamp[s]].owner \in Msg
      /\ KeyOf[txc[e.stamp[s]].owner] = e.key

EntriesNamed ==
  \A k \in Key : Known(k) => ops[k].key = k /\ ops[k].op_type = TypeOf[k]

EntriesOwn == \A k \in Key : Known(k) => OwnStamps(ops[k])

ReportsOwn == \A i \in 1 .. Len(rb) : OwnStamps(rb[i])

\* A client request is bound to a thread only while the thread is between
\* submit_transaction and _txc_calc_cost for that very request.
BindingsOwn ==
  \A t \in Thread : LET k == ptid_opk[t] IN
    k # None /\ TypeOf[k] = "OSD_OP" =>
      /\ worker[t].pc \in {"submitted", "queueing"}
      /\ worker[t].msg \in Msg /\ KeyOf[worker[t].msg] = k

LinksOwn ==
  \A x \in Txc : LET k == ctx_opk[x] IN
    k # None /\ TypeOf[k] = "OSD_OP" =>
      txc[x].owner \in Msg /\ KeyOf[txc[x].owner] = k

QueueingOwns ==
  \A t \in Thread : worker[t].pc = "queueing" =>
    worker[t].msg # None /\ txc[worker[t].txc].owner = worker[t].msg

FreeUnowned == \A x \in Txc : txc[x].state = "free" => txc[x].owner = None

\* Nothing is tracked before the last probe, OSD::enqueue_op, is attached.
TrackedLast ==
  attached < Len(AttachList) =>
    /\ \A k \in Key : ~Known(k)
    /\ \A t \in Thread : ptid_opk[t] = None

IInv ==
  /\ TypeInv
  /\ EntriesNamed /\ EntriesOwn /\ ReportsOwn
  /\ BindingsOwn /\ LinksOwn /\ QueueingOwns /\ FreeUnowned /\ TrackedLast

-----------------------------------------------------------------------------
(* Lemmas about records                                                    *)

LEMMA StampsAre == TxcStamps \subseteq Stamps /\ "reply" \notin TxcStamps
BY DEF TxcStamps, Stamps

LEMMA StampTyped ==
  ASSUME NEW e \in OpV, NEW s \in Stamps, NEW w \in Writer \cup {Unset}
  PROVE  /\ Stamp(e, s, w) \in OpV
         /\ StampFirst(e, s, w) \in OpV
BY DEF Stamp, StampFirst, OpV

LEMMA StampAllTyped ==
  ASSUME NEW e \in OpV, NEW S, NEW w \in Writer \cup {Unset}
  PROVE  StampAll(e, S, w) \in OpV
BY DEF StampAll, OpV

LEMMA NewEntryTyped ==
  ASSUME NEW m \in Msg
  PROVE  NewEntry(m) \in OpV
BY ConstantAssumption DEF ConstantAssumption, NewEntry, OpV, TypeOfMsg, Writer, Types

LEMMA AtMostTyped ==
  ASSUME NEW i \in Nat, NEW n \in Nat
  PROVE  AtMost(i, n) \in Nat
BY DEF AtMost

LEMMA CaptureTyped ==
  ASSUME NEW e \in OpV, NEW n \in Nat
  PROVE  capture_decoded_osd_ops(e, n) \in OpV
<1>1. e.captured + AtMost(n, MAX_DETAIL_OPS) \in Nat
  <2>1. e.captured \in Nat
    BY DEF OpV
  <2>2. AtMost(n, MAX_DETAIL_OPS) \in Nat
    BY ConstantAssumption, AtMostTyped DEF ConstantAssumption
  <2> QED
    BY <2>1, <2>2
<1> QED
  BY <1>1 DEF capture_decoded_osd_ops, OpV

LEMMA AddTxnTyped ==
  ASSUME NEW e \in OpV, NEW n \in Nat
  PROVE  /\ CountOps(e, n) \in OpV
         /\ [CountOps(e, n) EXCEPT !.captured = 0, !.unavailable = TRUE] \in OpV
         /\ [CountOps(e, n) EXCEPT !.captured = AtMost(@ + n, MAX_DETAIL_OPS)] \in OpV
<1>1. e.total + n \in Nat /\ e.captured + n \in Nat
  BY DEF OpV
<1>2. CountOps(e, n) \in OpV /\ CountOps(e, n).captured = e.captured
  BY <1>1 DEF CountOps, OpV
<1>3. AtMost(e.captured + n, MAX_DETAIL_OPS) \in Nat
  BY <1>1, ConstantAssumption, AtMostTyped DEF ConstantAssumption
<1> QED
  BY <1>2, <1>3 DEF OpV

LEMMA PeerTyped ==
  ASSUME NEW e \in OpV, NEW p \in Peer
  PROVE  /\ [TakeSlot(e, p) EXCEPT !.sent = p] \in OpV
         /\ [e EXCEPT !.recv1 = p] \in OpV
         /\ [e EXCEPT !.recv2 = p] \in OpV
BY DEF TakeSlot, OpV

LEMMA DelayTyped ==
  ASSUME NEW e \in OpV, HasRoom(e)
  PROVE  [e EXCEPT !.delays = @ + 1] \in OpV
BY ConstantAssumption DEF ConstantAssumption, HasRoom, OpV

LEMMA AgedTyped ==
  ASSUME NEW e \in OpV
  PROVE  [e EXCEPT !.aged = TRUE] \in OpV
BY DEF OpV

-----------------------------------------------------------------------------
(* Each handler keeps the tracer's state typed.                            *)

LEMMA KeyTyped == \A m \in Msg : KeyOf[m] \in Key /\ TypeOfMsg(m) \in Types
BY ConstantAssumption DEF ConstantAssumption, TypeOfMsg

LEMMA UnchangedTyped ==
  ASSUME ProbesTyped, UNCHANGED probeVars
  PROVE  ProbesTyped'
BY DEF ProbesTyped, probeVars, maps, ring

LEMMA OpsUpdate ==
  ASSUME ProbesTyped, NEW k \in Key, NEW e \in OpV \cup {None},
         ops' = [ops EXCEPT ![k] = e], UNCHANGED <<ptid_opk, ctx_opk, ring>>
  PROVE  ProbesTyped'
BY DEF ProbesTyped, ring

LEMMA KnownTyped ==
  ASSUME ProbesTyped, NEW k \in Key, Known(k)
  PROVE  ops[k] \in OpV
BY DEF ProbesTyped, Known

LEMMA EnqueueTyped ==
  ASSUME ProbesTyped, NEW m \in Msg, uprobe_enqueue_op(m)
  PROVE  ProbesTyped'
BY KeyTyped, NewEntryTyped DEF uprobe_enqueue_op, ProbesTyped, ring

LEMMA TurnTyped ==
  ASSUME requeues \in Nat, NEW m \in Msg
  PROVE  Turn(m) \in Writer
BY DEF Turn, Writer, Turns

LEMMA DequeueTyped ==
  ASSUME ProbesTyped, requeues \in Nat,
         NEW t \in Thread, NEW m \in Msg, uprobe_dequeue_op(t, m)
  PROVE  ProbesTyped'
<1> DEFINE k == KeyOf[m]
<1>1. k \in Key
  BY KeyTyped
<1>2. Known(k) => StampFirst(ops[k], "dequeue", Turn(m)) \in OpV
  BY <1>1, KnownTyped, TurnTyped, StampTyped DEF Stamps
<1>3. ops' \in [Key -> OpV \cup {None}]
  BY <1>1, <1>2 DEF uprobe_dequeue_op, ProbesTyped
<1>4. ptid_opk' \in [Thread -> Key \cup {None}]
  BY <1>1 DEF uprobe_dequeue_op, ProbesTyped
<1> QED
  BY <1>3, <1>4 DEF uprobe_dequeue_op, ProbesTyped, ring

LEMMA ExecuteTyped ==
  ASSUME ProbesTyped, NEW m \in Msg, uprobe_execute_ctx(m)
  PROVE  ProbesTyped'
<1> DEFINE k == KeyOf[m]
           e == Stamp(ops[k], "execute_ctx", m)
<1>1. k \in Key /\ OpCount[m] \in Nat
  BY KeyTyped, ConstantAssumption DEF ConstantAssumption
<1>2. Known(k) => e \in OpV
  BY <1>1, KnownTyped, StampTyped DEF Stamps, Writer
<1>3. Known(k) => capture_decoded_osd_ops(e, OpCount[m]) \in OpV
  BY <1>1, <1>2, CaptureTyped
<1> QED
  BY <1>1, <1>2, <1>3 DEF uprobe_execute_ctx, ProbesTyped, ring

LEMMA SubmitTyped ==
  ASSUME ProbesTyped, NEW t \in Thread, NEW m \in Msg,
         uprobe_submit_transaction(t, m)
  PROVE  ProbesTyped'
<1> DEFINE k == KeyOf[m]
<1>1. k \in Key
  BY KeyTyped
<1>2. Known(k) => Stamp(ops[k], "submit_transaction", m) \in OpV
  BY <1>1, KnownTyped, StampTyped DEF Stamps, Writer
<1> QED
  BY <1>1, <1>2 DEF uprobe_submit_transaction, ProbesTyped, ring

LEMMA ForgetTyped ==
  ASSUME ProbesTyped, NEW k \in Key, Forget(k)
  PROVE  ProbesTyped'
BY OpsUpdate DEF Forget

LEMMA QueueTyped ==
  ASSUME ProbesTyped, NEW t \in Thread, NEW x \in Txc,
         uprobe_queue_transactions(t, x)
  PROVE  ProbesTyped'
<1> DEFINE k == ptid_opk[t]
<1>1. k \in Key \cup {None}
  BY DEF ProbesTyped
<1>2. k \in Key /\ Known(k) => Stamp(ops[k], "queue_transaction", x) \in OpV
  BY KnownTyped, StampTyped DEF Stamps, Writer
<1> QED
  BY <1>1, <1>2 DEF uprobe_queue_transactions, ProbesTyped, ring, probeVars, maps

LEMMA AddTransactionTyped ==
  ASSUME ProbesTyped, NEW t \in Thread, NEW n \in Nat, NEW buffers \in Nat,
         uprobe_txc_add_transaction(t, n, buffers)
  PROVE  ProbesTyped'
<1> DEFINE k == ptid_opk[t]
<1>1. k \in Key \cup {None}
  BY DEF ProbesTyped
<1>2. k \in Key /\ Known(k) => ops[k] \in OpV
  BY KnownTyped
<1> QED
  BY <1>1, <1>2, AddTxnTyped DEF uprobe_txc_add_transaction, ProbesTyped, ring

LEMMA CalcCostTyped ==
  ASSUME ProbesTyped, NEW t \in Thread, NEW x \in Txc, uprobe_txc_calc_cost(t, x)
  PROVE  ProbesTyped'
BY DEF uprobe_txc_calc_cost, ProbesTyped, ring

LEMMA StateProcTyped ==
  ASSUME ProbesTyped, NEW x \in Txc, NEW s, NEW n, uprobe_txc_state_proc(x, s, n)
  PROVE  ProbesTyped'
<1> DEFINE k == ctx_opk[x]
<1>1. k \in Key \cup {None}
  BY DEF ProbesTyped
<1>2. k \in Key /\ Known(k) => StampAll(ops[k], StateStamps(s, n), x) \in OpV
  BY KnownTyped, StampAllTyped DEF Writer
<1> QED
  BY <1>1, <1>2 DEF uprobe_txc_state_proc, ProbesTyped, ring

LEMMA SubopTyped ==
  ASSUME ProbesTyped, NEW m \in Msg, NEW p \in Peer, uprobe_generate_subop(m, p)
  PROVE  ProbesTyped'
<1>1. Known(KeyOf[m]) => [TakeSlot(ops[KeyOf[m]], p) EXCEPT !.sent = p] \in OpV
  BY KeyTyped, KnownTyped, PeerTyped
<1> QED
  BY <1>1, KeyTyped DEF uprobe_generate_subop, ProbesTyped, ring

LEMMA RepopReplyTyped ==
  ASSUME ProbesTyped, NEW m \in Msg, NEW p \in Peer, uprobe_do_repop_reply(m, p)
  PROVE  ops' \in [Key -> OpV \cup {None}]
<1> DEFINE e == ops[KeyOf[m]]
<1>1. Known(KeyOf[m]) =>
        /\ e \in OpV
        /\ [e EXCEPT !.recv1 = p] \in OpV
        /\ [e EXCEPT !.recv2 = p] \in OpV
  BY KeyTyped, KnownTyped, PeerTyped
<1> QED
  BY <1>1, KeyTyped DEF uprobe_do_repop_reply, ProbesTyped

LEMMA FlagPointTyped ==
  ASSUME ProbesTyped, NEW m \in Msg, uprobe_mark_flag_point(m)
  PROVE  ProbesTyped'
<1>1. Known(KeyOf[m]) /\ HasRoom(ops[KeyOf[m]]) =>
        [ops[KeyOf[m]] EXCEPT !.delays = @ + 1] \in OpV
  BY KeyTyped, KnownTyped, DelayTyped
<1> QED
  BY <1>1, KeyTyped DEF uprobe_mark_flag_point, ProbesTyped, ring

LEMMA EmitTyped ==
  ASSUME ProbesTyped, NEW m \in Msg, Known(KeyOf[m]), Emit(KeyOf[m], m)
  PROVE  ProbesTyped'
<1> DEFINE k == KeyOf[m]
<1>1. k \in Key /\ Stamp(ops[k], "reply", m) \in OpV
  BY KeyTyped, KnownTyped, StampTyped DEF Stamps, Writer
<1>2. rb' \in Seq(OpV) /\ rb_drops' \in Nat
  BY <1>1 DEF Emit, ProbesTyped
<1>3. ops' \in [Key -> OpV \cup {None}]
  BY <1>1 DEF Emit, ProbesTyped
<1> QED
  BY <1>2, <1>3 DEF Emit, ProbesTyped

LEMMA LogTyped ==
  ASSUME ProbesTyped, NEW m \in Msg,
         uprobe_log_op_stats(m) \/ uprobe_repop_commit(m)
  PROVE  ProbesTyped'
BY EmitTyped, ForgetTyped, UnchangedTyped, KeyTyped
   DEF uprobe_log_op_stats, uprobe_repop_commit

-----------------------------------------------------------------------------
(* The type invariant                                                      *)

OsdTyped ==
  /\ printed \in Nat /\ requeues \in Nat
  /\ attached \in 0 .. Len(AttachList)
  /\ stage \in [Msg -> Stages]
  /\ worker \in [Thread -> [pc : PCs, msg : Msg \cup {Background, None},
                            txc : Txc \cup {None}, txns : 0 .. MaxTxns]]
  /\ txc \in [Txc -> [owner : Msg \cup {Background, None}, state : TxcStates]]
  /\ pglog \in SUBSET Key
  /\ waitfor \in [Msg -> SUBSET Peer]
  /\ QueueingHasTxc

LEMMA TypeParts ==
  /\ TypeInv <=> ProbesTyped /\ OsdTyped
  /\ TypeInv' <=> ProbesTyped' /\ OsdTyped'
BY DEF TypeInv, TypeOK, ProbesTyped, OsdTyped

LEMMA AttachListLength == Len(AttachList) = 15
BY DEF AttachList, LaterProbes

LEMMA InitTyped == Init => TypeInv
<1> SUFFICES ASSUME Init PROVE TypeInv
  OBVIOUS
<1>1. ProbesTyped
  BY DEF Init, ProbesTyped
<1>2. OsdTyped
  <2>1. attached \in 0 .. Len(AttachList)
    BY AttachListLength DEF Init
  <2>2. worker \in [Thread -> [pc : PCs, msg : Msg \cup {Background, None},
                               txc : Txc \cup {None}, txns : 0 .. MaxTxns]]
    BY ConstantAssumption DEF ConstantAssumption, Init, IdleWorker, PCs
  <2>3. QueueingHasTxc
    BY DEF Init, IdleWorker, QueueingHasTxc
  <2> QED
    BY <2>1, <2>2, <2>3 DEF Init, OsdTyped, Stages, TxcStates
<1> QED
  BY <1>1, <1>2, TypeParts

\* A request's own steps.
LEMMA RequestTyped ==
  ASSUME TypeInv, NEW m \in Msg, RequestStep(m)
  PROVE  TypeInv'
<1>0. ProbesTyped /\ OsdTyped
  BY TypeParts
<1>1. CASE EnqueueOp(m)
  <2>1. ProbesTyped'
    BY <1>0, <1>1, EnqueueTyped, UnchangedTyped DEF EnqueueOp, Fires
  <2>2. OsdTyped'
    BY <1>0, <1>1 DEF EnqueueOp, OsdTyped, SetStage, Stages, QueueingHasTxc
  <2> QED BY <2>1, <2>2, TypeParts
<1>2. CASE RequeueOp(m)
  <2>1. ProbesTyped'
    BY <1>0, <1>2, UnchangedTyped DEF RequeueOp
  <2>2. OsdTyped'
    BY <1>0, <1>2 DEF RequeueOp, OsdTyped, SetStage, Stages, QueueingHasTxc
  <2> QED BY <2>1, <2>2, TypeParts
<1>3. CASE IntervalChange(m)
  <2>1. ProbesTyped'
    BY <1>0, <1>3, UnchangedTyped DEF IntervalChange
  <2>2. OsdTyped'
    BY <1>0, <1>3 DEF IntervalChange, OsdTyped, SetStage, Stages, QueueingHasTxc
  <2> QED BY <2>1, <2>2, TypeParts
<1>4. CASE CompleteWrite(m)
  <2>1. ProbesTyped'
    BY <1>0, <1>4, LogTyped, UnchangedTyped DEF CompleteWrite, Fires
  <2>2. OsdTyped'
    BY <1>0, <1>4 DEF CompleteWrite, OsdTyped, SetStage, Stages, QueueingHasTxc
  <2> QED BY <2>1, <2>2, TypeParts
<1>5. CASE RepopCommit(m)
  <2>1. ProbesTyped'
    BY <1>0, <1>5, LogTyped, UnchangedTyped DEF RepopCommit, Fires
  <2>2. OsdTyped'
    BY <1>0, <1>5 DEF RepopCommit, OsdTyped, SetStage, Stages, QueueingHasTxc
  <2> QED BY <2>1, <2>2, TypeParts
<1> QED
  BY <1>1, <1>2, <1>3, <1>4, <1>5 DEF RequestStep

\* The worker's record after GoTo, Release, or a field of its own changed.
WorkerRecord == [pc : PCs, msg : Msg \cup {Background, None},
                 txc : Txc \cup {None}, txns : 0 .. MaxTxns]

LEMMA WorkerStep ==
  ASSUME OsdTyped, NEW t \in Thread, NEW w \in WorkerRecord,
         worker' = [worker EXCEPT ![t] = w],
         w.pc \in {"queueing", "costed"} => w.txc \in Txc
  PROVE  /\ worker' \in [Thread -> WorkerRecord]
         /\ QueueingHasTxc'
BY DEF OsdTyped, WorkerRecord, QueueingHasTxc

LEMMA IdleTyped == IdleWorker \in WorkerRecord /\ IdleWorker.pc = "idle"
BY ConstantAssumption DEF ConstantAssumption, IdleWorker, WorkerRecord, PCs

LEMMA ReleaseTyped ==
  ASSUME OsdTyped, NEW t \in Thread, Release(t)
  PROVE  worker' \in [Thread -> WorkerRecord] /\ QueueingHasTxc'
BY IdleTyped, WorkerStep DEF Release

LEMMA GoToTyped ==
  ASSUME OsdTyped, NEW t \in Thread, NEW pc \in PCs, GoTo(t, pc),
         pc = "queueing" => FALSE,
         pc = "costed" => worker[t].txc \in Txc
  PROVE  worker' \in [Thread -> WorkerRecord] /\ QueueingHasTxc'
<1> DEFINE w == [worker[t] EXCEPT !.pc = pc]
<1>1. w \in WorkerRecord /\ w.pc = pc /\ w.txc = worker[t].txc
  BY DEF OsdTyped, WorkerRecord
<1>2. worker' = [worker EXCEPT ![t] = w]
  BY DEF GoTo
<1> HIDE DEF w
<1> QED
  BY <1>1, <1>2, WorkerStep

\* A worker thread's steps on a request.
LEMMA ThreadTyped ==
  ASSUME TypeInv, NEW t \in Thread, NEW m \in Msg, ThreadStep(t, m)
  PROVE  TypeInv'
<1>0. ProbesTyped /\ OsdTyped
  BY TypeParts
<1>1. CASE DequeueOp(t, m)
  <2>1. ProbesTyped'
    BY <1>0, <1>1, DequeueTyped, UnchangedTyped DEF DequeueOp, Fires, OsdTyped
  <2> DEFINE w == [IdleWorker EXCEPT !.pc = "dequeued", !.msg = m]
  <2>2. w \in WorkerRecord /\ w.pc = "dequeued"
    BY IdleTyped DEF WorkerRecord, PCs
  <2>3. worker' = [worker EXCEPT ![t] = w]
    BY <1>1 DEF DequeueOp
  <2> HIDE DEF w
  <2>4. worker' \in [Thread -> WorkerRecord] /\ QueueingHasTxc'
    BY <1>0, <2>2, <2>3, WorkerStep
  <2>5. OsdTyped'
    BY <1>0, <1>1, <2>4 DEF DequeueOp, OsdTyped, SetStage, Stages, WorkerRecord
  <2> QED BY <2>1, <2>5, TypeParts
<1>2. CASE DelayOp(t, m)
  <2>1. ProbesTyped'
    BY <1>0, <1>2, FlagPointTyped, UnchangedTyped
       DEF DelayOp, Fires, uprobe_mark_flag_point_string
  <2>2. OsdTyped'
    BY <1>0, <1>2, ReleaseTyped DEF DelayOp, OsdTyped, SetStage, Stages, WorkerRecord
  <2> QED BY <2>1, <2>2, TypeParts
<1>3. CASE FinishUnlogged(t, m)
  <2>1. ProbesTyped'
    BY <1>0, <1>3, UnchangedTyped DEF FinishUnlogged
  <2>2. OsdTyped'
    BY <1>0, <1>3, ReleaseTyped
       DEF FinishUnlogged, OsdTyped, SetStage, Stages, WorkerRecord
  <2> QED BY <2>1, <2>2, TypeParts
<1>4. CASE ExecuteCtx(t, m)
  <2>1. ProbesTyped'
    BY <1>0, <1>4, ExecuteTyped, UnchangedTyped DEF ExecuteCtx, Fires
  <2>2. worker' \in [Thread -> WorkerRecord] /\ QueueingHasTxc'
    BY <1>0, <1>4, GoToTyped DEF ExecuteCtx, PCs
  <2>3. OsdTyped'
    BY <1>0, <1>4, <2>2 DEF ExecuteCtx, OsdTyped, WorkerRecord
  <2> QED BY <2>1, <2>3, TypeParts
<1>5. CASE CompleteRead(t, m)
  <2>1. ProbesTyped'
    BY <1>0, <1>5, LogTyped, UnchangedTyped DEF CompleteRead, Fires
  <2>2. OsdTyped'
    BY <1>0, <1>5, ReleaseTyped
       DEF CompleteRead, OsdTyped, SetStage, Stages, WorkerRecord
  <2> QED BY <2>1, <2>2, TypeParts
<1>6. CASE SubmitTransaction(t, m)
  <2>1. ProbesTyped'
    BY <1>0, <1>6, SubmitTyped, UnchangedTyped DEF SubmitTransaction, Fires
  <2>2. worker' \in [Thread -> WorkerRecord] /\ QueueingHasTxc'
    BY <1>0, <1>6, GoToTyped DEF SubmitTransaction, PCs
  <2>3. OsdTyped'
    BY <1>0, <1>6, <2>2, KeyTyped DEF SubmitTransaction, OsdTyped, WorkerRecord
  <2> QED BY <2>1, <2>3, TypeParts
<1>7. CASE EcSubmitTransaction(t, m)
  <2>1. ProbesTyped'
    BY <1>0, <1>7, ForgetTyped, KeyTyped, UnchangedTyped
       DEF EcSubmitTransaction, Fires, uprobe_ec_submit_transaction
  <2>2. OsdTyped'
    BY <1>0, <1>7, ReleaseTyped, KeyTyped
       DEF EcSubmitTransaction, OsdTyped, SetStage, Stages, WorkerRecord
  <2> QED BY <2>1, <2>2, TypeParts
<1>8. CASE \E p \in Peer : GenerateSubop(t, m, p)
  <2> PICK p \in Peer : GenerateSubop(t, m, p)
    BY <1>8
  <2>1. ProbesTyped'
    BY <1>0, SubopTyped, UnchangedTyped DEF GenerateSubop, Fires
  <2>2. OsdTyped'
    BY <1>0 DEF GenerateSubop, OsdTyped, QueueingHasTxc
  <2> QED BY <2>1, <2>2, TypeParts
<1>9. CASE \E p \in Peer : PeerReply(t, m, p)
  <2> PICK p \in Peer : PeerReply(t, m, p)
    BY <1>9
  <2>1. ops' \in [Key -> OpV \cup {None}]
    BY <1>0, RepopReplyTyped DEF PeerReply, ProbesTyped
  <2>2. ProbesTyped'
    BY <1>0, <2>1 DEF PeerReply, ProbesTyped, ring
  <2>3. OsdTyped'
    BY <1>0 DEF PeerReply, OsdTyped, QueueingHasTxc
  <2> QED BY <2>2, <2>3, TypeParts
<1>10. CASE \E x \in Txc, n \in 1 .. MaxTxns : QueueTransactions(t, m, x, n)
  <2> PICK x \in Txc, n \in 1 .. MaxTxns : QueueTransactions(t, m, x, n)
    BY <1>10
  <2>1. ProbesTyped'
    BY <1>0, QueueTyped, UnchangedTyped DEF QueueTransactions, Fires
  <2> DEFINE w == [pc |-> "queueing", msg |-> m, txc |-> x, txns |-> n]
  <2>2. w \in WorkerRecord /\ w.txc \in Txc
    BY ConstantAssumption DEF ConstantAssumption, WorkerRecord, PCs
  <2>3. worker' = [worker EXCEPT ![t] = w]
    BY DEF QueueTransactions
  <2> HIDE DEF w
  <2>4. worker' \in [Thread -> WorkerRecord] /\ QueueingHasTxc'
    BY <1>0, <2>2, <2>3, WorkerStep
  <2>5. OsdTyped'
    BY <1>0, <2>4 DEF QueueTransactions, OsdTyped, TxcStates, WorkerRecord
  <2> QED BY <2>1, <2>5, TypeParts
<1> QED
  BY <1>1, <1>2, <1>3, <1>4, <1>5, <1>6, <1>7, <1>8, <1>9, <1>10 DEF ThreadStep

\* The object store's part of a thread's work.
LEMMA StoreTyped ==
  ASSUME TypeInv, NEW t \in Thread, StoreStep(t)
  PROVE  TypeInv'
<1>0. ProbesTyped /\ OsdTyped
  BY TypeParts
<1>1. CASE \E x \in Txc, n \in 1 .. MaxTxns : QueuePgWork(t, x, n)
  <2> PICK x \in Txc, n \in 1 .. MaxTxns : QueuePgWork(t, x, n)
    BY <1>1
  <2>1. ProbesTyped'
    BY <1>0, QueueTyped, UnchangedTyped DEF QueuePgWork, Fires
  <2> DEFINE w == [pc |-> "queueing", msg |-> Background, txc |-> x, txns |-> n]
  <2>2. w \in WorkerRecord /\ w.txc \in Txc
    BY ConstantAssumption DEF ConstantAssumption, WorkerRecord, PCs
  <2>3. worker' = [worker EXCEPT ![t] = w]
    BY DEF QueuePgWork
  <2> HIDE DEF w
  <2>4. worker' \in [Thread -> WorkerRecord] /\ QueueingHasTxc'
    BY <1>0, <2>2, <2>3, WorkerStep
  <2>5. OsdTyped'
    BY <1>0, <2>4 DEF QueuePgWork, OsdTyped, TxcStates, WorkerRecord
  <2> QED BY <2>1, <2>5, TypeParts
<1>2. CASE \E n \in TxnOps, buffers \in 1 .. 2 : AddTransaction(t, n, buffers)
  <2> PICK n \in TxnOps, buffers \in 1 .. 2 : AddTransaction(t, n, buffers)
    BY <1>2
  <2>1. ProbesTyped'
    BY <1>0, AddTransactionTyped, UnchangedTyped, ConstantAssumption
       DEF AddTransaction, Fires, ConstantAssumption
  <2> DEFINE w == [worker[t] EXCEPT !.txns = @ - 1]
  <2>2. w \in WorkerRecord /\ (w.pc \in {"queueing", "costed"} => w.txc \in Txc)
    <3>1. worker[t] \in WorkerRecord
      BY <1>0 DEF OsdTyped, WorkerRecord
    <3>2. worker[t].txns - 1 \in 0 .. MaxTxns
      BY <3>1, ConstantAssumption
         DEF AddTransaction, WorkerRecord, ConstantAssumption
    <3>3. w \in WorkerRecord /\ w.pc = worker[t].pc /\ w.txc = worker[t].txc
      BY <3>1, <3>2 DEF WorkerRecord
    <3> QED
      BY <1>0, <3>3 DEF OsdTyped, QueueingHasTxc
  <2>3. worker' = [worker EXCEPT ![t] = w]
    BY DEF AddTransaction
  <2> HIDE DEF w
  <2>4. worker' \in [Thread -> WorkerRecord] /\ QueueingHasTxc'
    BY <1>0, <2>2, <2>3, WorkerStep
  <2>5. OsdTyped'
    BY <1>0, <2>4 DEF AddTransaction, OsdTyped, WorkerRecord
  <2> QED BY <2>1, <2>5, TypeParts
<1>3. CASE CalcCost(t)
  <2>0. worker[t].txc \in Txc
    BY <1>0, <1>3 DEF CalcCost, Work, OsdTyped, QueueingHasTxc
  <2>1. ProbesTyped'
    BY <1>0, <1>3, <2>0, CalcCostTyped, UnchangedTyped DEF CalcCost, Fires
  <2>2. worker' \in [Thread -> WorkerRecord] /\ QueueingHasTxc'
    BY <1>0, <1>3, <2>0, GoToTyped DEF CalcCost, PCs
  <2>3. OsdTyped'
    BY <1>0, <1>3, <2>2 DEF CalcCost, OsdTyped, WorkerRecord
  <2> QED BY <2>1, <2>3, TypeParts
<1>4. CASE \E pending \in 0 .. 1 : PrepareTxc(t, pending)
  <2> PICK pending \in 0 .. 1 : PrepareTxc(t, pending)
    BY <1>4
  <2>0. worker[t].txc \in Txc
    BY <1>0 DEF PrepareTxc, Work, OsdTyped, QueueingHasTxc
  <2>1. ProbesTyped'
    BY <1>0, <2>0, StateProcTyped, UnchangedTyped DEF PrepareTxc, StateProc, Fires
  <2>2. OsdTyped'
    BY <1>0, <2>0, ReleaseTyped
       DEF PrepareTxc, StateProc, OsdTyped, Stages, TxcStates, WorkerRecord
  <2> QED BY <2>1, <2>2, TypeParts
<1> QED
  BY <1>1, <1>2, <1>3, <1>4 DEF StoreStep

\* BlueStore's own threads, the tracer and the kernel.
LEMMA OtherTyped ==
  ASSUME TypeInv,
         \/ \E x \in Txc : TxcStep(x)
         \/ \E k \in Key : AgePasses(k)
         \/ AttachNext \/ Consume \/ EvictStep
  PROVE  TypeInv'
<1>0. ProbesTyped /\ OsdTyped
  BY TypeParts
<1>1. CASE \E x \in Txc : TxcStep(x)
  <2> PICK x \in Txc : TxcStep(x)
    BY <1>1
  <2>1. ProbesTyped'
    BY <1>0, StateProcTyped, UnchangedTyped
       DEF TxcStep, AioDone, IoDone, KvSubmitted, StateProc, Fires
  <2>2. OsdTyped'
    BY <1>0 DEF TxcStep, AioDone, IoDone, KvSubmitted, StateProc, OsdTyped,
                TxcStates, QueueingHasTxc
  <2> QED BY <2>1, <2>2, TypeParts
<1>2. CASE \E k \in Key : AgePasses(k)
  <2> PICK k \in Key : AgePasses(k)
    BY <1>2
  <2>1. [ops[k] EXCEPT !.aged = TRUE] \in OpV
    BY <1>0, KnownTyped, AgedTyped DEF AgePasses
  <2>2. ProbesTyped'
    BY <1>0, <2>1, OpsUpdate DEF AgePasses
  <2>3. OsdTyped'
    BY <1>0 DEF AgePasses, OsdTyped, osd, QueueingHasTxc
  <2> QED BY <2>2, <2>3, TypeParts
<1>3. CASE AttachNext
  <2>1. ProbesTyped'
    BY <1>0, <1>3, UnchangedTyped DEF AttachNext
  <2>2. OsdTyped'
    BY <1>0, <1>3, AttachListLength DEF AttachNext, OsdTyped, osd, QueueingHasTxc
  <2> QED BY <2>1, <2>2, TypeParts
<1>4. CASE Consume
  <2>1. ProbesTyped'
    BY <1>0, <1>4 DEF Consume, ProbesTyped, maps
  <2>2. OsdTyped'
    BY <1>0, <1>4 DEF Consume, OsdTyped, osd, QueueingHasTxc
  <2> QED BY <2>1, <2>2, TypeParts
<1>5. CASE EvictStep
  <2>1. ProbesTyped'
    BY <1>0, <1>5
       DEF EvictStep, EvictOp, EvictThread, EvictTxc, ProbesTyped, ring
  <2>2. OsdTyped'
    BY <1>0, <1>5
       DEF EvictStep, EvictOp, EvictThread, EvictTxc, OsdTyped, osd, QueueingHasTxc
  <2> QED BY <2>1, <2>2, TypeParts
<1> QED
  BY <1>1, <1>2, <1>3, <1>4, <1>5

LEMMA StutterTyped ==
  ASSUME TypeInv, UNCHANGED vars
  PROVE  TypeInv'
BY DEF TypeInv, TypeOK, QueueingHasTxc, vars, probeVars, maps, ring, osd

LEMMA TypeStep == TypeInv /\ [Next]_vars => TypeInv'
BY RequestTyped, ThreadTyped, StoreTyped, OtherTyped, StutterTyped DEF Next

\* The maps, the ring and the OSD's own state keep their types; in particular
\* no record holds more delay reasons than it has room for.
THEOREM TypeCorrect == Spec => []TypeOK
<1>1. Spec => []TypeInv
  BY InitTyped, TypeStep, PTL DEF Spec
<1>2. TypeInv => TypeOK
  BY DEF TypeInv
<1> QED
  BY <1>1, <1>2, PTL

-----------------------------------------------------------------------------
(* Attribution: what the handlers do to the records                        *)

\* f is e as far as attribution goes.
SameCharge(e, f) ==
  /\ f.key = e.key /\ f.op_type = e.op_type
  /\ \A s \in TxcStamps : f.stamp[s] = e.stamp[s]

\* Every record the step leaves was there before, with the same stages.
RecordsKept ==
  \A k \in Key : ops'[k] # None => Known(k) /\ SameCharge(ops[k], ops'[k])

LEMMA StampCharge ==
  ASSUME NEW e \in OpV, NEW s \in Stamps \ TxcStamps, NEW w
  PROVE  SameCharge(e, Stamp(e, s, w)) /\ SameCharge(e, StampFirst(e, s, w))
BY StampsAre DEF SameCharge, Stamp, StampFirst, OpV

LEMMA OtherCharge ==
  ASSUME NEW e \in OpV
  PROVE  /\ \A n : SameCharge(e, capture_decoded_osd_ops(e, n))
         /\ \A n : SameCharge(e, CountOps(e, n))
         /\ \A n : SameCharge(e, [CountOps(e, n) EXCEPT !.captured = 0, !.unavailable = TRUE])
         /\ \A n : SameCharge(e, [CountOps(e, n) EXCEPT !.captured = AtMost(@ + n, MAX_DETAIL_OPS)])
         /\ \A p : SameCharge(e, [TakeSlot(e, p) EXCEPT !.sent = p])
         /\ \A p : SameCharge(e, [e EXCEPT !.recv1 = p])
         /\ \A p : SameCharge(e, [e EXCEPT !.recv2 = p])
         /\ SameCharge(e, [e EXCEPT !.delays = @ + 1])
         /\ SameCharge(e, [e EXCEPT !.aged = TRUE])
         /\ SameCharge(e, e)
BY DEF SameCharge, capture_decoded_osd_ops, CountOps, TakeSlot, OpV

LEMMA SameChargeTransitive ==
  ASSUME NEW e, NEW f, NEW g, SameCharge(e, f), SameCharge(f, g)
  PROVE  SameCharge(e, g)
BY DEF SameCharge

LEMMA UpdateKeeps ==
  ASSUME ProbesTyped, NEW k \in Key, NEW f,
         ops' = [ops EXCEPT ![k] = f],
         f # None => Known(k) /\ SameCharge(ops[k], f)
  PROVE  RecordsKept
BY DEF RecordsKept, ProbesTyped, SameCharge, Known

LEMMA SameKeeps ==
  ASSUME ProbesTyped, ops' = ops
  PROVE  RecordsKept
BY DEF RecordsKept, ProbesTyped, SameCharge, Known

\* Three handlers write records otherwise: those of enqueue_op,
\* queue_transactions and _txc_state_proc.
LEMMA DequeueKeeps ==
  ASSUME ProbesTyped, NEW t \in Thread, NEW m \in Msg, uprobe_dequeue_op(t, m)
  PROVE  RecordsKept
<1>1. Known(KeyOf[m]) => SameCharge(ops[KeyOf[m]], StampFirst(ops[KeyOf[m]], "dequeue", Turn(m)))
  BY KeyTyped, KnownTyped, StampCharge DEF Stamps, TxcStamps
<1> QED
  BY <1>1, KeyTyped, UpdateKeeps, SameKeeps DEF uprobe_dequeue_op

LEMMA ExecuteKeeps ==
  ASSUME ProbesTyped, NEW m \in Msg, uprobe_execute_ctx(m)
  PROVE  RecordsKept
<1> DEFINE e == Stamp(ops[KeyOf[m]], "execute_ctx", m)
<1>1. Known(KeyOf[m]) => SameCharge(ops[KeyOf[m]], e) /\ e \in OpV
  BY KeyTyped, KnownTyped, StampCharge, StampTyped DEF Stamps, TxcStamps, Writer
<1>2. Known(KeyOf[m]) =>
        SameCharge(ops[KeyOf[m]], capture_decoded_osd_ops(e, OpCount[m]))
  BY <1>1, OtherCharge, SameChargeTransitive
<1> HIDE DEF e
<1>3. \/ ops' = ops
      \/ Known(KeyOf[m]) /\ ops' = [ops EXCEPT ![KeyOf[m]] = e]
      \/ /\ Known(KeyOf[m])
         /\ ops' = [ops EXCEPT ![KeyOf[m]] = capture_decoded_osd_ops(e, OpCount[m])]
  BY DEF uprobe_execute_ctx, e
<1> QED
  BY <1>1, <1>2, <1>3, KeyTyped, UpdateKeeps, SameKeeps

LEMMA SubmitKeeps ==
  ASSUME ProbesTyped, NEW t \in Thread, NEW m \in Msg,
         uprobe_submit_transaction(t, m)
  PROVE  RecordsKept
<1>1. Known(KeyOf[m]) =>
        SameCharge(ops[KeyOf[m]], Stamp(ops[KeyOf[m]], "submit_transaction", m))
  BY KeyTyped, KnownTyped, StampCharge DEF Stamps, TxcStamps
<1> QED
  BY <1>1, KeyTyped, UpdateKeeps, SameKeeps DEF uprobe_submit_transaction

LEMMA ForgetKeeps ==
  ASSUME ProbesTyped, NEW k \in Key, Forget(k)
  PROVE  RecordsKept
BY UpdateKeeps DEF Forget

LEMMA AddTransactionKeeps ==
  ASSUME ProbesTyped, NEW t \in Thread, NEW n \in Nat, NEW buffers \in Nat,
         uprobe_txc_add_transaction(t, n, buffers)
  PROVE  RecordsKept
<1> DEFINE k == ptid_opk[t]
<1>1. k \in Key \cup {None}
  BY DEF ProbesTyped
<1>2. k \in Key /\ Known(k) => ops[k] \in OpV
  BY KnownTyped
<1>3. \/ ops' = ops
      \/ /\ k # None /\ Known(k)
         /\ \/ ops' = [ops EXCEPT ![k] = CountOps(ops[k], n)]
            \/ ops' = [ops EXCEPT ![k] =
                  [CountOps(ops[k], n) EXCEPT !.captured = 0, !.unavailable = TRUE]]
            \/ ops' = [ops EXCEPT ![k] =
                  [CountOps(ops[k], n) EXCEPT !.captured = AtMost(@ + n, MAX_DETAIL_OPS)]]
  BY DEF uprobe_txc_add_transaction
<1> QED
  BY <1>1, <1>2, <1>3, OtherCharge, UpdateKeeps, SameKeeps

LEMMA PeerKeeps ==
  ASSUME ProbesTyped, NEW m \in Msg, NEW p \in Peer,
         uprobe_generate_subop(m, p) \/ uprobe_do_repop_reply(m, p)
  PROVE  RecordsKept
<1> DEFINE e == ops[KeyOf[m]]
<1>1. Known(KeyOf[m]) => e \in OpV
  BY KeyTyped, KnownTyped
<1>2. \/ ops' = ops
      \/ /\ Known(KeyOf[m])
         /\ \/ ops' = [ops EXCEPT ![KeyOf[m]] = [TakeSlot(e, p) EXCEPT !.sent = p]]
            \/ ops' = [ops EXCEPT ![KeyOf[m]] = [e EXCEPT !.recv1 = p]]
            \/ ops' = [ops EXCEPT ![KeyOf[m]] = [e EXCEPT !.recv2 = p]]
            \/ ops' = [ops EXCEPT ![KeyOf[m]] = e]
  BY DEF uprobe_generate_subop, uprobe_do_repop_reply
<1> QED
  BY <1>1, <1>2, KeyTyped, OtherCharge, UpdateKeeps, SameKeeps

LEMMA FlagPointKeeps ==
  ASSUME ProbesTyped, NEW m \in Msg, uprobe_mark_flag_point(m)
  PROVE  RecordsKept
<1> DEFINE e == ops[KeyOf[m]]
<1>1. Known(KeyOf[m]) => e \in OpV
  BY KeyTyped, KnownTyped
<1>2. \/ ops' = ops
      \/ /\ Known(KeyOf[m])
         /\ ops' = [ops EXCEPT ![KeyOf[m]] = [e EXCEPT !.delays = @ + 1]]
  BY DEF uprobe_mark_flag_point
<1> QED
  BY <1>1, <1>2, KeyTyped, OtherCharge, UpdateKeeps, SameKeeps

\* A report is the record it is made of, as far as attribution goes.
LEMMA LogKeeps ==
  ASSUME ProbesTyped, NEW m \in Msg,
         uprobe_log_op_stats(m) \/ uprobe_repop_commit(m)
  PROVE  /\ RecordsKept
         /\ ptid_opk' = ptid_opk /\ ctx_opk' = ctx_opk
         /\ \/ rb' = rb
            \/ \E k \in Key, e \in OpV : /\ Known(k) /\ SameCharge(ops[k], e)
                                         /\ rb' = Append(rb, e)
<1> DEFINE k == KeyOf[m]
<1>0. k \in Key
  BY KeyTyped
<1>1. Known(k) => /\ SameCharge(ops[k], Stamp(ops[k], "reply", m))
                  /\ Stamp(ops[k], "reply", m) \in OpV
  BY <1>0, KnownTyped, StampCharge, StampTyped DEF Stamps, TxcStamps, Writer
<1>2. \/ UNCHANGED probeVars
      \/ Known(k) /\ Emit(k, m)
      \/ Forget(k)
  BY DEF uprobe_log_op_stats, uprobe_repop_commit
<1>3. CASE UNCHANGED probeVars
  BY <1>3, SameKeeps DEF probeVars, maps, ring
<1>4. CASE Known(k) /\ Emit(k, m)
  <2>1. RecordsKept
    BY <1>0, <1>4, UpdateKeeps DEF Emit
  <2> QED
    BY <1>0, <1>1, <1>4, <2>1 DEF Emit
<1>5. CASE Forget(k)
  BY <1>0, <1>5, ForgetKeeps DEF Forget, ring
<1> QED
  BY <1>2, <1>3, <1>4, <1>5

-----------------------------------------------------------------------------
(* Attribution: the invariant                                              *)

\* A TransContext that belongs to a request keeps its owner.
OwnersKept ==
  \A x \in Txc : txc[x].owner \in Msg => txc'[x].owner = txc[x].owner

\* The ring loses its head or gains a report made of a tracked record.
ReportsKept ==
  \/ rb' = rb
  \/ rb # << >> /\ rb' = Tail(rb)
  \/ \E k \in Key, e \in OpV : /\ Known(k) /\ SameCharge(ops[k], e)
                               /\ rb' = Append(rb, e)

\* A binding is new only for a request that is tracked.
BindingsKept ==
  \A t \in Thread : ptid_opk'[t] \in {ptid_opk[t], None} \/ Known(ptid_opk'[t])

LEMMA OwnStampsKept ==
  ASSUME OwnersKept, NEW e, OwnStamps(e), NEW f, SameCharge(e, f)
  PROVE  OwnStamps(f)'
BY DEF OwnersKept, OwnStamps, SameCharge

LEMMA EntriesStay ==
  ASSUME EntriesNamed, EntriesOwn, OwnersKept, RecordsKept
  PROVE  EntriesNamed' /\ EntriesOwn'
<1>1. EntriesNamed'
  BY DEF EntriesNamed, RecordsKept, SameCharge, Known
<1>2. ASSUME NEW k \in Key, Known(k)' PROVE OwnStamps(ops[k])'
  <2>1. Known(k) /\ SameCharge(ops[k], ops'[k])
    BY <1>2 DEF RecordsKept, Known
  <2>2. OwnStamps(ops[k])
    BY <2>1 DEF EntriesOwn
  <2> QED
    BY <2>1, <2>2 DEF OwnersKept, OwnStamps, SameCharge
<1> QED
  BY <1>1, <1>2 DEF EntriesOwn

LEMMA ReportsStay ==
  ASSUME ProbesTyped, EntriesOwn, ReportsOwn, OwnersKept, ReportsKept
  PROVE  ReportsOwn'
<1>1. ASSUME NEW i \in 1 .. Len(rb') PROVE OwnStamps(rb[i])'
  <2>1. CASE rb' = rb
    <3>1. OwnStamps(rb[i])
      BY <2>1, <1>1 DEF ReportsOwn
    <3> QED
      BY <2>1, <3>1 DEF OwnersKept, OwnStamps
  <2>2. CASE rb # << >> /\ rb' = Tail(rb)
    <3>1. i + 1 \in 1 .. Len(rb) /\ rb'[i] = rb[i + 1]
      BY <1>1, <2>2 DEF ProbesTyped
    <3>2. OwnStamps(rb[i + 1])
      BY <3>1 DEF ReportsOwn
    <3> QED
      BY <3>1, <3>2 DEF OwnersKept, OwnStamps
  <2>3. ASSUME NEW k \in Key, NEW e \in OpV, Known(k), SameCharge(ops[k], e),
               rb' = Append(rb, e)
        PROVE  OwnStamps(rb[i])'
    <3>1. \/ i \in 1 .. Len(rb) /\ rb'[i] = rb[i]
          \/ rb'[i] = e
      BY <1>1, <2>3 DEF ProbesTyped
    <3>2. CASE i \in 1 .. Len(rb) /\ rb'[i] = rb[i]
      <4>1. OwnStamps(rb[i])
        BY <3>2 DEF ReportsOwn
      <4> QED
        BY <3>2, <4>1 DEF OwnersKept, OwnStamps
    <3>3. CASE rb'[i] = e
      <4>1. OwnStamps(ops[k])
        BY <2>3 DEF EntriesOwn
      <4> QED
        BY <2>3, <3>3, <4>1 DEF OwnersKept, OwnStamps, SameCharge
    <3> QED
      BY <3>1, <3>2, <3>3
  <2> QED
    BY <2>1, <2>2, <2>3 DEF ReportsKept
<1> QED
  BY <1>1 DEF ReportsOwn

LEMMA TrackedStays ==
  ASSUME TypeInv, TypeInv', TrackedLast, RecordsKept, BindingsKept,
         attached' = attached \/ attached' = attached + 1
  PROVE  TrackedLast'
<1> SUFFICES ASSUME attached' < Len(AttachList)
             PROVE  /\ \A k \in Key : ops'[k] = None
                    /\ \A t \in Thread : ptid_opk'[t] = None
  BY DEF TrackedLast, Known
<1>1. attached < Len(AttachList)
  BY AttachListLength DEF TypeInv, TypeOK
<1>2. \A k \in Key : ~Known(k)
  BY <1>1 DEF TrackedLast
<1>3. \A t \in Thread : ptid_opk[t] = None /\ ptid_opk'[t] \in Key \cup {None}
  BY <1>1 DEF TrackedLast, TypeInv, TypeOK
<1> QED
  BY <1>2, <1>3 DEF RecordsKept, BindingsKept

\* A step that leaves the records' charges, the threads' bindings and the
\* TransContexts' links alone, or drops them, keeps the invariant.
LEMMA Frame ==
  ASSUME IInv, TypeInv', RecordsKept, ReportsKept, BindingsKept, OwnersKept,
         attached' = attached \/ attached' = attached + 1,
         \A x \in Txc : ctx_opk'[x] \in {ctx_opk[x], None},
         BindingsOwn', QueueingOwns', FreeUnowned'
  PROVE  IInv'
<1>1. EntriesNamed' /\ EntriesOwn'
  BY EntriesStay DEF IInv
<1>2. ReportsOwn'
  BY ReportsStay, TypeParts DEF IInv
<1>3. LinksOwn'
  BY DEF IInv, LinksOwn, OwnersKept
<1>4. TrackedLast'
  BY TrackedStays DEF IInv
<1> QED
  BY <1>1, <1>2, <1>3, <1>4 DEF IInv

\* In particular one that changes nothing of the threads or TransContexts.
LEMMA QuietFrame ==
  ASSUME IInv, TypeInv', RecordsKept, ReportsKept,
         UNCHANGED <<ptid_opk, ctx_opk, worker, txc>>,
         attached' = attached \/ attached' = attached + 1
  PROVE  IInv'
<1>1. OwnersKept /\ BindingsKept
  BY DEF OwnersKept, BindingsKept
<1>2. BindingsOwn' /\ QueueingOwns' /\ FreeUnowned'
  BY DEF IInv, BindingsOwn, QueueingOwns, FreeUnowned
<1>3. \A x \in Txc : ctx_opk'[x] \in {ctx_opk[x], None}
  OBVIOUS
<1> QED
  BY <1>1, <1>2, <1>3, Frame

\* OSD::enqueue_op is live only when every other probe has had its turn.
LEMMA LastProbe ==
  ASSUME attached \in 0 .. Len(AttachList)
  PROVE  /\ Live("OSD::enqueue_op") => attached = Len(AttachList)
         /\ "BlueStore::_txc_calc_cost" \in Probes /\ attached = Len(AttachList)
              => Live("BlueStore::_txc_calc_cost")
<1>1. \A i \in 1 .. 14 : AttachList[i] # "OSD::enqueue_op"
  BY DEF AttachList, LaterProbes
<1>2. AttachList[10] = "BlueStore::_txc_calc_cost"
  BY DEF AttachList, LaterProbes
<1>3. Live("OSD::enqueue_op") => attached = Len(AttachList)
  <2> SUFFICES ASSUME NEW i \in 1 .. attached, AttachList[i] = "OSD::enqueue_op"
               PROVE  attached = 15
    BY AttachListLength DEF Live
  <2>1. i \notin 1 .. 14
    BY <1>1
  <2> QED
    BY <2>1, AttachListLength
<1>4. attached = Len(AttachList) => 10 \in 1 .. attached
  BY AttachListLength
<1> QED
  BY <1>2, <1>3, <1>4 DEF Live

LEMMA EnqueueOwn ==
  ASSUME IInv, TypeInv', NEW m \in Msg, EnqueueOp(m)
  PROVE  IInv'
<1> DEFINE k == KeyOf[m]
<1>0. ProbesTyped /\ k \in Key
  BY TypeParts, KeyTyped DEF IInv
<1>1. UNCHANGED <<ptid_opk, ctx_opk, rb, attached, worker, txc>>
  BY DEF EnqueueOp, Fires, uprobe_enqueue_op, probeVars, maps, ring
<1>2. CASE ops' = ops
  BY <1>0, <1>1, <1>2, SameKeeps, QuietFrame DEF ReportsKept
<1>3. CASE ops' # ops
  <2>1. Live("OSD::enqueue_op") /\ uprobe_enqueue_op(m)
    BY <1>3 DEF EnqueueOp, Fires, probeVars, maps
  <2>2. ops' = [ops EXCEPT ![k] = NewEntry(m)] \/ ops' = [ops EXCEPT ![k] = None]
    BY <1>3, <2>1 DEF uprobe_enqueue_op
  <2>3. CASE ops' = [ops EXCEPT ![k] = None]
    BY <1>0, <1>1, <2>3, UpdateKeeps, QuietFrame DEF ReportsKept
  <2>4. CASE ops' = [ops EXCEPT ![k] = NewEntry(m)]
    <3>1. /\ NewEntry(m).key = k /\ NewEntry(m).op_type = TypeOf[k]
          /\ \A s \in TxcStamps : NewEntry(m).stamp[s] = Unset
      BY DEF NewEntry, TypeOfMsg, TxcStamps, Stamps
    <3>2. EntriesNamed'
      BY <1>0, <2>4, <3>1 DEF IInv, EntriesNamed, Known, ProbesTyped
    <3>3. EntriesOwn'
      <4>1. OwnStamps(NewEntry(m))'
        BY <3>1 DEF OwnStamps
      <4>2. ASSUME NEW j \in Key, Known(j)' PROVE OwnStamps(ops[j])'
        <5>1. CASE j = k
          BY <1>0, <2>4, <3>1, <5>1 DEF OwnStamps, ProbesTyped
        <5>2. CASE j # k
          <6>1. ops'[j] = ops[j] /\ Known(j)
            BY <1>0, <2>4, <4>2, <5>2 DEF ProbesTyped, Known
          <6>2. OwnStamps(ops[j])
            BY <6>1 DEF IInv, EntriesOwn
          <6> QED
            BY <1>1, <6>1, <6>2 DEF OwnStamps
        <5> QED
          BY <5>1, <5>2
      <4> QED
        BY <4>2 DEF EntriesOwn
    <3>4. ReportsOwn'
      BY <1>1 DEF IInv, ReportsOwn, OwnStamps
    <3>5. BindingsOwn' /\ LinksOwn' /\ QueueingOwns' /\ FreeUnowned'
      BY <1>1 DEF IInv, BindingsOwn, LinksOwn, QueueingOwns, FreeUnowned
    <3>6. TrackedLast'
      <4>1. attached = Len(AttachList)
        BY <2>1, LastProbe DEF IInv, TypeInv, TypeOK
      <4> QED
        BY <1>1, <4>1, AttachListLength DEF TrackedLast
    <3> QED
      BY <3>2, <3>3, <3>4, <3>5, <3>6 DEF IInv
  <2> QED
    BY <2>2, <2>3, <2>4
<1> QED
  BY <1>2, <1>3

LEMMA RequestOwn ==
  ASSUME IInv, TypeInv', NEW m \in Msg, RequestStep(m)
  PROVE  IInv'
<1>0. ProbesTyped
  BY TypeParts DEF IInv
<1>1. CASE RequeueOp(m) \/ IntervalChange(m)
  BY <1>0, <1>1, SameKeeps, QuietFrame
     DEF RequeueOp, IntervalChange, probeVars, maps, ring, ReportsKept
<1>2. CASE CompleteWrite(m) \/ RepopCommit(m)
  <2>1. \/ UNCHANGED probeVars
        \/ uprobe_log_op_stats(m) \/ uprobe_repop_commit(m)
    BY <1>2 DEF CompleteWrite, RepopCommit, Fires
  <2>2. RecordsKept /\ ReportsKept /\ UNCHANGED <<ptid_opk, ctx_opk>>
    BY <1>0, <2>1, LogKeeps, SameKeeps DEF ReportsKept, probeVars, maps, ring
  <2> QED
    BY <1>2, <2>2, QuietFrame DEF CompleteWrite, RepopCommit
<1> QED
  BY <1>1, <1>2, EnqueueOwn DEF RequestStep

-----------------------------------------------------------------------------
(* Steps of a worker thread                                                *)

\* The thread t alone moves; if a client's request is bound to it afterwards,
\* it is the one the thread is queueing a transaction for.
LEMMA ThreadFrame ==
  ASSUME IInv, TypeInv', NEW t \in Thread,
         RecordsKept, ReportsKept, BindingsKept,
         UNCHANGED <<ctx_opk, txc, attached>>,
         \A u \in Thread \ {t} :
           ptid_opk'[u] = ptid_opk[u] /\ worker'[u] = worker[u],
         ptid_opk'[t] # None /\ TypeOf[ptid_opk'[t]] = "OSD_OP" =>
           /\ worker'[t].pc \in {"submitted", "queueing"}
           /\ worker'[t].msg \in Msg /\ KeyOf[worker'[t].msg] = ptid_opk'[t],
         worker'[t].pc = "queueing" =>
           /\ worker[t].pc = "queueing"
           /\ worker'[t].txc = worker[t].txc /\ worker'[t].msg = worker[t].msg
  PROVE  IInv'
<1>1. BindingsOwn'
  BY DEF IInv, BindingsOwn
<1>2. QueueingOwns'
  BY DEF IInv, QueueingOwns
<1>3. OwnersKept /\ FreeUnowned' /\ \A x \in Txc : ctx_opk'[x] \in {ctx_opk[x], None}
  BY DEF IInv, OwnersKept, FreeUnowned
<1> QED
  BY <1>1, <1>2, <1>3, Frame

\* A thread without a client's binding goes on to a point outside
\* queue_transactions, and keeps its binding.
LEMMA MoveFrame ==
  ASSUME IInv, TypeInv', NEW t \in Thread, NEW w,
         RecordsKept, ReportsKept,
         UNCHANGED <<ptid_opk, ctx_opk, txc, attached>>,
         worker[t].pc \notin {"submitted", "queueing"},
         worker' = [worker EXCEPT ![t] = w], w.pc # "queueing"
  PROVE  IInv'
<1>1. worker'[t] = w /\ \A u \in Thread \ {t} : worker'[u] = worker[u]
  BY DEF IInv, TypeInv, TypeOK
<1>2. BindingsKept
  BY DEF BindingsKept
<1>3. ~(ptid_opk[t] # None /\ TypeOf[ptid_opk[t]] = "OSD_OP")
  BY DEF IInv, BindingsOwn
<1> QED
  BY <1>1, <1>2, <1>3, ThreadFrame

LEMMA IdleFields == IdleWorker.pc = "idle"
BY DEF IdleWorker

LEMMA DequeueOwn ==
  ASSUME IInv, TypeInv', NEW t \in Thread, NEW m \in Msg, DequeueOp(t, m)
  PROVE  IInv'
<1> DEFINE w == [IdleWorker EXCEPT !.pc = "dequeued", !.msg = m]
<1>0. ProbesTyped /\ KeyOf[m] \in Key /\ worker[t].pc = "idle"
  BY TypeParts, KeyTyped DEF IInv, DequeueOp, Work
<1>1. w.pc = "dequeued"
  BY DEF IdleWorker
<1>2. worker' = [worker EXCEPT ![t] = w] /\ UNCHANGED <<txc, attached>>
  BY DEF DequeueOp
<1> HIDE DEF w
<1>3. worker'[t] = w /\ \A u \in Thread \ {t} : worker'[u] = worker[u]
  BY <1>2 DEF IInv, TypeInv, TypeOK
<1>4. CASE uprobe_dequeue_op(t, m)
  <2>1. RecordsKept /\ ReportsKept /\ ctx_opk' = ctx_opk
    BY <1>0, <1>4, DequeueKeeps DEF uprobe_dequeue_op, ReportsKept, ring
  <2>2. /\ ptid_opk' = [ptid_opk EXCEPT ![t] = ptid_opk'[t]]
        /\ \/ ptid_opk'[t] = None
           \/ /\ ptid_opk'[t] = KeyOf[m] /\ Known(KeyOf[m])
              /\ ops[KeyOf[m]].op_type = "OSD_REPOP"
    BY <1>0, <1>4 DEF uprobe_dequeue_op, BindsThread, ProbesTyped
  <2>3. BindingsKept
    BY <1>0, <2>2 DEF BindingsKept, ProbesTyped
  <2>4. ptid_opk'[t] # None => TypeOf[ptid_opk'[t]] = "OSD_REPOP"
    BY <1>0, <2>2 DEF IInv, EntriesNamed
  <2>5. \A u \in Thread \ {t} : ptid_opk'[u] = ptid_opk[u]
    BY <1>0, <2>2 DEF ProbesTyped
  <2> QED
    BY <1>1, <1>2, <1>3, <2>1, <2>3, <2>4, <2>5, ThreadFrame
<1>5. CASE UNCHANGED probeVars
  <2>1. RecordsKept /\ ReportsKept /\ UNCHANGED <<ptid_opk, ctx_opk>>
    BY <1>0, <1>5, SameKeeps DEF probeVars, maps, ring, ReportsKept
  <2> QED
    BY <1>0, <1>1, <1>2, <2>1, MoveFrame
<1> QED
  BY <1>4, <1>5 DEF DequeueOp, Fires

\* Steps of a thread with a request, before it queues a transaction.
LEMMA EarlyOwn ==
  ASSUME IInv, TypeInv', NEW t \in Thread, NEW m \in Msg,
         \/ DelayOp(t, m) \/ FinishUnlogged(t, m) \/ ExecuteCtx(t, m)
         \/ CompleteRead(t, m) \/ EcSubmitTransaction(t, m)
  PROVE  IInv'
<1>0. ProbesTyped /\ KeyOf[m] \in Key
  BY TypeParts, KeyTyped DEF IInv
<1>1. /\ worker[t].pc \in {"dequeued", "executed"}
      /\ UNCHANGED <<txc, attached>>
  BY DEF DelayOp, FinishUnlogged, ExecuteCtx, CompleteRead,
         EcSubmitTransaction, Work
<1>2. RecordsKept /\ ReportsKept /\ UNCHANGED <<ptid_opk, ctx_opk>>
  <2>1. \/ UNCHANGED probeVars \/ uprobe_mark_flag_point(m)
        \/ uprobe_execute_ctx(m) \/ uprobe_log_op_stats(m) \/ Forget(KeyOf[m])
    BY DEF DelayOp, FinishUnlogged, ExecuteCtx, CompleteRead,
           EcSubmitTransaction, Fires, uprobe_mark_flag_point_string,
           uprobe_ec_submit_transaction
  <2>2. CASE UNCHANGED probeVars
    BY <1>0, <2>2, SameKeeps DEF probeVars, maps, ring, ReportsKept
  <2>3. CASE uprobe_mark_flag_point(m)
    BY <1>0, <2>3, FlagPointKeeps DEF uprobe_mark_flag_point, ReportsKept, ring
  <2>4. CASE uprobe_execute_ctx(m)
    BY <1>0, <2>4, ExecuteKeeps DEF uprobe_execute_ctx, ReportsKept, ring
  <2>5. CASE uprobe_log_op_stats(m)
    BY <1>0, <2>5, LogKeeps DEF ReportsKept
  <2>6. CASE Forget(KeyOf[m])
    BY <1>0, <2>6, ForgetKeeps DEF Forget, ReportsKept, ring
  <2> QED
    BY <2>1, <2>2, <2>3, <2>4, <2>5, <2>6
<1>3. PICK w : worker' = [worker EXCEPT ![t] = w] /\ w.pc \in {"idle", "executed"}
  <2>1. CASE Release(t)
    BY <2>1, IdleFields DEF Release
  <2>2. CASE GoTo(t, "executed")
    <3> DEFINE v == [worker[t] EXCEPT !.pc = "executed"]
    <3>1. v.pc = "executed"
      BY DEF IInv, TypeInv, TypeOK
    <3>2. worker' = [worker EXCEPT ![t] = v]
      BY <2>2 DEF GoTo
    <3> HIDE DEF v
    <3> QED
      BY <3>1, <3>2
  <2> QED
    BY <2>1, <2>2 DEF DelayOp, FinishUnlogged, ExecuteCtx, CompleteRead,
                      EcSubmitTransaction
<1> QED
  BY <1>1, <1>2, <1>3, MoveFrame

LEMMA SubmitOwn ==
  ASSUME IInv, TypeInv', NEW t \in Thread, NEW m \in Msg, SubmitTransaction(t, m)
  PROVE  IInv'
<1>0. /\ ProbesTyped /\ KeyOf[m] \in Key
      /\ worker[t].pc = "executed" /\ worker[t].msg = m
  BY TypeParts, KeyTyped DEF IInv, SubmitTransaction, Work, Held
<1>1. /\ worker'[t].pc = "submitted" /\ worker'[t].msg = m
      /\ \A u \in Thread \ {t} : worker'[u] = worker[u]
  BY <1>0 DEF SubmitTransaction, GoTo, IInv, TypeInv, TypeOK
<1>2. UNCHANGED <<txc, attached>>
  BY DEF SubmitTransaction
<1>3. uprobe_submit_transaction(t, m) \/ UNCHANGED probeVars
  BY DEF SubmitTransaction, Fires
<1>6. RecordsKept /\ ReportsKept /\ ctx_opk' = ctx_opk
  <2>1. RecordsKept
    BY <1>0, <1>3, SubmitKeeps, SameKeeps DEF probeVars, maps
  <2> QED
    BY <1>3, <2>1 DEF uprobe_submit_transaction, ReportsKept, probeVars, maps, ring
<1>7. /\ \/ ptid_opk'[t] \in {ptid_opk[t], None}
         \/ ptid_opk'[t] = KeyOf[m] /\ Known(KeyOf[m])
      /\ \A u \in Thread \ {t} : ptid_opk'[u] = ptid_opk[u]
  <2>1. CASE uprobe_submit_transaction(t, m)
    <3>1. ptid_opk' \in {[ptid_opk EXCEPT ![t] = None], ptid_opk,
                         [ptid_opk EXCEPT ![t] = KeyOf[m]]}
      BY <2>1 DEF uprobe_submit_transaction
    <3>2. ptid_opk' = [ptid_opk EXCEPT ![t] = KeyOf[m]] =>
            Known(KeyOf[m]) \/ KeyOf[m] = None
      BY <1>0, <2>1 DEF uprobe_submit_transaction, ProbesTyped
    <3> QED
      BY <1>0, <3>1, <3>2 DEF ProbesTyped
  <2>2. CASE UNCHANGED probeVars
    BY <2>2 DEF probeVars, maps
  <2> QED
    BY <1>3, <2>1, <2>2
<1>4. BindingsKept
  BY <1>7 DEF BindingsKept
<1>5. ~(ptid_opk[t] # None /\ TypeOf[ptid_opk[t]] = "OSD_OP")
  BY <1>0 DEF IInv, BindingsOwn
<1> QED
  BY <1>1, <1>2, <1>4, <1>5, <1>6, <1>7, ThreadFrame

LEMMA PeerOwn ==
  ASSUME IInv, TypeInv', NEW t \in Thread, NEW m \in Msg, NEW p \in Peer,
         GenerateSubop(t, m, p) \/ PeerReply(t, m, p)
  PROVE  IInv'
<1>0. ProbesTyped
  BY TypeParts DEF IInv
<1>1. CASE GenerateSubop(t, m, p)
  <2>1. uprobe_generate_subop(m, p) \/ UNCHANGED probeVars
    BY <1>1 DEF GenerateSubop, Fires
  <2>2. RecordsKept /\ ReportsKept /\ UNCHANGED <<ptid_opk, ctx_opk>>
    BY <1>0, <2>1, PeerKeeps, SameKeeps
       DEF probeVars, maps, ring, ReportsKept, uprobe_generate_subop
  <2> QED
    BY <1>1, <2>2, QuietFrame DEF GenerateSubop
<1>2. CASE PeerReply(t, m, p)
  <2>1. /\ UNCHANGED <<ctx_opk, rb, worker, txc, attached>>
        /\ worker[t].pc = "idle"
        /\ \A u \in Thread \ {t} : ptid_opk'[u] = ptid_opk[u]
        /\ ptid_opk'[t] \in {None, ptid_opk[t]}
    BY <1>0, <1>2 DEF PeerReply, ring, Work, ProbesTyped
  <2>2. uprobe_do_repop_reply(m, p) \/ ops' = ops
    BY <1>2 DEF PeerReply
  <2>3. RecordsKept
    BY <1>0, <2>2, PeerKeeps, SameKeeps
  <2>4. BindingsKept /\ ReportsKept
    BY <2>1 DEF BindingsKept, ReportsKept
  <2>5. ~(ptid_opk[t] # None /\ TypeOf[ptid_opk[t]] = "OSD_OP")
    BY <2>1 DEF IInv, BindingsOwn
  <2> QED
    BY <2>1, <2>3, <2>4, <2>5, ThreadFrame
<1> QED
  BY <1>1, <1>2

-----------------------------------------------------------------------------
(* Steps that charge a record with a TransContext                          *)

LEMMA StampIsStampAll ==
  ASSUME NEW e \in OpV, NEW s \in Stamps, NEW w
  PROVE  Stamp(e, s, w) = StampAll(e, {s}, w)
BY DEF Stamp, StampAll, OpV

LEMMA StampAllCharge ==
  ASSUME NEW e \in OpV, NEW S, NEW w
  PROVE  LET f == StampAll(e, S, w) IN
           /\ f.key = e.key /\ f.op_type = e.op_type
           /\ \A s \in TxcStamps : f.stamp[s] \in {e.stamp[s], w}
BY StampsAre DEF StampAll, OpV

\* One record is charged with x, which must be its own if a client's.
LEMMA StampFrame ==
  ASSUME IInv, TypeInv', NEW k \in Key, NEW x \in Txc, NEW S, Known(k),
         ops' = [ops EXCEPT ![k] = StampAll(ops[k], S, x)],
         TypeOf[k] = "OSD_OP" => txc'[x].owner \in Msg /\ KeyOf[txc'[x].owner] = k,
         UNCHANGED <<rb, attached>>, OwnersKept, BindingsKept,
         \A y \in Txc : ctx_opk'[y] \in {ctx_opk[y], None},
         BindingsOwn', QueueingOwns', FreeUnowned'
  PROVE  IInv'
<1> DEFINE f == StampAll(ops[k], S, x)
<1>0. ProbesTyped /\ ops[k] \in OpV
  BY TypeParts, KnownTyped DEF IInv
<1>1. /\ f.key = k /\ f.op_type = TypeOf[k]
      /\ \A s \in TxcStamps : f.stamp[s] \in {ops[k].stamp[s], x}
  BY <1>0, StampAllCharge DEF IInv, EntriesNamed
<1> HIDE DEF f
<1>2. \A j \in Key : ops'[j] = IF j = k THEN f ELSE ops[j]
  BY <1>0 DEF ProbesTyped, f
<1>3. EntriesNamed'
  BY <1>1, <1>2 DEF IInv, EntriesNamed, Known
<1>4. ASSUME NEW j \in Key, Known(j)' PROVE OwnStamps(ops[j])'
  <2>1. CASE j = k
    <3>1. OwnStamps(ops[k])
      BY DEF IInv, EntriesOwn
    <3>2. ops[k].op_type = TypeOf[k] /\ ops[k].key = k
      BY DEF IInv, EntriesNamed
    <3> QED
      BY <1>1, <1>2, <2>1, <3>1, <3>2 DEF OwnStamps, OwnersKept
  <2>2. CASE j # k
    <3>1. ops'[j] = ops[j] /\ Known(j)
      BY <1>2, <1>4, <2>2 DEF Known
    <3>2. OwnStamps(ops[j])
      BY <3>1 DEF IInv, EntriesOwn
    <3> QED
      BY <3>1, <3>2 DEF OwnStamps, OwnersKept
  <2> QED
    BY <2>1, <2>2
<1>5. EntriesOwn'
  BY <1>4 DEF EntriesOwn
<1>6. ReportsOwn'
  BY <1>0, ReportsStay DEF IInv, ReportsKept
<1>7. LinksOwn'
  BY DEF IInv, LinksOwn, OwnersKept
<1>8. TrackedLast'
  BY DEF IInv, TrackedLast
<1> QED
  BY <1>3, <1>5, <1>6, <1>7, <1>8, <1>1 DEF IInv

\* The thread t starts a transaction of its own in x: for the request it
\* holds, or, when it holds none and so has no client's binding, for the pg.
StartsTxc(t, x, m, w) ==
  /\ \/ worker[t].pc = "submitted" /\ worker[t].msg = m
     \/ worker[t].pc \in {"idle", "dequeued"}
  /\ m \in Msg \cup {Background}
  /\ m = Background => worker[t].pc = "idle"
  /\ worker' = [worker EXCEPT ![t] = w]
  /\ w.pc = "queueing" /\ w.msg = m /\ w.txc = x
  /\ txc[x].state = "free" /\ txc' = [txc EXCEPT ![x] = [owner |-> m, state |-> "PREPARE"]]
  /\ uprobe_queue_transactions(t, x) \/ UNCHANGED probeVars
  /\ attached' = attached

LEMMA QueueOwn ==
  ASSUME IInv, TypeInv', NEW t \in Thread, NEW x \in Txc, NEW m, NEW w,
         StartsTxc(t, x, m, w)
  PROVE  IInv'
<1> DEFINE k == ptid_opk[t]
<1>0. ProbesTyped /\ k \in Key \cup {None}
  BY TypeParts DEF IInv, ProbesTyped
<1>1. /\ worker'[t].pc = "queueing" /\ worker'[t].msg = m /\ worker'[t].txc = x
      /\ \A u \in Thread \ {t} : worker'[u] = worker[u]
  BY DEF StartsTxc, IInv, TypeInv, TypeOK
<1>2. /\ txc'[x].owner = m /\ txc'[x].state = "PREPARE"
      /\ \A y \in Txc \ {x} : txc'[y] = txc[y]
      /\ txc[x].owner = None
  BY DEF StartsTxc, IInv, TypeInv, TypeOK, FreeUnowned
<1>12. None \notin Msg /\ m # None
  BY ConstantAssumption DEF StartsTxc, ConstantAssumption
<1>3. OwnersKept /\ FreeUnowned'
  BY <1>2, <1>12 DEF IInv, OwnersKept, FreeUnowned
<1>4. k # None /\ TypeOf[k] = "OSD_OP" => m \in Msg /\ KeyOf[m] = k
  BY DEF StartsTxc, IInv, BindingsOwn
<1>5. \/ UNCHANGED probeVars
      \/ /\ k # None /\ Known(k)
         /\ ops' = [ops EXCEPT ![k] = Stamp(ops[k], "queue_transaction", x)]
         /\ UNCHANGED <<ptid_opk, ctx_opk, ring>>
      \/ /\ ptid_opk' = [ptid_opk EXCEPT ![t] = None]
         /\ UNCHANGED <<ops, ctx_opk, ring>>
  BY DEF StartsTxc, uprobe_queue_transactions
<1>6. /\ ctx_opk' = ctx_opk /\ rb' = rb /\ attached' = attached
      /\ ptid_opk'[t] \in {k, None}
      /\ \A u \in Thread \ {t} : ptid_opk'[u] = ptid_opk[u]
  BY <1>0, <1>5 DEF StartsTxc, probeVars, maps, ring, ProbesTyped
<1>7. BindingsKept
  BY <1>6 DEF BindingsKept
<1>8. BindingsOwn'
  BY <1>1, <1>4, <1>6 DEF IInv, BindingsOwn
<1>9. QueueingOwns'
  <2> SUFFICES ASSUME NEW u \in Thread, worker'[u].pc = "queueing"
               PROVE  /\ worker'[u].msg # None
                      /\ txc'[worker'[u].txc].owner = worker'[u].msg
    BY DEF QueueingOwns
  <2>1. CASE u = t
    BY <1>1, <1>2, <1>12, <2>1
  <2>2. CASE u # t
    <3>1. /\ worker'[u] = worker[u] /\ worker[u].msg # None
          /\ txc[worker[u].txc].owner = worker[u].msg
      BY <1>1, <2>2 DEF IInv, QueueingOwns
    <3>2. worker[u].txc \in Txc
      BY <3>1 DEF IInv, TypeInv, QueueingHasTxc
    <3> QED
      BY <1>2, <3>1, <3>2
  <2> QED
    BY <2>1, <2>2
<1>10. CASE ops' = ops
  BY <1>0, <1>3, <1>6, <1>7, <1>8, <1>9, <1>10, SameKeeps, Frame DEF ReportsKept
<1>11. CASE k # None /\ Known(k)
            /\ ops' = [ops EXCEPT ![k] = Stamp(ops[k], "queue_transaction", x)]
  <2>1. k \in Key /\ ops[k] \in OpV
    BY <1>0, <1>11, KnownTyped
  <2>2. ops' = [ops EXCEPT ![k] = StampAll(ops[k], {"queue_transaction"}, x)]
    BY <1>11, <2>1, StampIsStampAll DEF Stamps
  <2>3. TypeOf[k] = "OSD_OP" => txc'[x].owner \in Msg /\ KeyOf[txc'[x].owner] = k
    BY <1>2, <1>4, <1>11
  <2> HIDE DEF k
  <2> QED
    BY <1>3, <1>6, <1>7, <1>8, <1>9, <1>11, <2>1, <2>2, <2>3, StampFrame
<1> QED
  BY <1>5, <1>10, <1>11 DEF probeVars, maps

LEMMA ThreadOwn ==
  ASSUME IInv, TypeInv', NEW t \in Thread, NEW m \in Msg, ThreadStep(t, m)
  PROVE  IInv'
<1>1. CASE \E x \in Txc, n \in 1 .. MaxTxns : QueueTransactions(t, m, x, n)
  <2> PICK x \in Txc, n \in 1 .. MaxTxns : QueueTransactions(t, m, x, n)
    BY <1>1
  <2> DEFINE w == [pc |-> "queueing", msg |-> m, txc |-> x, txns |-> n]
  <2>1. w.pc = "queueing" /\ w.msg = m /\ w.txc = x /\ m # Background
    BY ConstantAssumption DEF ConstantAssumption
  <2>2. worker' = [worker EXCEPT ![t] = w]
    BY DEF QueueTransactions
  <2> HIDE DEF w
  <2>3. StartsTxc(t, x, m, w)
    BY <2>1, <2>2 DEF StartsTxc, QueueTransactions, Work, Held, Fires
  <2> QED
    BY <2>3, QueueOwn
<1>2. CASE \/ DelayOp(t, m) \/ FinishUnlogged(t, m) \/ ExecuteCtx(t, m)
           \/ CompleteRead(t, m) \/ EcSubmitTransaction(t, m)
  BY <1>2, EarlyOwn
<1>3. CASE \E p \in Peer : GenerateSubop(t, m, p) \/ PeerReply(t, m, p)
  BY <1>3, PeerOwn
<1> QED
  BY <1>1, <1>2, <1>3, DequeueOwn, SubmitOwn DEF ThreadStep

\* BlueStore::_txc_calc_cost hands its thread's request over to the
\* TransContext; were it not attached, the thread would keep the request.
LEMMA CalcCostOwn ==
  ASSUME IInv, TypeInv', NEW t \in Thread, CalcCost(t),
         "BlueStore::_txc_calc_cost" \in Probes
  PROVE  IInv'
<1> DEFINE k == ptid_opk[t]
           x == worker[t].txc
<1>0. ProbesTyped /\ k \in Key \cup {None} /\ worker[t].pc = "queueing"
  BY TypeParts DEF IInv, ProbesTyped, CalcCost, Work
<1>1. x \in Txc /\ txc[x].owner = worker[t].msg
  BY <1>0 DEF IInv, TypeInv, QueueingHasTxc, QueueingOwns
<1>2. /\ worker'[t].pc = "costed"
      /\ \A u \in Thread \ {t} : worker'[u] = worker[u]
  BY DEF CalcCost, GoTo, IInv, TypeInv, TypeOK
<1>3. UNCHANGED <<txc, attached>>
  BY DEF CalcCost
<1>4. \/ uprobe_txc_calc_cost(t, x)
      \/ k = None /\ UNCHANGED probeVars
  <2>1. CASE Live("BlueStore::_txc_calc_cost")
    BY <2>1 DEF CalcCost, Fires
  <2>2. CASE ~Live("BlueStore::_txc_calc_cost")
    <3>1. attached < Len(AttachList)
      BY <2>2, LastProbe, AttachListLength DEF IInv, TypeInv, TypeOK
    <3>2. k = None
      BY <3>1 DEF IInv, TrackedLast
    <3>3. UNCHANGED probeVars
      BY <2>2 DEF CalcCost, Fires
    <3> QED
      BY <3>2, <3>3
  <2> QED
    BY <2>1, <2>2
<1>5. /\ ops' = ops /\ rb' = rb
      /\ ptid_opk'[t] = None
      /\ \A u \in Thread \ {t} : ptid_opk'[u] = ptid_opk[u]
      /\ \/ ctx_opk' = ctx_opk
         \/ k # None /\ ctx_opk' = [ctx_opk EXCEPT ![x] = k]
  BY <1>0, <1>4 DEF uprobe_txc_calc_cost, probeVars, maps, ring, ProbesTyped
<1>6. OwnersKept /\ BindingsKept /\ RecordsKept /\ ReportsKept
  BY <1>0, <1>3, <1>5, SameKeeps DEF OwnersKept, BindingsKept, ReportsKept
<1>7. EntriesNamed' /\ EntriesOwn' /\ ReportsOwn' /\ TrackedLast'
  BY <1>0, <1>3, <1>6, EntriesStay, ReportsStay, TrackedStays DEF IInv
<1>8. BindingsOwn'
  BY <1>2, <1>5 DEF IInv, BindingsOwn
<1>9. LinksOwn'
  <2>1. k # None /\ TypeOf[k] = "OSD_OP" =>
          txc[x].owner \in Msg /\ KeyOf[txc[x].owner] = k
    BY <1>1 DEF IInv, BindingsOwn
  <2>2. \A y \in Txc : ctx_opk'[y] = ctx_opk[y] \/ (y = x /\ k # None /\ ctx_opk'[y] = k)
    BY <1>0, <1>5 DEF ProbesTyped
  <2> QED
    BY <1>3, <2>1, <2>2 DEF IInv, LinksOwn
<1>10. QueueingOwns' /\ FreeUnowned'
  BY <1>2, <1>3 DEF IInv, QueueingOwns, FreeUnowned
<1> QED
  BY <1>7, <1>8, <1>9, <1>10 DEF IInv

\* BlueStore::_txc_state_proc charges the request x is linked to.
LEMMA StateProcOwn ==
  ASSUME IInv, TypeInv', NEW x \in Txc, NEW s, NEW pending, NEW next,
         StateProc(x, s, pending, next), next # "free", attached' = attached,
         \A t \in Thread : \/ worker'[t] = worker[t]
                           \/ worker[t].pc = "costed" /\ worker'[t].pc = "idle"
  PROVE  IInv'
<1> DEFINE k == ctx_opk[x]
           S == StateStamps(s, pending)
<1>0. ProbesTyped /\ k \in Key \cup {None}
  BY TypeParts DEF IInv, ProbesTyped
<1>1. /\ txc'[x].owner = txc[x].owner /\ txc'[x].state # "free"
      /\ \A y \in Txc \ {x} : txc'[y] = txc[y]
  BY DEF StateProc, IInv, TypeInv, TypeOK
<1>2. \/ UNCHANGED probeVars
      \/ uprobe_txc_state_proc(x, s, pending)
  BY DEF StateProc, Fires
<1>3. /\ rb' = rb /\ ptid_opk' = ptid_opk
      /\ \/ ops' = ops
         \/ /\ k # None /\ Known(k)
            /\ ops' = [ops EXCEPT ![k] = StampAll(ops[k], S, x)]
      /\ ctx_opk' = ctx_opk \/ ctx_opk' = [ctx_opk EXCEPT ![x] = None]
  BY <1>2 DEF uprobe_txc_state_proc, probeVars, maps, ring
<1>4. OwnersKept /\ BindingsKept /\ ReportsKept
  BY <1>1, <1>3 DEF OwnersKept, BindingsKept, ReportsKept
<1>5. \A y \in Txc : ctx_opk'[y] \in {ctx_opk[y], None}
  BY <1>0, <1>3 DEF ProbesTyped
<1>6. BindingsOwn'
  BY <1>3 DEF IInv, BindingsOwn
<1>7. QueueingOwns'
  <2> SUFFICES ASSUME NEW t \in Thread, worker'[t].pc = "queueing"
               PROVE  /\ worker'[t].msg # None
                      /\ txc'[worker'[t].txc].owner = worker'[t].msg
    BY DEF QueueingOwns
  <2>1. /\ worker'[t] = worker[t] /\ worker[t].msg # None
        /\ txc[worker[t].txc].owner = worker[t].msg
    BY DEF IInv, QueueingOwns
  <2>2. worker[t].txc \in Txc
    BY <2>1 DEF IInv, TypeInv, QueueingHasTxc
  <2> QED
    BY <1>1, <2>1, <2>2
<1>8. FreeUnowned'
  BY <1>1 DEF IInv, FreeUnowned
<1>9. CASE ops' = ops
  BY <1>0, <1>4, <1>5, <1>6, <1>7, <1>8, <1>9, SameKeeps, Frame
<1>10. CASE /\ k # None /\ Known(k)
            /\ ops' = [ops EXCEPT ![k] = StampAll(ops[k], S, x)]
  <2>1. k \in Key
    BY <1>0, <1>10
  <2>2. TypeOf[k] = "OSD_OP" => txc'[x].owner \in Msg /\ KeyOf[txc'[x].owner] = k
    BY <1>1, <1>10 DEF IInv, LinksOwn
  <2> HIDE DEF k, S
  <2> QED
    BY <1>3, <1>4, <1>5, <1>6, <1>7, <1>8, <1>10, <2>1, <2>2, StampFrame
<1> QED
  BY <1>3, <1>9, <1>10

LEMMA StoreOwn ==
  ASSUME IInv, TypeInv', NEW t \in Thread, StoreStep(t),
         "BlueStore::_txc_calc_cost" \in Probes
  PROVE  IInv'
<1>0. ProbesTyped
  BY TypeParts DEF IInv
<1>1. CASE \E x \in Txc, n \in 1 .. MaxTxns : QueuePgWork(t, x, n)
  <2> PICK x \in Txc, n \in 1 .. MaxTxns : QueuePgWork(t, x, n)
    BY <1>1
  <2> DEFINE w == [pc |-> "queueing", msg |-> Background, txc |-> x, txns |-> n]
  <2>1. w.pc = "queueing" /\ w.msg = Background /\ w.txc = x
    OBVIOUS
  <2>2. worker' = [worker EXCEPT ![t] = w]
    BY DEF QueuePgWork
  <2> HIDE DEF w
  <2>3. StartsTxc(t, x, Background, w)
    BY <2>1, <2>2 DEF StartsTxc, QueuePgWork, Work, Fires
  <2> QED
    BY <2>3, QueueOwn
<1>2. CASE \E n \in TxnOps, buffers \in 1 .. 2 : AddTransaction(t, n, buffers)
  <2> PICK n \in TxnOps, buffers \in 1 .. 2 : AddTransaction(t, n, buffers)
    BY <1>2
  <2>1. n \in Nat /\ buffers \in Nat
    BY ConstantAssumption DEF ConstantAssumption
  <2>2. /\ worker[t].pc = "queueing"
        /\ worker'[t].pc = worker[t].pc /\ worker'[t].msg = worker[t].msg
        /\ worker'[t].txc = worker[t].txc
        /\ \A u \in Thread \ {t} : worker'[u] = worker[u]
        /\ UNCHANGED <<txc, attached>>
    BY DEF AddTransaction, Work, IInv, TypeInv, TypeOK
  <2>3. uprobe_txc_add_transaction(t, n, buffers) \/ UNCHANGED probeVars
    BY DEF AddTransaction, Fires
  <2>4. RecordsKept /\ ReportsKept /\ UNCHANGED <<ptid_opk, ctx_opk>>
    BY <1>0, <2>1, <2>3, AddTransactionKeeps, SameKeeps
       DEF uprobe_txc_add_transaction, ReportsKept, probeVars, maps, ring
  <2>5. BindingsKept
    BY <2>4 DEF BindingsKept
  <2>6. ptid_opk[t] # None /\ TypeOf[ptid_opk[t]] = "OSD_OP" =>
          worker[t].msg \in Msg /\ KeyOf[worker[t].msg] = ptid_opk[t]
    BY DEF IInv, BindingsOwn
  <2> QED
    BY <2>2, <2>4, <2>5, <2>6, ThreadFrame
<1>3. CASE \E pending \in 0 .. 1 : PrepareTxc(t, pending)
  <2> PICK pending \in 0 .. 1 : PrepareTxc(t, pending)
    BY <1>3
  <2> DEFINE x == worker[t].txc
             next == IF pending = 0 THEN "IO_DONE" ELSE "AIO_WAIT"
  <2>1. worker[t].pc = "costed" /\ x \in Txc
    BY DEF PrepareTxc, Work, IInv, TypeInv, QueueingHasTxc
  <2>2. next # "free" /\ StateProc(x, "PREPARE", pending, next) /\ attached' = attached
    BY DEF PrepareTxc
  <2>3. \A u \in Thread : \/ worker'[u] = worker[u]
                          \/ worker[u].pc = "costed" /\ worker'[u].pc = "idle"
    BY <2>1, IdleFields DEF PrepareTxc, Release, IInv, TypeInv, TypeOK
  <2> HIDE DEF x, next
  <2> QED
    BY <2>1, <2>2, <2>3, StateProcOwn
<1> QED
  BY <1>1, <1>2, <1>3, CalcCostOwn DEF StoreStep

LEMMA OtherOwn ==
  ASSUME IInv, TypeInv',
         \/ \E x \in Txc : TxcStep(x)
         \/ \E k \in Key : AgePasses(k)
         \/ AttachNext \/ Consume \/ EvictStep
  PROVE  IInv'
<1>0. ProbesTyped
  BY TypeParts DEF IInv
<1>1. CASE \E x \in Txc : TxcStep(x)
  <2> PICK x \in Txc : TxcStep(x)
    BY <1>1
  <2>1. UNCHANGED <<worker, attached>>
    BY DEF TxcStep, AioDone, IoDone, KvSubmitted
  <2>2. \/ StateProc(x, "AIO_WAIT", 1, "IO_DONE")
        \/ StateProc(x, "IO_DONE", 0, "KV_SUBMITTED")
        \/ StateProc(x, "KV_SUBMITTED", 0, "FINISHED")
    BY DEF TxcStep, AioDone, IoDone, KvSubmitted
  <2> QED
    BY <2>1, <2>2, StateProcOwn
<1>2. CASE \E k \in Key : AgePasses(k)
  <2> PICK k \in Key : AgePasses(k)
    BY <1>2
  <2>1. ops[k] \in OpV /\ Known(k)
    BY <1>0, KnownTyped DEF AgePasses
  <2>2. ops' = [ops EXCEPT ![k] = [ops[k] EXCEPT !.aged = TRUE]]
    BY DEF AgePasses
  <2>3. RecordsKept
    BY <1>0, <2>1, <2>2, OtherCharge, UpdateKeeps
  <2> QED
    BY <2>3, QuietFrame DEF AgePasses, ReportsKept, ring, osd
<1>3. CASE AttachNext
  BY <1>0, <1>3, SameKeeps, QuietFrame
     DEF AttachNext, probeVars, maps, ring, osd, ReportsKept
<1>4. CASE Consume
  BY <1>0, <1>4, SameKeeps, QuietFrame DEF Consume, maps, osd, ReportsKept
<1>5. CASE EvictStep
  <2>1. CASE \E k \in Key : EvictOp(k)
    <3>1. RecordsKept
      BY <1>0, <2>1, UpdateKeeps DEF EvictOp
    <3> QED
      BY <2>1, <3>1, QuietFrame DEF EvictOp, ring, osd, ReportsKept
  <2>2. CASE \/ \E t \in Thread : EvictThread(t)
             \/ \E x \in Txc : EvictTxc(x)
    <3>1. /\ UNCHANGED <<ops, rb, worker, txc, attached>>
          /\ \A u \in Thread : ptid_opk'[u] \in {ptid_opk[u], None}
          /\ \A x \in Txc : ctx_opk'[x] \in {ctx_opk[x], None}
      BY <1>0, <2>2 DEF EvictThread, EvictTxc, ring, osd, ProbesTyped
    <3>2. RecordsKept /\ ReportsKept /\ BindingsKept /\ OwnersKept
      BY <1>0, <3>1, SameKeeps DEF ReportsKept, BindingsKept, OwnersKept
    <3>3. BindingsOwn' /\ QueueingOwns' /\ FreeUnowned'
      BY <3>1 DEF IInv, BindingsOwn, QueueingOwns, FreeUnowned
    <3> QED
      BY <3>1, <3>2, <3>3, Frame
  <2> QED
    BY <1>5, <2>1, <2>2 DEF EvictStep
<1> QED
  BY <1>1, <1>2, <1>3, <1>4, <1>5

LEMMA StutterOwn ==
  ASSUME IInv, TypeInv', UNCHANGED vars
  PROVE  IInv'
<1>1. ProbesTyped
  BY TypeParts DEF IInv
<1>2. RecordsKept
  BY <1>1, SameKeeps DEF vars, probeVars, maps
<1> QED
  BY <1>2, QuietFrame DEF vars, probeVars, maps, ring, osd, ReportsKept

-----------------------------------------------------------------------------
(* Attribution: the theorem                                                *)

LEMMA InitOwn == Init => IInv
<1> SUFFICES ASSUME Init PROVE IInv
  OBVIOUS
<1>1. TypeInv
  BY InitTyped
<1>2. EntriesNamed /\ EntriesOwn
  BY DEF Init, EntriesNamed, EntriesOwn, Known
<1>3. ReportsOwn
  BY DEF Init, ReportsOwn
<1>4. BindingsOwn /\ LinksOwn /\ QueueingOwns /\ FreeUnowned
  BY DEF Init, BindingsOwn, LinksOwn, QueueingOwns, FreeUnowned, IdleWorker
<1>5. TrackedLast
  BY DEF Init, TrackedLast, Known
<1> QED
  BY <1>1, <1>2, <1>3, <1>4, <1>5 DEF IInv

LEMMA StepOwn ==
  ASSUME "BlueStore::_txc_calc_cost" \in Probes
  PROVE  IInv /\ [Next]_vars => IInv'
<1> SUFFICES ASSUME IInv, [Next]_vars PROVE IInv'
  OBVIOUS
<1>1. TypeInv'
  BY TypeStep DEF IInv
<1> QED
  BY <1>1, RequestOwn, ThreadOwn, StoreOwn, OtherOwn, StutterOwn DEF Next

LEMMA OwnIsAttribution == IInv => ClientAttribution
<1> SUFFICES ASSUME IInv, NEW e \in TrackedEntries \cup Submitted, NEW s \in TxcStamps,
                    e.op_type = "OSD_OP", e.stamp[s] # Unset
             PROVE  txc[e.stamp[s]].owner \in Msg /\ KeyOf[txc[e.stamp[s]].owner] = e.key
  BY DEF ClientAttribution, ChargedWithOwn
<1>1. OwnStamps(e)
  BY DEF TrackedEntries, Submitted, IInv, EntriesOwn, ReportsOwn
<1> QED
  BY <1>1 DEF OwnStamps

\* A client request is only ever charged with BlueStore transactions queued
\* on its own behalf, for any number of threads, requests, resends and
\* TransContexts, evictions and late attachment included, provided the probe
\* on BlueStore::_txc_calc_cost, which ends a thread's binding, could be
\* attached.
THEOREM ClientAttributionHolds ==
  ASSUME "BlueStore::_txc_calc_cost" \in Probes
  PROVE  Spec => []ClientAttribution
<1>1. Init => IInv
  BY InitOwn
<1>2. IInv /\ [Next]_vars => IInv'
  BY StepOwn
<1>3. IInv => ClientAttribution
  BY OwnIsAttribution
<1> QED
  BY <1>1, <1>2, <1>3, PTL DEF Spec

=============================================================================
