--------------------------- MODULE OsdStagesProofs ---------------------------
(***************************************************************************)
(* Proofs about OsdProbes when nothing disturbs the tracer: every function *)
(* probed, every field readable, no eviction and no record so old that it  *)
(* is taken for an orphan.  Then the stages of every report are complete   *)
(* (ReportsAreComplete), those of BlueStore are of one TransContext        *)
(* (OneTransactionPerReport), links end with it (LinksReleased), and the   *)
(* report of a replicated write times its replicas (LastPeerTimed).        *)
(***************************************************************************)
EXTENDS OsdReportsProofs

Undisturbed ==
  /\ Rows \subseteq Probes /\ Unread = {}
  /\ ~Evicts /\ ~MayAge

\* A message that begins a record finds no other of its key half-way: each key
\* is of one message, or tracing began first and a message is resent once, an
\* erasure-coded write never.
OneEach == \A m, n \in Msg : KeyOf[m] = KeyOf[n] => m = n
TwoEach ==
  \A l, m, n \in Msg : KeyOf[l] = KeyOf[m] /\ KeyOf[m] = KeyOf[n] => l = m \/ l = n \/ m = n
StartsClean == EcOnce /\ (OneEach \/ (~AttachLate /\ TwoEach))

\* A replica's request whose thread is given other work while it waits is not
\* taken up again: the run replica_delayed shows what would happen to it.
ReplicaCalm ==
  \/ PgTxc = {}
  \/ /\ MaxRequeues = 0
     /\ \A m, n \in Msg : KeyOf[m] = KeyOf[n] /\ TypeOfMsg(m) = "OSD_REPOP" => m = n

Calm == Undisturbed /\ AlikeByKey /\ StartsClean /\ ReplicaCalm

-----------------------------------------------------------------------------
(* What a handler does to the stamps                                       *)

\* f is e with the stamps S written by w.
StampedBy(e, f, S, w) ==
  /\ f.op_type = e.op_type /\ f.aged = e.aged
  /\ \A s \in Stamps : f.stamp[s] = IF s \in S THEN w ELSE e.stamp[s]

Writes(k, S, w) ==
  /\ Known(k) /\ ops'[k] # None /\ StampedBy(ops[k], ops'[k], S, w)
  /\ \A j \in Key \ {k} : ops'[j] = ops[j]

SameStages(j) ==
  /\ ops'[j] # None <=> Known(j)
  /\ Known(j) => StampedBy(ops[j], ops'[j], {}, Unset)

NoWrites == \A j \in Key : SameStages(j)

Removes(k) == ops'[k] = None /\ \A j \in Key \ {k} : ops'[j] = ops[j]

BaseInv == RecordInv /\ OsdInv /\ IInv

LEMMA BaseFacts ==
  ASSUME BaseInv
  PROVE  /\ ProbesTyped /\ TypeInv
         /\ ops \in [Key -> OpV \cup {None}]
         /\ ptid_opk \in [Thread -> Key \cup {None}]
         /\ ctx_opk \in [Txc -> Key \cup {None}]
         /\ worker \in [Thread -> WorkerRecord]
         /\ stage \in [Msg -> Stages]
         /\ txc \in [Txc -> [owner : Msg \cup {Background, None}, state : TxcStates]]
         /\ \A t \in Thread : Storing(t) => worker[t].txc \in Txc
         /\ \A k \in Key : Known(k) => ops[k] \in OpV
         /\ \A k \in Key : Known(k) => ops[k].op_type = TypeOf[k]
BY TypeParts, OsdFacts, KnownTyped DEF BaseInv, RecordInv, ProbesTyped, EntriesNamed

\* No record is tracked and no thread bound, or every probe is live.
LEMMA LiveOrIdle ==
  ASSUME Undisturbed, BaseInv
  PROVE  \/ \A f \in Rows : Live(f)
         \/ /\ \A k \in Key : ~Known(k)
            /\ \A t \in Thread : ptid_opk[t] = None
<1>1. attached \in 0 .. Len(AttachList)
  BY BaseFacts DEF TypeInv, TypeOK
<1>2. CASE attached = Len(AttachList)
  BY <1>2 DEF Live, Rows, Undisturbed
<1>3. CASE attached < Len(AttachList)
  BY <1>3 DEF BaseInv, IInv, TrackedLast
<1> QED
  BY <1>1, <1>2, <1>3, AttachListLength

LEMMA ReadsAll ==
  ASSUME Undisturbed
  PROVE  \A field : CanRead(field)
BY DEF Undisturbed, CanRead

LEMMA WriteOne ==
  ASSUME BaseInv, NEW k \in Key, Known(k), NEW S, NEW w, NEW f \in OpV,
         ops' = [ops EXCEPT ![k] = f], StampedBy(ops[k], f, S, w)
  PROVE  Writes(k, S, w)
<1>1. f # None
  BY ConstantAssumption DEF ConstantAssumption
<1>2. ops'[k] = f /\ \A j \in Key \ {k} : ops'[j] = ops[j]
  BY BaseFacts
<1> QED
  BY <1>1, <1>2 DEF Writes

LEMMA WriteNone ==
  ASSUME BaseInv, NEW k \in Key, Known(k), NEW f \in OpV,
         ops' = [ops EXCEPT ![k] = f], StampedBy(ops[k], f, {}, Unset)
  PROVE  NoWrites
<1>1. f # None
  BY ConstantAssumption DEF ConstantAssumption
<1>2. ops'[k] = f /\ \A j \in Key \ {k} : ops'[j] = ops[j]
  BY BaseFacts
<1>3. ASSUME NEW j \in Key PROVE SameStages(j)
  BY <1>1, <1>2 DEF SameStages, StampedBy, Known
<1> QED
  BY <1>3 DEF NoWrites

LEMMA WriteSame ==
  ASSUME ops' = ops
  PROVE  NoWrites
BY DEF NoWrites, SameStages, StampedBy, Known

LEMMA RemoveOne ==
  ASSUME BaseInv, NEW k \in Key, ops' = [ops EXCEPT ![k] = None]
  PROVE  Removes(k)
BY BaseFacts DEF Removes

LEMMA StampIs ==
  ASSUME NEW e \in OpV, NEW s \in Stamps, NEW w \in Writer \cup {Unset}
  PROVE  Stamp(e, s, w) \in OpV /\ StampedBy(e, Stamp(e, s, w), {s}, w)
BY StampTyped DEF StampedBy, Stamp, OpV

LEMMA StampFirstIs ==
  ASSUME NEW e \in OpV, NEW s \in Stamps, NEW w \in Writer
  PROVE  /\ StampFirst(e, s, w) \in OpV
         /\ StampedBy(e, StampFirst(e, s, w), IF IsUnset(e, s) THEN {s} ELSE {}, w)
<1>1. CASE IsUnset(e, s)
  BY <1>1, StampIs DEF StampFirst
<1>2. CASE ~IsUnset(e, s)
  BY <1>2 DEF StampFirst, StampedBy
<1> QED
  BY <1>1, <1>2

LEMMA StampAllIs ==
  ASSUME NEW e \in OpV, NEW S, NEW w \in Writer \cup {Unset}
  PROVE  StampAll(e, S, w) \in OpV /\ StampedBy(e, StampAll(e, S, w), S, w)
BY StampAllTyped DEF StampedBy, StampAll, OpV

LEMMA PayloadIs ==
  ASSUME NEW e \in OpV
  PROVE  /\ \A p \in Peer : StampedBy(e, [TakeSlot(e, p) EXCEPT !.sent = p], {}, Unset)
         /\ \A p : StampedBy(e, [e EXCEPT !.recv1 = p], {}, Unset)
         /\ \A p : StampedBy(e, [e EXCEPT !.recv2 = p], {}, Unset)
         /\ StampedBy(e, [e EXCEPT !.delays = @ + 1], {}, Unset)
         /\ \A n : StampedBy(e, CountOps(e, n), {}, Unset)
         /\ \A n : StampedBy(e, [CountOps(e, n) EXCEPT !.captured = 0, !.unavailable = TRUE], {}, Unset)
         /\ \A n : StampedBy(e, [CountOps(e, n) EXCEPT !.captured = AtMost(@ + n, MAX_DETAIL_OPS)], {}, Unset)
BY DEF StampedBy, TakeSlot, CountOps, OpV

-----------------------------------------------------------------------------
(* What the handlers do when nothing disturbs them                         *)

KeepsPtid == ptid_opk' = ptid_opk
KeepsCtx == ctx_opk' = ctx_opk

LEMMA EnqueueEffect ==
  ASSUME Undisturbed, BaseInv, NEW m \in Msg, EnqueueOp(m),
         \A k \in Key : Known(k) => ~ops[k].aged
  PROVE  LET k == KeyOf[m] IN
         /\ KeepsPtid /\ KeepsCtx
         /\ \/ ops' = ops
            \/ TypeOf[k] \in Tracked /\ ~Known(k) /\ ops' = [ops EXCEPT ![k] = NewEntry(m)]
         /\ attached = Len(AttachList) /\ TypeOf[k] \in Tracked => ops'[k] # None
<1> DEFINE k == KeyOf[m]
<1>0. k \in Key /\ NewEntry(m) \in OpV /\ None \notin OpV
  BY KeyTyped, NewEntryTyped, ConstantAssumption DEF ConstantAssumption
<1>1. attached = Len(AttachList) => Live("OSD::enqueue_op")
  BY RowsAre DEF Live, Rows, Undisturbed
<1>2. CASE Live("OSD::enqueue_op")
  <2>1. uprobe_enqueue_op(m)
    BY <1>2 DEF EnqueueOp, Fires
  <2>2. IsRetry(k) <=> Known(k)
    BY <1>0 DEF IsRetry
  <2> QED
    BY <1>0, <2>1, <2>2, ReadsAll, BaseFacts
       DEF uprobe_enqueue_op, KeepsPtid, KeepsCtx, Known
<1>3. CASE ~Live("OSD::enqueue_op")
  BY <1>1, <1>3 DEF EnqueueOp, Fires, probeVars, maps, KeepsPtid, KeepsCtx
<1> QED
  BY <1>2, <1>3

LEMMA DequeueEffect ==
  ASSUME Undisturbed, BaseInv, NEW t \in Thread, NEW m \in Msg, DequeueOp(t, m)
  PROVE  LET k == KeyOf[m] IN
         /\ KeepsCtx
         /\ IF TypeOf[k] \in Tracked /\ Known(k)
              THEN Writes(k, IF IsUnset(ops[k], "dequeue") THEN {"dequeue"} ELSE {}, Turn(m))
              ELSE ops' = ops
         /\ ptid_opk' = [ptid_opk EXCEPT ![t] =
              IF TypeOf[k] = "OSD_REPOP" /\ Known(k) /\ IsUnset(ops[k], "queue_transaction")
                THEN k ELSE None]
<1> DEFINE k == KeyOf[m]
<1>0. k \in Key /\ Turn(m) \in Writer
  BY KeyTyped, BaseFacts, TurnTyped DEF TypeInv, TypeOK
<1>1. CASE \A f \in Rows : Live(f)
  <2>1. uprobe_dequeue_op(t, m)
    BY <1>1, RowsAre DEF DequeueOp, Fires
  <2>2. Known(k) => BindsThread(ops[k]) = (TypeOf[k] = "OSD_REPOP" /\ IsUnset(ops[k], "queue_transaction"))
    BY <1>0, BaseFacts DEF BindsThread
  <2>3. Known(k) => ops[k] \in OpV
    BY <1>0, BaseFacts
  <2>4. Known(k) => /\ StampFirst(ops[k], "dequeue", Turn(m)) \in OpV
                    /\ StampedBy(ops[k], StampFirst(ops[k], "dequeue", Turn(m)),
                                 IF IsUnset(ops[k], "dequeue") THEN {"dequeue"} ELSE {}, Turn(m))
    BY <1>0, <2>3, StampFirstIs DEF Stamps
  <2>5. "OSD_REPOP" \in Tracked
    BY DEF Tracked
  <2>6. TypeOf[k] \in Tracked /\ Known(k) =>
          Writes(k, IF IsUnset(ops[k], "dequeue") THEN {"dequeue"} ELSE {}, Turn(m))
    BY <1>0, <2>1, <2>4, ReadsAll, WriteOne DEF uprobe_dequeue_op
  <2>7. ~(TypeOf[k] \in Tracked /\ Known(k)) => ops' = ops
    BY <2>1, ReadsAll DEF uprobe_dequeue_op
  <2>8. ctx_opk' = ctx_opk /\ ptid_opk' = [ptid_opk EXCEPT ![t] =
          IF TypeOf[k] = "OSD_REPOP" /\ Known(k) /\ IsUnset(ops[k], "queue_transaction")
            THEN k ELSE None]
    BY <2>1, <2>2, <2>5, ReadsAll DEF uprobe_dequeue_op
  <2> QED
    BY <2>6, <2>7, <2>8 DEF KeepsCtx
<1>2. CASE /\ \A j \in Key : ~Known(j)
           /\ \A u \in Thread : ptid_opk[u] = None
  <2>1. UNCHANGED probeVars \/ uprobe_dequeue_op(t, m)
    BY DEF DequeueOp, Fires
  <2>2. ops' = ops /\ ctx_opk' = ctx_opk
    BY <1>0, <1>2, <2>1 DEF uprobe_dequeue_op, probeVars, maps
  <2>3. ptid_opk' = [ptid_opk EXCEPT ![t] = None]
    BY <1>0, <1>2, <2>1, BaseFacts DEF uprobe_dequeue_op, probeVars, maps
  <2> QED
    BY <1>0, <1>2, <2>2, <2>3 DEF KeepsCtx
<1> QED
  BY <1>1, <1>2, LiveOrIdle

LEMMA ExecuteEffect ==
  ASSUME Undisturbed, BaseInv, NEW t \in Thread, NEW m \in Msg, ExecuteCtx(t, m)
  PROVE  LET k == KeyOf[m] IN
         /\ KeepsPtid /\ KeepsCtx
         /\ IF Known(k) THEN Writes(k, {"execute_ctx"}, m) ELSE ops' = ops
<1> DEFINE k == KeyOf[m]
           e == Stamp(ops[k], "execute_ctx", m)
<1>0. k \in Key /\ m \in Writer /\ OpCount[m] \in Nat
  BY KeyTyped, ConstantAssumption DEF Writer, ConstantAssumption
<1>1. CASE \A f \in Rows : Live(f)
  <2>1. uprobe_execute_ctx(m)
    BY <1>1, RowsAre DEF ExecuteCtx, Fires
  <2>2. ASSUME Known(k) PROVE Writes(k, {"execute_ctx"}, m)
    <3>1. ops[k] \in OpV
      BY <1>0, <2>2, BaseFacts
    <3>2. e \in OpV /\ StampedBy(ops[k], e, {"execute_ctx"}, m)
      BY <1>0, <3>1, StampIs DEF Stamps
    <3>3. capture_decoded_osd_ops(e, OpCount[m]) \in OpV
      BY <1>0, <3>2, CaptureTyped
    <3>4. StampedBy(ops[k], capture_decoded_osd_ops(e, OpCount[m]), {"execute_ctx"}, m)
      BY <3>2 DEF StampedBy, capture_decoded_osd_ops, OpV
    <3>5. ops' = [ops EXCEPT ![k] = capture_decoded_osd_ops(e, OpCount[m])]
      BY <2>1, <2>2, ReadsAll DEF uprobe_execute_ctx
    <3> HIDE DEF e
    <3> QED
      BY <1>0, <2>2, <3>3, <3>4, <3>5, WriteOne
  <2>3. ~Known(k) => ops' = ops
    BY <2>1 DEF uprobe_execute_ctx
  <2> QED
    BY <2>1, <2>2, <2>3 DEF KeepsPtid, KeepsCtx, uprobe_execute_ctx
<1>2. CASE \A j \in Key : ~Known(j)
  BY <1>0, <1>2 DEF ExecuteCtx, Fires, uprobe_execute_ctx, probeVars, maps, KeepsPtid, KeepsCtx
<1> QED
  BY <1>1, <1>2, LiveOrIdle

LEMMA SubmitEffect ==
  ASSUME Undisturbed, BaseInv, NEW t \in Thread, NEW m \in Msg, SubmitTransaction(t, m)
  PROVE  LET k == KeyOf[m] IN
         /\ KeepsCtx
         /\ IF Known(k) THEN Writes(k, {"submit_transaction"}, m) ELSE ops' = ops
         /\ ptid_opk' = [ptid_opk EXCEPT ![t] = IF Known(k) THEN k ELSE None]
<1> DEFINE k == KeyOf[m]
<1>0. k \in Key /\ m \in Writer
  BY KeyTyped DEF Writer
<1>1. CASE \A f \in Rows : Live(f)
  <2>1. uprobe_submit_transaction(t, m)
    BY <1>1, RowsAre DEF SubmitTransaction, Fires
  <2>2. ASSUME Known(k) PROVE Writes(k, {"submit_transaction"}, m)
    <3>1. ops[k] \in OpV
      BY <1>0, <2>2, BaseFacts
    <3>2. /\ Stamp(ops[k], "submit_transaction", m) \in OpV
          /\ StampedBy(ops[k], Stamp(ops[k], "submit_transaction", m), {"submit_transaction"}, m)
      BY <1>0, <3>1, StampIs DEF Stamps
    <3>3. ops' = [ops EXCEPT ![k] = Stamp(ops[k], "submit_transaction", m)]
      BY <2>1, <2>2, ReadsAll DEF uprobe_submit_transaction
    <3> QED
      BY <1>0, <2>2, <3>2, <3>3, WriteOne
  <2> QED
    BY <2>1, <2>2, ReadsAll DEF KeepsCtx, uprobe_submit_transaction
<1>2. CASE /\ \A j \in Key : ~Known(j)
           /\ \A u \in Thread : ptid_opk[u] = None
  <2>1. UNCHANGED probeVars \/ uprobe_submit_transaction(t, m)
    BY DEF SubmitTransaction, Fires
  <2> QED
    BY <1>0, <1>2, <2>1, BaseFacts DEF uprobe_submit_transaction, probeVars, maps, KeepsCtx
<1> QED
  BY <1>1, <1>2, LiveOrIdle

LEMMA EcSubmitEffect ==
  ASSUME Undisturbed, BaseInv, NEW t \in Thread, NEW m \in Msg, EcSubmitTransaction(t, m)
  PROVE  KeepsPtid /\ KeepsCtx /\ Removes(KeyOf[m])
<1> DEFINE k == KeyOf[m]
<1>0. k \in Key
  BY KeyTyped
<1>1. CASE \A f \in Rows : Live(f)
  BY <1>0, <1>1, RowsAre, ReadsAll, RemoveOne
     DEF EcSubmitTransaction, Fires, uprobe_ec_submit_transaction, Forget, KeepsPtid, KeepsCtx
<1>2. CASE \A j \in Key : ~Known(j)
  <2>1. UNCHANGED probeVars \/ Forget(k)
    BY DEF EcSubmitTransaction, Fires, uprobe_ec_submit_transaction
  <2> QED
    BY <1>0, <1>2, <2>1, RemoveOne DEF Forget, probeVars, maps, KeepsPtid, KeepsCtx, Removes, Known
<1> QED
  BY <1>1, <1>2, LiveOrIdle

\* The reply to a tracked request is reported, and its record removed.
LEMMA ReplyEffect ==
  ASSUME Undisturbed, BaseInv, NEW m \in Msg,
         \/ \E t \in Thread : CompleteRead(t, m)
         \/ CompleteWrite(m) \/ RepopCommit(m)
  PROVE  /\ KeepsPtid /\ KeepsCtx /\ Removes(KeyOf[m])
<1> DEFINE k == KeyOf[m]
<1>0. k \in Key
  BY KeyTyped
<1>1. CASE \A f \in Rows : Live(f)
  <2>1. uprobe_log_op_stats(m) \/ uprobe_repop_commit(m)
    BY <1>1, RowsAre DEF CompleteRead, CompleteWrite, RepopCommit, Fires
  <2>2. \/ Emit(k, m)
        \/ ~Known(k) /\ UNCHANGED probeVars
    BY <2>1, ReadsAll DEF uprobe_log_op_stats, uprobe_repop_commit
  <2> QED
    BY <1>0, <2>2, RemoveOne DEF Emit, probeVars, maps, KeepsPtid, KeepsCtx, Removes, Known
<1>2. CASE \A j \in Key : ~Known(j)
  <2>1. UNCHANGED maps
    BY <1>0, <1>2 DEF CompleteRead, CompleteWrite, RepopCommit, Fires, uprobe_log_op_stats,
                      uprobe_repop_commit, probeVars
  <2> QED
    BY <1>0, <1>2, <2>1 DEF maps, KeepsPtid, KeepsCtx, Removes, Known
<1> QED
  BY <1>1, <1>2, LiveOrIdle

\* queue_transactions times the first transaction of the thread's request; for
\* any other it drops the binding.
LEMMA QueueEffect ==
  ASSUME Undisturbed, BaseInv, NEW t \in Thread, NEW x \in Txc,
         Fires("BlueStore::queue_transactions", uprobe_queue_transactions(t, x))
  PROVE  LET k == ptid_opk[t]
             fresh == k # None /\ Known(k) /\ FirstTransaction(ops[k]) IN
         /\ KeepsCtx
         /\ IF fresh THEN Writes(k, {"queue_transaction"}, x) /\ KeepsPtid
                     ELSE ops' = ops /\ ptid_opk' = [ptid_opk EXCEPT ![t] = None]
<1> DEFINE k == ptid_opk[t]
           fresh == k # None /\ Known(k) /\ FirstTransaction(ops[k])
<1>0. k \in Key \cup {None} /\ x \in Writer
  BY BaseFacts DEF Writer
<1>1. CASE uprobe_queue_transactions(t, x)
  <2>1. CASE k = None
    <3>1. ptid_opk = [ptid_opk EXCEPT ![t] = None]
      BY <2>1, BaseFacts
    <3> QED
      BY <1>1, <2>1, <3>1 DEF uprobe_queue_transactions, probeVars, maps, KeepsCtx
  <2>2. CASE fresh
    <3>1. ops[k] \in OpV
      BY <1>0, <2>2, BaseFacts
    <3>2. /\ Stamp(ops[k], "queue_transaction", x) \in OpV
          /\ StampedBy(ops[k], Stamp(ops[k], "queue_transaction", x), {"queue_transaction"}, x)
      BY <1>0, <3>1, StampIs DEF Stamps
    <3>3. ops' = [ops EXCEPT ![k] = Stamp(ops[k], "queue_transaction", x)]
      BY <1>1, <2>2 DEF uprobe_queue_transactions
    <3>4. k \in Key /\ Known(k)
      BY <1>0, <2>2
    <3>5. Writes(k, {"queue_transaction"}, x)
      <4> HIDE DEF k
      <4> QED
        BY <3>2, <3>3, <3>4, WriteOne
    <3> QED
      BY <1>1, <2>2, <3>5 DEF uprobe_queue_transactions, KeepsCtx, KeepsPtid
  <2>3. CASE k # None /\ ~fresh
    BY <1>1, <2>3 DEF uprobe_queue_transactions, KeepsCtx
  <2> QED
    BY <2>1, <2>2, <2>3
<1>2. CASE ~Live("BlueStore::queue_transactions")
  <2>1. k = None
    BY <1>2, RowsAre, LiveOrIdle
  <2>2. ptid_opk = [ptid_opk EXCEPT ![t] = None]
    BY <2>1, BaseFacts
  <2> QED
    BY <1>2, <2>1, <2>2 DEF Fires, probeVars, maps, KeepsCtx
<1> QED
  BY <1>1, <1>2 DEF Fires

LEMMA CalcCostEffect ==
  ASSUME Undisturbed, BaseInv, NEW t \in Thread, CalcCost(t)
  PROVE  LET k == ptid_opk[t]
             x == worker[t].txc IN
         /\ ops' = ops
         /\ ptid_opk' = [ptid_opk EXCEPT ![t] = None]
         /\ ctx_opk' = IF /\ k # None /\ Known(k) /\ IsUnset(ops[k], "aio_submit")
                          /\ IsUnset(ops[k], "kv_committed")
                         THEN [ctx_opk EXCEPT ![x] = k] ELSE ctx_opk
<1>1. CASE \A f \in Rows : Live(f)
  BY <1>1, RowsAre, ReadsAll DEF CalcCost, Fires, uprobe_txc_calc_cost
<1>2. CASE \A u \in Thread : ptid_opk[u] = None
  <2>1. ptid_opk = [ptid_opk EXCEPT ![t] = None]
    BY <1>2, BaseFacts
  <2> QED
    BY <1>2, <2>1 DEF CalcCost, Fires, uprobe_txc_calc_cost, probeVars, maps
<1> QED
  BY <1>1, <1>2, LiveOrIdle

LEMMA StateProcEffect ==
  ASSUME Undisturbed, BaseInv, NEW x \in Txc, NEW s, NEW pending, NEW next,
         StateProc(x, s, pending, next)
  PROVE  LET k == ctx_opk[x]
             hit == k # None /\ Known(k) IN
         /\ KeepsPtid
         /\ IF hit THEN Writes(k, StateStamps(s, pending), x) ELSE ops' = ops
         /\ ctx_opk' = IF hit /\ s = "KV_SUBMITTED"
                         THEN [ctx_opk EXCEPT ![x] = None] ELSE ctx_opk
<1> DEFINE k == ctx_opk[x]
           S == StateStamps(s, pending)
<1>0. k \in Key \cup {None} /\ x \in Writer
  BY BaseFacts DEF Writer
<1>1. CASE \A f \in Rows : Live(f)
  <2>1. uprobe_txc_state_proc(x, s, pending)
    BY <1>1, RowsAre DEF StateProc, Fires
  <2>2. ASSUME k # None, Known(k) PROVE Writes(k, S, x)
    <3>1. k \in Key /\ ops[k] \in OpV
      BY <1>0, <2>2, BaseFacts
    <3>2. ops' = [ops EXCEPT ![k] = StampAll(ops[k], S, x)]
      BY <2>1, <2>2, ReadsAll DEF uprobe_txc_state_proc
    <3> HIDE DEF S, k
    <3>3. StampAll(ops[k], S, x) \in OpV /\ StampedBy(ops[k], StampAll(ops[k], S, x), S, x)
      BY <1>0, <3>1, StampAllIs
    <3> QED
      BY <2>2, <3>1, <3>2, <3>3, WriteOne
  <2>3. ~(k # None /\ Known(k)) => ops' = ops
    BY <2>1 DEF uprobe_txc_state_proc
  <2>4. KeepsPtid /\ ctx_opk' = IF k # None /\ Known(k) /\ s = "KV_SUBMITTED"
                         THEN [ctx_opk EXCEPT ![x] = None] ELSE ctx_opk
    BY <2>1, ReadsAll DEF uprobe_txc_state_proc, EndsLink, KeepsPtid
  <2> QED
    BY <2>2, <2>3, <2>4
<1>2. CASE \A j \in Key : ~Known(j)
  BY <1>0, <1>2 DEF StateProc, Fires, uprobe_txc_state_proc, probeVars, maps, KeepsPtid
<1> QED
  BY <1>1, <1>2, LiveOrIdle

\* The other handlers write nothing these proofs are about.
LEMMA DelayEffect ==
  ASSUME BaseInv, NEW t \in Thread, NEW m \in Msg, DelayOp(t, m)
  PROVE  NoWrites /\ KeepsPtid /\ KeepsCtx
<1> DEFINE k == KeyOf[m]
<1>0. k \in Key
  BY KeyTyped
<1>1. CASE uprobe_mark_flag_point(m)
  <2>1. ASSUME Known(k), HasRoom(ops[k]), ops' = [ops EXCEPT ![k].delays = @ + 1]
        PROVE  NoWrites
    <3>1. ops[k] \in OpV
      BY <1>0, <2>1, BaseFacts
    <3>2. /\ [ops[k] EXCEPT !.delays = @ + 1] \in OpV
          /\ StampedBy(ops[k], [ops[k] EXCEPT !.delays = @ + 1], {}, Unset)
      BY <2>1, <3>1, DelayTyped, PayloadIs
    <3>3. ops' = [ops EXCEPT ![k] = [ops[k] EXCEPT !.delays = @ + 1]]
      BY <2>1
    <3> QED
      BY <1>0, <2>1, <3>2, <3>3, WriteNone
  <2> QED
    BY <1>1, <2>1, WriteSame DEF uprobe_mark_flag_point, KeepsPtid, KeepsCtx
<1>2. CASE UNCHANGED probeVars
  BY <1>2, WriteSame DEF probeVars, maps, KeepsPtid, KeepsCtx
<1> QED
  BY <1>1, <1>2 DEF DelayOp, Fires, uprobe_mark_flag_point_string

LEMMA SubopEffect ==
  ASSUME BaseInv, NEW t \in Thread, NEW m \in Msg, NEW p \in Peer, GenerateSubop(t, m, p)
  PROVE  NoWrites /\ KeepsPtid /\ KeepsCtx
<1> DEFINE k == KeyOf[m]
<1>0. k \in Key
  BY KeyTyped
<1>1. CASE uprobe_generate_subop(m, p)
  <2>1. ASSUME Known(k), ops' = [ops EXCEPT ![k] = [TakeSlot(ops[k], p) EXCEPT !.sent = p]]
        PROVE  NoWrites
    <3>1. ops[k] \in OpV
      BY <1>0, <2>1, BaseFacts
    <3>2. /\ [TakeSlot(ops[k], p) EXCEPT !.sent = p] \in OpV
          /\ StampedBy(ops[k], [TakeSlot(ops[k], p) EXCEPT !.sent = p], {}, Unset)
      BY <3>1, PeerTyped, PayloadIs
    <3> QED
      BY <1>0, <2>1, <3>2, WriteNone
  <2> QED
    BY <1>1, <2>1, WriteSame DEF uprobe_generate_subop, KeepsPtid, KeepsCtx
<1>2. CASE UNCHANGED probeVars
  BY <1>2, WriteSame DEF probeVars, maps, KeepsPtid, KeepsCtx
<1> QED
  BY <1>1, <1>2 DEF GenerateSubop, Fires

LEMMA AddTransactionEffect ==
  ASSUME BaseInv, NEW t \in Thread, NEW n \in Nat, NEW buffers \in Nat, AddTransaction(t, n, buffers)
  PROVE  NoWrites /\ KeepsPtid /\ KeepsCtx
<1> DEFINE k == ptid_opk[t]
<1>0. k \in Key \cup {None}
  BY BaseFacts
<1>1. CASE uprobe_txc_add_transaction(t, n, buffers)
  <2>1. ASSUME k # None, Known(k),
               \/ ops' = [ops EXCEPT ![k] = CountOps(ops[k], n)]
               \/ ops' = [ops EXCEPT ![k] =
                    [CountOps(ops[k], n) EXCEPT !.captured = 0, !.unavailable = TRUE]]
               \/ ops' = [ops EXCEPT ![k] =
                    [CountOps(ops[k], n) EXCEPT !.captured = AtMost(@ + n, MAX_DETAIL_OPS)]]
        PROVE  NoWrites
    <3>1. k \in Key /\ ops[k] \in OpV
      BY <1>0, <2>1, BaseFacts
    <3> HIDE DEF k
    <3>2. PICK f \in OpV : StampedBy(ops[k], f, {}, Unset) /\ ops' = [ops EXCEPT ![k] = f]
      BY <2>1, <3>1, AddTxnTyped, PayloadIs
    <3> QED
      BY <2>1, <3>1, <3>2, WriteNone
  <2>2. \/ ops' = ops
        \/ /\ k # None /\ Known(k)
           /\ \/ ops' = [ops EXCEPT ![k] = CountOps(ops[k], n)]
              \/ ops' = [ops EXCEPT ![k] =
                    [CountOps(ops[k], n) EXCEPT !.captured = 0, !.unavailable = TRUE]]
              \/ ops' = [ops EXCEPT ![k] =
                    [CountOps(ops[k], n) EXCEPT !.captured = AtMost(@ + n, MAX_DETAIL_OPS)]]
    BY <1>1 DEF uprobe_txc_add_transaction
  <2> QED
    BY <1>1, <2>1, <2>2, WriteSame DEF uprobe_txc_add_transaction, KeepsPtid, KeepsCtx
<1>2. CASE UNCHANGED probeVars
  BY <1>2, WriteSame DEF probeVars, maps, KeepsPtid, KeepsCtx
<1> QED
  BY <1>1, <1>2 DEF AddTransaction, Fires

LEMMA PeerReplyEffect ==
  ASSUME Undisturbed, BaseInv, NEW t \in Thread, NEW m \in Msg, NEW p \in Peer, PeerReply(t, m, p)
  PROVE  NoWrites /\ KeepsCtx /\ ptid_opk' = [ptid_opk EXCEPT ![t] = None]
<1> DEFINE k == KeyOf[m]
<1>0. k \in Key
  BY KeyTyped
<1>1. ASSUME uprobe_do_repop_reply(m, p) PROVE NoWrites
  <2>1. ASSUME Known(k),
               \/ ops' = [ops EXCEPT ![k] = [ops[k] EXCEPT !.recv1 = p]]
               \/ ops' = [ops EXCEPT ![k] = [ops[k] EXCEPT !.recv2 = p]]
               \/ ops' = [ops EXCEPT ![k] = ops[k]]
        PROVE  NoWrites
    <3>1. ops[k] \in OpV
      BY <1>0, <2>1, BaseFacts
    <3>2. StampedBy(ops[k], ops[k], {}, Unset)
      BY DEF StampedBy
    <3>3. PICK f \in OpV : StampedBy(ops[k], f, {}, Unset) /\ ops' = [ops EXCEPT ![k] = f]
      BY <2>1, <3>1, <3>2, PeerTyped, PayloadIs
    <3> QED
      BY <1>0, <2>1, <3>3, WriteNone
  <2>2. \/ ops' = ops
        \/ /\ Known(k)
           /\ \/ ops' = [ops EXCEPT ![k] = [ops[k] EXCEPT !.recv1 = p]]
              \/ ops' = [ops EXCEPT ![k] = [ops[k] EXCEPT !.recv2 = p]]
              \/ ops' = [ops EXCEPT ![k] = ops[k]]
    BY <1>1 DEF uprobe_do_repop_reply
  <2> QED
    BY <2>1, <2>2, WriteSame
<1>2. NoWrites
  BY <1>1, WriteSame DEF PeerReply
<1>3. ptid_opk' = [ptid_opk EXCEPT ![t] = None]
  <2>1. CASE \A f \in Rows : Live(f)
    BY <2>1, RowsAre DEF PeerReply
  <2>2. CASE \A u \in Thread : ptid_opk[u] = None
    <3>1. ptid_opk = [ptid_opk EXCEPT ![t] = None]
      BY <2>2, BaseFacts
    <3> QED
      BY <3>1 DEF PeerReply
  <2> QED
    BY <2>1, <2>2, LiveOrIdle
<1>4. KeepsCtx
  BY DEF PeerReply, KeepsCtx
<1> QED
  BY <1>2, <1>3, <1>4

-----------------------------------------------------------------------------
(* The invariant                                                           *)

Q(k) == ops[k].stamp["queue_transaction"]

\* A replica's request that waits, or was dropped, for good: the thread that
\* dequeued it may still be bound to it while the thread works for the pg.
Dead(k) ==
  /\ TypeOf[k] = "OSD_REPOP" /\ PgTxc # {}
  /\ \A m \in OfKey(k) : stage[m] \in {"waiting", "done"}

\* No message of the key is half-way; or none is still to come.
Ready(k) ==
  TypeOf[k] \in Tracked =>
    \/ Known(k)
    \/ \A m \in OfKey(k) : stage[m] \in {"new", "replied", "done"}
    \/ \A m \in OfKey(k) : stage[m] # "new"

AttachedFirst == ~AttachLate => attached = Len(AttachList)

\* What the OSD did with the key's messages, the record has seen.
DequeueSeen(k) ==
  IsUnset(ops[k], "dequeue") =>
    \A m \in OfKey(k) : stage[m] \in {"new", "queued", "replied", "done"}

ExecuteSeen(k) ==
  TypeOf[k] = "OSD_OP" /\ IsUnset(ops[k], "execute_ctx") =>
    /\ \A m \in OfKey(k) : stage[m] # "committing"
    /\ \A t \in Thread : worker[t].msg \in OfKey(k) => worker[t].pc = "dequeued"

QueueSeen(k) ==
  Q(k) = Unset =>
    /\ \A s \in TxcStamps : IsUnset(ops[k], s)
    /\ \A m \in OfKey(k) : stage[m] # "committing"
    /\ \A t \in Thread : worker[t].msg \in OfKey(k) =>
         /\ ~Storing(t)
         /\ worker[t].pc = "dequeued" /\ TypeOf[k] = "OSD_REPOP" => ptid_opk[t] = k

SubmitRight(k) ==
  /\ ~IsUnset(ops[k], "submit_transaction") => \E m \in OfKey(k) : m \notin Reads
  /\ \A t \in Thread :
       worker[t].msg \in OfKey(k) /\ worker[t].pc = "submitted" => ptid_opk[t] = k

\* The stamps of a TransContext that is to enter a state.
StampsAt(state) ==
  {"queue_transaction"}
    \cup (IF state # "PREPARE" THEN {"aio_submit"} ELSE {})
    \cup (IF state \in {"IO_DONE", "KV_SUBMITTED", "FINISHED"} THEN {"aio_done"} ELSE {})
    \cup (IF state \in {"KV_SUBMITTED", "FINISHED"} THEN {"kv_submit"} ELSE {})
    \cup (IF state = "FINISHED" THEN {"kv_committed"} ELSE {})

\* The request's TransContext is its own, has written exactly the stamps of the
\* states it went through, and is bound or linked to it until it is finished.
Charged(k, x) ==
  /\ x \in Txc
  /\ txc[x].owner \in OfKey(k) \/ (txc[x].owner = Background /\ Dead(k))
  /\ \A s \in TxcStamps :
       ops[k].stamp[s] = IF s \in StampsAt(txc[x].state) THEN x ELSE Unset
  /\ \A t \in Thread : worker[t].txc = x =>
       /\ worker[t].pc = "queueing" => ptid_opk[t] = k
       /\ worker[t].pc = "costed" => ctx_opk[x] = k
  /\ txc[x].state \in {"AIO_WAIT", "IO_DONE", "KV_SUBMITTED"} => ctx_opk[x] = k

EntryInv(k) ==
  Known(k) =>
    /\ ~ops[k].aged /\ TypeOf[k] \in Tracked
    /\ DequeueSeen(k) /\ ExecuteSeen(k) /\ QueueSeen(k) /\ SubmitRight(k)
    /\ Q(k) # Unset => Charged(k, Q(k))

BindInv(t) ==
  LET k == ptid_opk[t] IN
  k # None =>
    /\ worker[t].pc # "costed"
    /\ worker[t].pc = "queueing" => Known(k) /\ Q(k) = worker[t].txc
    /\ worker[t].pc # "idle" =>
         worker[t].msg \in OfKey(k) \/ (worker[t].msg = Background /\ Dead(k))
    /\ worker[t].pc \in {"idle", "dequeued", "executed"} => TypeOf[k] = "OSD_REPOP"
    /\ worker[t].pc = "idle" => PgTxc = {} \/ Dead(k)

LinkInv(x) ==
  LET k == ctx_opk[x] IN
  k # None => Known(k) /\ Q(k) = x /\ txc[x].state \notin {"free", "FINISHED"}

StageInv ==
  /\ AttachedFirst
  /\ \A k \in Key : Ready(k) /\ EntryInv(k)
  /\ \A t \in Thread : BindInv(t)
  /\ \A x \in Txc : LinkInv(x)

\* What a report is to show.
Complete(e) ==
  /\ ~IsUnset(e, "dequeue")
  /\ e.op_type = "OSD_OP" => ~IsUnset(e, "execute_ctx")
  /\ IsWrite(e) => \A s \in TxcStamps : ~IsUnset(e, s)

OneTxc(e) ==
  \A s, u \in TxcStamps :
    e.stamp[s] # Unset /\ e.stamp[u] # Unset => e.stamp[s] = e.stamp[u]


-----------------------------------------------------------------------------
(* The invariant is inductive: one lemma for each action                   *)

LEMMA CalmFacts ==
  ASSUME Calm
  PROVE  /\ Undisturbed /\ AlikeByKey /\ EcOnce
         /\ \A l, m, n \in Msg : KeyOf[l] = KeyOf[m] /\ KeyOf[m] = KeyOf[n] => l = m \/ l = n \/ m = n
         /\ AttachLate => OneEach
         /\ PgTxc # {} => /\ MaxRequeues = 0
                          /\ \A m, n \in Msg : KeyOf[m] = KeyOf[n] /\ TypeOfMsg(m) = "OSD_REPOP" => m = n
BY DEF Calm, StartsClean, OneEach, TwoEach, ReplicaCalm

LEMMA DequeueStages ==
  ASSUME Calm, BaseInv, StageInv, NEW t \in Thread, NEW m \in Msg, DequeueOp(t, m)
  PROVE  StageInv'
<1> DEFINE k == KeyOf[m]
           S == IF IsUnset(ops[k], "dequeue") THEN {"dequeue"} ELSE {}
<1>0. /\ k \in Key /\ stage \in [Msg -> Stages] /\ worker \in [Thread -> WorkerRecord]
      /\ ptid_opk \in [Thread -> Key \cup {None}] /\ ctx_opk \in [Txc -> Key \cup {None}]
      /\ None \notin Msg /\ None \notin Key /\ Turn(m) # Unset
  BY KeyTyped, BaseFacts, TurnTyped, ConstantAssumption DEF ConstantAssumption, TypeInv, TypeOK
<1>1. /\ KeepsCtx
      /\ IF TypeOf[k] \in Tracked /\ Known(k) THEN Writes(k, S, Turn(m)) ELSE ops' = ops
      /\ ptid_opk' = [ptid_opk EXCEPT ![t] =
           IF TypeOf[k] = "OSD_REPOP" /\ Known(k) /\ IsUnset(ops[k], "queue_transaction")
             THEN k ELSE None]
  BY CalmFacts, DequeueEffect
<1>2. /\ worker[t].pc = "idle" /\ worker[t].msg = None /\ stage[m] = "queued"
      /\ worker' = [worker EXCEPT ![t] = [IdleWorker EXCEPT !.pc = "dequeued", !.msg = m]]
      /\ stage' = [stage EXCEPT ![m] = "running"]
      /\ txc' = txc /\ attached' = attached
  BY DEF DequeueOp, Work, SetStage, BaseInv, OsdInv, PhaseRight
<1>3. ASSUME NEW j \in Key PROVE Ready(j)'
  BY <1>0, <1>1, <1>2, <1>3 DEF StageInv, Ready, Known, Writes, OfKey
<1>4. ASSUME NEW j \in Key PROVE EntryInv(j)'
  <2> SUFFICES ASSUME ops'[j] # None PROVE EntryInv(j)'
    BY DEF EntryInv, Known
  <2>1. EntryInv(j) /\ Known(j)
    BY <1>1, <1>4 DEF StageInv, Writes, Known
  <2>2. DequeueSeen(j)'
    BY <1>0, <1>1, <1>2, <2>1 DEF EntryInv, DequeueSeen, Writes, StampedBy, IsUnset, OfKey, Stamps
  <2>3. ExecuteSeen(j)'
    BY <1>0, <1>1, <1>2, <2>1 DEF EntryInv, ExecuteSeen, Writes, StampedBy, IsUnset, OfKey, Stamps, IdleWorker
  <2>4. QueueSeen(j)'
    BY <1>0, <1>1, <1>2, <2>1 DEF EntryInv, QueueSeen, Q, Storing, Writes, StampedBy, IsUnset, OfKey, Stamps, TxcStamps, IdleWorker
  <2>5. SubmitRight(j)'
    BY <1>0, <1>1, <1>2, <2>1 DEF EntryInv, SubmitRight, Writes, StampedBy, IsUnset, OfKey, Stamps, IdleWorker
  <2>6. Q(j)' # Unset => Charged(j, Q(j))'
    BY <1>0, <1>1, <1>2, <2>1 DEF EntryInv, Charged, Q, Dead, Writes, StampedBy, IsUnset, OfKey, Stamps, TxcStamps, IdleWorker, KeepsCtx
  <2>7. ~ops'[j].aged /\ TypeOf[j] \in Tracked
    BY <1>1, <2>1 DEF EntryInv, Writes, StampedBy
  <2> QED
    BY <2>2, <2>3, <2>4, <2>5, <2>6, <2>7 DEF EntryInv
<1>5. ASSUME NEW u \in Thread PROVE BindInv(u)'
  BY <1>0, <1>1, <1>2, <1>5 DEF StageInv, BindInv, Q, Dead, Writes, StampedBy, Known, IsUnset, OfKey, Stamps, IdleWorker
<1>6. ASSUME NEW x \in Txc PROVE LinkInv(x)'
  BY <1>0, <1>1, <1>2, <1>6 DEF StageInv, LinkInv, Q, Writes, StampedBy, Known, Stamps, KeepsCtx
<1>7. AttachedFirst'
  BY <1>2 DEF StageInv, AttachedFirst
<1> QED
  BY <1>3, <1>4, <1>5, <1>6, <1>7 DEF StageInv


\* Steps on which no stage and no part of the OSD's state these stages are about
\* change; a thread between two requests may lose its binding.
LEMMA FrameStages ==
  ASSUME BaseInv, StageInv, NoWrites, KeepsCtx, UNCHANGED <<stage, txc>>, AttachedFirst',
         worker' \in [Thread -> WorkerRecord],
         \A t \in Thread : /\ worker'[t].pc = worker[t].pc /\ worker'[t].msg = worker[t].msg
                           /\ worker'[t].txc = worker[t].txc
                           /\ \/ ptid_opk'[t] = ptid_opk[t]
                              \/ ptid_opk'[t] = None /\ worker[t].pc = "idle"
  PROVE  StageInv'
<1>0. /\ stage \in [Msg -> Stages] /\ worker \in [Thread -> WorkerRecord]
      /\ ptid_opk \in [Thread -> Key \cup {None}] /\ ctx_opk \in [Txc -> Key \cup {None}]
      /\ None \notin Msg /\ None \notin Key
      /\ \A t \in Thread : worker[t].pc = "idle" => worker[t].msg = None
  BY BaseFacts, ConstantAssumption DEF ConstantAssumption, BaseInv, OsdInv, PhaseRight
<1>3. ASSUME NEW j \in Key PROVE Ready(j)'
  BY <1>0, <1>3 DEF StageInv, Ready, Known, NoWrites, SameStages, OfKey
<1>4. ASSUME NEW j \in Key PROVE EntryInv(j)'
  <2> SUFFICES ASSUME ops'[j] # None PROVE EntryInv(j)'
    BY DEF EntryInv, Known
  <2>1. EntryInv(j) /\ Known(j) /\ StampedBy(ops[j], ops'[j], {}, Unset)
    BY <1>4 DEF StageInv, NoWrites, SameStages, Known
  <2>2. DequeueSeen(j)' /\ ExecuteSeen(j)'
    BY <1>0, <2>1 DEF EntryInv, DequeueSeen, ExecuteSeen, StampedBy, IsUnset, OfKey, Stamps
  <2>4. QueueSeen(j)'
    BY <1>0, <2>1 DEF EntryInv, QueueSeen, Q, Storing, StampedBy, IsUnset, OfKey, Stamps, TxcStamps
  <2>5. SubmitRight(j)'
    BY <1>0, <2>1 DEF EntryInv, SubmitRight, StampedBy, IsUnset, OfKey, Stamps
  <2>6. Q(j)' # Unset => Charged(j, Q(j))'
    BY <1>0, <2>1 DEF EntryInv, Charged, Q, Dead, StampedBy, IsUnset, OfKey, Stamps, TxcStamps, KeepsCtx
  <2>7. ~ops'[j].aged /\ TypeOf[j] \in Tracked
    BY <2>1 DEF EntryInv, StampedBy
  <2> QED
    BY <2>2, <2>4, <2>5, <2>6, <2>7 DEF EntryInv
<1>5. ASSUME NEW u \in Thread PROVE BindInv(u)'
  BY <1>0, <1>5 DEF StageInv, BindInv, Q, Dead, NoWrites, SameStages, StampedBy, Known, OfKey, Stamps
<1>6. ASSUME NEW x \in Txc PROVE LinkInv(x)'
  BY <1>0, <1>6 DEF StageInv, LinkInv, Q, NoWrites, SameStages, StampedBy, Known, Stamps, KeepsCtx
<1> QED
  BY <1>3, <1>4, <1>5, <1>6 DEF StageInv

\* A request that is put aside or ends without being logged leaves its thread.
LEMMA PutAsideStages ==
  ASSUME Calm, BaseInv, StageInv, NEW t \in Thread, NEW m \in Msg,
         DelayOp(t, m) \/ FinishUnlogged(t, m)
  PROVE  StageInv'
<1> DEFINE k == KeyOf[m]
<1>0. /\ k \in Key /\ stage \in [Msg -> Stages] /\ worker \in [Thread -> WorkerRecord]
      /\ ptid_opk \in [Thread -> Key \cup {None}] /\ ctx_opk \in [Txc -> Key \cup {None}]
      /\ None \notin Msg /\ None \notin Key /\ Background \notin Msg
  BY KeyTyped, BaseFacts, ConstantAssumption DEF ConstantAssumption
<1>1. NoWrites /\ KeepsPtid /\ KeepsCtx
  BY DelayEffect, WriteSame DEF FinishUnlogged, probeVars, maps, KeepsPtid, KeepsCtx
<1>2. /\ worker[t].pc \in {"dequeued", "executed"} /\ worker[t].msg = m
      /\ stage[m] = "running"
      /\ worker' = [worker EXCEPT ![t] = IdleWorker]
      /\ \E s \in {"waiting", "done"} : stage' = [stage EXCEPT ![m] = s]
      /\ txc' = txc /\ attached' = attached
  BY DEF DelayOp, FinishUnlogged, Work, Held, Release, SetStage, BaseInv, OsdInv, HoldsRunning, Holds
<1>3. ASSUME NEW j \in Key PROVE Ready(j)'
  BY <1>0, <1>1, <1>2, <1>3 DEF StageInv, Ready, Known, NoWrites, SameStages, OfKey
<1>4. ASSUME NEW j \in Key PROVE EntryInv(j)'
  <2> SUFFICES ASSUME ops'[j] # None PROVE EntryInv(j)'
    BY DEF EntryInv, Known
  <2>1. EntryInv(j) /\ Known(j) /\ StampedBy(ops[j], ops'[j], {}, Unset)
    BY <1>1, <1>4 DEF StageInv, NoWrites, SameStages, Known
  <2>2. DequeueSeen(j)' /\ ExecuteSeen(j)'
    BY <1>0, <1>2, <2>1 DEF EntryInv, DequeueSeen, ExecuteSeen, StampedBy, IsUnset, OfKey, Stamps, IdleWorker
  <2>4. QueueSeen(j)'
    BY <1>0, <1>1, <1>2, <2>1 DEF EntryInv, QueueSeen, Q, Storing, StampedBy, IsUnset, OfKey, Stamps, TxcStamps, IdleWorker, KeepsPtid
  <2>5. SubmitRight(j)'
    BY <1>0, <1>1, <1>2, <2>1 DEF EntryInv, SubmitRight, StampedBy, IsUnset, OfKey, Stamps, IdleWorker, KeepsPtid
  <2>6. Q(j)' # Unset => Charged(j, Q(j))'
    BY <1>0, <1>1, <1>2, <2>1 DEF EntryInv, Charged, Q, Dead, StampedBy, IsUnset, OfKey, Stamps, TxcStamps, KeepsCtx, KeepsPtid, IdleWorker
  <2>7. ~ops'[j].aged /\ TypeOf[j] \in Tracked
    BY <2>1 DEF EntryInv, StampedBy
  <2> QED
    BY <2>2, <2>4, <2>5, <2>6, <2>7 DEF EntryInv
<1>5. ASSUME NEW u \in Thread PROVE BindInv(u)'
  BY <1>0, <1>1, <1>2, <1>5, CalmFacts
     DEF StageInv, BindInv, Q, Dead, NoWrites, SameStages, StampedBy, Known, OfKey, Stamps, KeepsPtid, IdleWorker, TypeOfMsg
<1>6. ASSUME NEW x \in Txc PROVE LinkInv(x)'
  BY <1>0, <1>1, <1>2, <1>6 DEF StageInv, LinkInv, Q, NoWrites, SameStages, StampedBy, Known, Stamps, KeepsCtx
<1>7. AttachedFirst'
  BY <1>2 DEF StageInv, AttachedFirst
<1> QED
  BY <1>3, <1>4, <1>5, <1>6, <1>7 DEF StageInv

\* A request that waited, or was interrupted, is queued again.
LEMMA RequeueStages ==
  ASSUME Calm, BaseInv, StageInv, NEW m \in Msg, RequeueOp(m) \/ IntervalChange(m)
  PROVE  StageInv'
<1> DEFINE k == KeyOf[m]
<1>0. /\ k \in Key /\ stage \in [Msg -> Stages] /\ worker \in [Thread -> WorkerRecord]
      /\ ptid_opk \in [Thread -> Key \cup {None}] /\ ctx_opk \in [Txc -> Key \cup {None}]
      /\ None \notin Msg /\ None \notin Key /\ requeues \in Nat /\ MaxRequeues \in Nat
  BY KeyTyped, BaseFacts, ConstantAssumption DEF ConstantAssumption, TypeInv, TypeOK
<1>1. NoWrites /\ KeepsPtid /\ KeepsCtx
  BY WriteSame DEF RequeueOp, IntervalChange, probeVars, maps, KeepsPtid, KeepsCtx
<1>2. /\ stage[m] \in {"waiting", "committing"}
      /\ stage' = [stage EXCEPT ![m] = "queued"]
      /\ PgTxc = {}
      /\ worker' = worker /\ txc' = txc /\ attached' = attached
  BY <1>0, CalmFacts DEF RequeueOp, IntervalChange, SetStage
<1>3. ASSUME NEW j \in Key PROVE Ready(j)'
  BY <1>0, <1>1, <1>2, <1>3 DEF StageInv, Ready, Known, NoWrites, SameStages, OfKey
<1>4. ASSUME NEW j \in Key PROVE EntryInv(j)'
  <2> SUFFICES ASSUME ops'[j] # None PROVE EntryInv(j)'
    BY DEF EntryInv, Known
  <2>1. EntryInv(j) /\ Known(j) /\ StampedBy(ops[j], ops'[j], {}, Unset)
    BY <1>1, <1>4 DEF StageInv, NoWrites, SameStages, Known
  <2>2. DequeueSeen(j)' /\ ExecuteSeen(j)'
    BY <1>0, <1>2, <2>1 DEF EntryInv, DequeueSeen, ExecuteSeen, StampedBy, IsUnset, OfKey, Stamps
  <2>4. QueueSeen(j)'
    BY <1>0, <1>1, <1>2, <2>1 DEF EntryInv, QueueSeen, Q, Storing, StampedBy, IsUnset, OfKey, Stamps, TxcStamps, KeepsPtid
  <2>5. SubmitRight(j)'
    BY <1>0, <1>1, <1>2, <2>1 DEF EntryInv, SubmitRight, StampedBy, IsUnset, OfKey, Stamps, KeepsPtid
  <2>6. Q(j)' # Unset => Charged(j, Q(j))'
    BY <1>0, <1>1, <1>2, <2>1 DEF EntryInv, Charged, Q, Dead, StampedBy, IsUnset, OfKey, Stamps, TxcStamps, KeepsCtx, KeepsPtid
  <2>7. ~ops'[j].aged /\ TypeOf[j] \in Tracked
    BY <2>1 DEF EntryInv, StampedBy
  <2> QED
    BY <2>2, <2>4, <2>5, <2>6, <2>7 DEF EntryInv
<1>5. ASSUME NEW u \in Thread PROVE BindInv(u)'
  BY <1>0, <1>1, <1>2, <1>5
     DEF StageInv, BindInv, Q, Dead, NoWrites, SameStages, StampedBy, Known, OfKey, Stamps, KeepsPtid
<1>6. ASSUME NEW x \in Txc PROVE LinkInv(x)'
  BY <1>0, <1>1, <1>2, <1>6 DEF StageInv, LinkInv, Q, NoWrites, SameStages, StampedBy, Known, Stamps, KeepsCtx
<1>7. AttachedFirst'
  BY <1>2 DEF StageInv, AttachedFirst
<1> QED
  BY <1>3, <1>4, <1>5, <1>6, <1>7 DEF StageInv


\* A record begins when no message of its key is half-way.
LEMMA EnqueueStages ==
  ASSUME Calm, BaseInv, StageInv, NEW m \in Msg, EnqueueOp(m)
  PROVE  StageInv'
<1> DEFINE k == KeyOf[m]
<1>0. /\ k \in Key /\ stage \in [Msg -> Stages] /\ worker \in [Thread -> WorkerRecord]
      /\ ops \in [Key -> OpV \cup {None}]
      /\ ptid_opk \in [Thread -> Key \cup {None}] /\ ctx_opk \in [Txc -> Key \cup {None}]
      /\ None \notin Msg /\ None \notin Key /\ None \notin OpV /\ m # Unset
  BY KeyTyped, BaseFacts, ConstantAssumption DEF ConstantAssumption, Writer
<1>1. /\ KeepsPtid /\ KeepsCtx
      /\ \/ ops' = ops
         \/ TypeOf[k] \in Tracked /\ ~Known(k) /\ ops' = [ops EXCEPT ![k] = NewEntry(m)]
      /\ attached = Len(AttachList) /\ TypeOf[k] \in Tracked => ops'[k] # None
  <2>1. \A j \in Key : Known(j) => ~ops[j].aged
    BY DEF StageInv, EntryInv
  <2> QED
    BY <2>1, CalmFacts, EnqueueEffect
<1>2. /\ stage[m] = "new" /\ stage' = [stage EXCEPT ![m] = "queued"]
      /\ worker' = worker /\ txc' = txc /\ attached' = attached
  BY DEF EnqueueOp, SetStage
<1>3. \A j \in Key \ {k} : ops'[j] = ops[j]
  BY <1>0, <1>1
<1>4. ASSUME NEW j \in Key PROVE Ready(j)'
  <2>1. CASE j # k
    BY <1>0, <1>2, <1>3, <2>1 DEF StageInv, Ready, Known, OfKey
  <2>2. CASE j = k
    <3>1. attached = Len(AttachList) \/ \A n \in OfKey(k) : n = m
      BY CalmFacts DEF StageInv, AttachedFirst, OneEach, OfKey
    <3> QED
      BY <1>0, <1>1, <1>2, <2>2, <3>1 DEF Ready, Known, OfKey
  <2> QED
    BY <2>1, <2>2
<1>5. ASSUME NEW j \in Key PROVE EntryInv(j)'
  <2> SUFFICES ASSUME ops'[j] # None PROVE EntryInv(j)'
    BY DEF EntryInv, Known
  <2>1. CASE ops'[j] = ops[j]
    <3>1. EntryInv(j) /\ Known(j)
      BY <2>1 DEF StageInv, Known
    <3>2. DequeueSeen(j)' /\ ExecuteSeen(j)'
      BY <1>0, <1>2, <2>1, <3>1 DEF EntryInv, DequeueSeen, ExecuteSeen, IsUnset, OfKey
    <3>3. QueueSeen(j)' /\ SubmitRight(j)'
      BY <1>0, <1>1, <1>2, <2>1, <3>1 DEF EntryInv, QueueSeen, SubmitRight, Q, Storing, IsUnset, OfKey, KeepsPtid
    <3>4. Q(j)' # Unset => Charged(j, Q(j))'
      BY <1>0, <1>1, <1>2, <2>1, <3>1 DEF EntryInv, Charged, Q, Dead, OfKey, KeepsCtx, KeepsPtid
    <3> QED
      BY <2>1, <3>1, <3>2, <3>3, <3>4 DEF EntryInv
  <2>2. CASE j = k /\ TypeOf[k] \in Tracked /\ ~Known(k) /\ ops'[k] = NewEntry(m)
    <3>1. \A s \in Stamps \ {"enqueue"} : ops'[j].stamp[s] = Unset
      BY <2>2, NewEntryFields
    <3>2. ~ops'[j].aged
      BY <2>2 DEF NewEntry
    <3>3. \A n \in OfKey(k) : stage[n] \in {"new", "replied", "done"}
      BY <1>0, <1>2, <2>2 DEF StageInv, Ready, OfKey
    <3>4. \A t \in Thread : worker[t].msg \notin OfKey(k)
      BY <3>3 DEF BaseInv, OsdInv, HoldsRunning, Holds, OfKey
    <3>5. DequeueSeen(j)' /\ ExecuteSeen(j)' /\ QueueSeen(j)'
      BY <1>0, <1>2, <2>2, <3>1, <3>3, <3>4
         DEF DequeueSeen, ExecuteSeen, QueueSeen, IsUnset, OfKey, Stamps, TxcStamps
    <3>6. SubmitRight(j)' /\ Q(j)' = Unset
      BY <1>2, <2>2, <3>1, <3>4 DEF SubmitRight, Q, IsUnset, OfKey, Stamps
    <3> QED
      BY <2>2, <3>2, <3>5, <3>6 DEF EntryInv
  <2> QED
    BY <1>0, <1>1, <1>3, <2>1, <2>2
<1>6. ASSUME NEW u \in Thread PROVE BindInv(u)'
  <2>1. \A j \in Key : Known(j) => ops'[j] = ops[j]
    BY <1>0, <1>1
  <2> QED
    BY <1>0, <1>1, <1>2, <1>6, <2>1 DEF StageInv, BindInv, Q, Dead, Known, OfKey, KeepsPtid
<1>7. ASSUME NEW x \in Txc PROVE LinkInv(x)'
  <2>1. \A j \in Key : Known(j) => ops'[j] = ops[j]
    BY <1>0, <1>1
  <2> QED
    BY <1>0, <1>1, <1>2, <1>7, <2>1 DEF StageInv, LinkInv, Q, Known, KeepsCtx
<1>8. AttachedFirst'
  BY <1>2 DEF StageInv, AttachedFirst
<1> QED
  BY <1>4, <1>5, <1>6, <1>7, <1>8 DEF StageInv

LEMMA ExecuteStages ==
  ASSUME Calm, BaseInv, StageInv, NEW t \in Thread, NEW m \in Msg, ExecuteCtx(t, m)
  PROVE  StageInv'
<1> DEFINE k == KeyOf[m]
<1>0. /\ k \in Key /\ stage \in [Msg -> Stages] /\ worker \in [Thread -> WorkerRecord]
      /\ ptid_opk \in [Thread -> Key \cup {None}] /\ ctx_opk \in [Txc -> Key \cup {None}]
      /\ None \notin Msg /\ None \notin Key /\ m # Unset /\ Background \notin Msg
  BY KeyTyped, BaseFacts, ConstantAssumption DEF ConstantAssumption, Writer
<1>1. /\ KeepsPtid /\ KeepsCtx
      /\ IF Known(k) THEN Writes(k, {"execute_ctx"}, m) ELSE ops' = ops
  BY CalmFacts, ExecuteEffect
<1>2. /\ worker[t].pc = "dequeued" /\ worker[t].msg = m /\ TypeOf[k] = "OSD_OP"
      /\ worker' = [worker EXCEPT ![t].pc = "executed"]
      /\ stage' = stage /\ txc' = txc /\ attached' = attached
  BY DEF ExecuteCtx, Work, Held, GoTo, TypeOfMsg
<1>3. ASSUME NEW j \in Key PROVE Ready(j)'
  BY <1>0, <1>1, <1>2, <1>3 DEF StageInv, Ready, Known, Writes, OfKey
<1>4. ASSUME NEW j \in Key PROVE EntryInv(j)'
  <2> SUFFICES ASSUME ops'[j] # None PROVE EntryInv(j)'
    BY DEF EntryInv, Known
  <2>1. EntryInv(j) /\ Known(j)
    BY <1>1, <1>4 DEF StageInv, Writes, Known
  <2>2. DequeueSeen(j)' /\ ExecuteSeen(j)'
    BY <1>0, <1>1, <1>2, <2>1 DEF EntryInv, DequeueSeen, ExecuteSeen, Writes, StampedBy, IsUnset, OfKey, Stamps, WorkerRecord
  <2>4. QueueSeen(j)'
    BY <1>0, <1>1, <1>2, <2>1 DEF EntryInv, QueueSeen, Q, Storing, Writes, StampedBy, IsUnset, OfKey, Stamps, TxcStamps, WorkerRecord, KeepsPtid
  <2>5. SubmitRight(j)'
    BY <1>0, <1>1, <1>2, <2>1 DEF EntryInv, SubmitRight, Writes, StampedBy, IsUnset, OfKey, Stamps, WorkerRecord, KeepsPtid
  <2>6. Q(j)' # Unset => Charged(j, Q(j))'
    BY <1>0, <1>1, <1>2, <2>1 DEF EntryInv, Charged, Q, Dead, Writes, StampedBy, IsUnset, OfKey, Stamps, TxcStamps, WorkerRecord, KeepsCtx, KeepsPtid
  <2>7. ~ops'[j].aged /\ TypeOf[j] \in Tracked
    BY <1>1, <2>1 DEF EntryInv, Writes, StampedBy
  <2> QED
    BY <2>2, <2>4, <2>5, <2>6, <2>7 DEF EntryInv
<1>5. ASSUME NEW u \in Thread PROVE BindInv(u)'
  BY <1>0, <1>1, <1>2, <1>5 DEF StageInv, BindInv, Q, Dead, Writes, StampedBy, Known, OfKey, Stamps, WorkerRecord, KeepsPtid
<1>6. ASSUME NEW x \in Txc PROVE LinkInv(x)'
  BY <1>0, <1>1, <1>2, <1>6 DEF StageInv, LinkInv, Q, Writes, StampedBy, Known, Stamps, KeepsCtx
<1>7. AttachedFirst'
  BY <1>2 DEF StageInv, AttachedFirst
<1> QED
  BY <1>3, <1>4, <1>5, <1>6, <1>7 DEF StageInv

LEMMA SubmitStages ==
  ASSUME Calm, BaseInv, StageInv, NEW t \in Thread, NEW m \in Msg, SubmitTransaction(t, m)
  PROVE  StageInv'
<1> DEFINE k == KeyOf[m]
<1>0. /\ k \in Key /\ stage \in [Msg -> Stages] /\ worker \in [Thread -> WorkerRecord]
      /\ ptid_opk \in [Thread -> Key \cup {None}] /\ ctx_opk \in [Txc -> Key \cup {None}]
      /\ None \notin Msg /\ None \notin Key /\ m # Unset /\ Background \notin Msg
  BY KeyTyped, BaseFacts, ConstantAssumption DEF ConstantAssumption, Writer
<1>1. /\ KeepsCtx
      /\ IF Known(k) THEN Writes(k, {"submit_transaction"}, m) ELSE ops' = ops
      /\ ptid_opk' = [ptid_opk EXCEPT ![t] = IF Known(k) THEN k ELSE None]
  BY CalmFacts, SubmitEffect
<1>2. /\ worker[t].pc = "executed" /\ worker[t].msg = m /\ TypeOf[k] = "OSD_OP" /\ m \notin Reads
      /\ worker' = [worker EXCEPT ![t].pc = "submitted"]
      /\ stage' = stage /\ txc' = txc /\ attached' = attached
  BY DEF SubmitTransaction, Work, Held, GoTo, TypeOfMsg, BaseInv, OsdInv, PhaseRight
<1>8. /\ worker'[t].pc = "submitted" /\ worker'[t].msg = m
      /\ \A u \in Thread : u # t => worker'[u] = worker[u] /\ ptid_opk'[u] = ptid_opk[u]
  BY <1>0, <1>1, <1>2 DEF WorkerRecord
<1>9. \A j \in Key : Known(j) => /\ ops'[j] # None
                               /\ \A s \in TxcStamps : ops'[j].stamp[s] = ops[j].stamp[s]
  BY <1>1 DEF Writes, StampedBy, Known, TxcStamps, Stamps
<1>10. \A j \in Key : Known(j) => Q(j)' = Q(j)
  BY <1>9 DEF Q, TxcStamps
<1>3. ASSUME NEW j \in Key PROVE Ready(j)'
  BY <1>0, <1>1, <1>2, <1>3 DEF StageInv, Ready, Known, Writes, OfKey
<1>4. ASSUME NEW j \in Key PROVE EntryInv(j)'
  <2> SUFFICES ASSUME ops'[j] # None PROVE EntryInv(j)'
    BY DEF EntryInv, Known
  <2>1. EntryInv(j) /\ Known(j)
    BY <1>1, <1>4 DEF StageInv, Writes, Known
  <2>2. DequeueSeen(j)' /\ ExecuteSeen(j)'
    BY <1>0, <1>1, <1>2, <2>1 DEF EntryInv, DequeueSeen, ExecuteSeen, Writes, StampedBy, IsUnset, OfKey, Stamps, WorkerRecord
  <2>4. QueueSeen(j)'
    BY <1>0, <1>1, <1>2, <2>1 DEF EntryInv, QueueSeen, Q, Storing, Writes, StampedBy, IsUnset, OfKey, Stamps, TxcStamps, WorkerRecord
  <2>5. SubmitRight(j)'
    BY <1>0, <1>1, <1>2, <2>1 DEF EntryInv, SubmitRight, Writes, StampedBy, IsUnset, OfKey, Stamps, WorkerRecord
  <2>6. Q(j)' # Unset => Charged(j, Q(j))'
    <3> SUFFICES ASSUME Q(j) # Unset PROVE Charged(j, Q(j))'
      BY <1>10, <2>1
    <3>1. Charged(j, Q(j))
      BY <2>1 DEF EntryInv
    <3> QED
      BY <1>0, <1>1, <1>2, <1>8, <1>9, <1>10, <2>1, <3>1 DEF Charged, Dead, KeepsCtx
  <2>7. ~ops'[j].aged /\ TypeOf[j] \in Tracked
    BY <1>1, <2>1 DEF EntryInv, Writes, StampedBy
  <2> QED
    BY <2>2, <2>4, <2>5, <2>6, <2>7 DEF EntryInv
<1>5. ASSUME NEW u \in Thread PROVE BindInv(u)'
  <2>1. CASE u = t
    BY <1>0, <1>1, <1>2, <1>8, <2>1 DEF BindInv, OfKey
  <2>2. CASE u # t
    BY <1>0, <1>2, <1>5, <1>8, <1>9, <1>10, <2>2 DEF StageInv, BindInv, Dead, Known
  <2> QED
    BY <2>1, <2>2
<1>6. ASSUME NEW x \in Txc PROVE LinkInv(x)'
  BY <1>0, <1>1, <1>2, <1>6 DEF StageInv, LinkInv, Q, Writes, StampedBy, Known, Stamps, KeepsCtx
<1>7. AttachedFirst'
  BY <1>2 DEF StageInv, AttachedFirst
<1> QED
  BY <1>3, <1>4, <1>5, <1>6, <1>7 DEF StageInv


\* A record is removed with the message m: nothing is bound or linked to it.
LEMMA RemoveStages ==
  ASSUME Calm, BaseInv, StageInv, NEW m \in Msg, NEW s \in {"committing", "replied"},
         KeepsPtid, KeepsCtx, Removes(KeyOf[m]), UNCHANGED <<txc, attached>>,
         stage[m] \in {"running", "committing"}, stage' = [stage EXCEPT ![m] = s],
         s = "committing" => \A n \in OfKey(KeyOf[m]) : n = m,
         \/ worker' = worker
         \/ \E t \in Thread : /\ worker[t].pc = "executed" /\ worker[t].msg = m
                              /\ worker' = [worker EXCEPT ![t] = IdleWorker],
         \A x \in Txc : txc[x].owner \in OfKey(KeyOf[m]) => txc[x].state = "FINISHED"
  PROVE  StageInv'
<1> DEFINE k == KeyOf[m]
<1>0. /\ k \in Key /\ stage \in [Msg -> Stages] /\ worker \in [Thread -> WorkerRecord]
      /\ ptid_opk \in [Thread -> Key \cup {None}] /\ ctx_opk \in [Txc -> Key \cup {None}]
      /\ None \notin Msg /\ None \notin Key /\ Background \notin Msg
  BY KeyTyped, BaseFacts, ConstantAssumption DEF ConstantAssumption
<1>1. /\ ops'[k] = None /\ \A j \in Key \ {k} : ops'[j] = ops[j]
      /\ ptid_opk' = ptid_opk /\ ctx_opk' = ctx_opk
  BY DEF Removes, KeepsPtid, KeepsCtx
<1>2. ~Dead(k)
  BY DEF Dead, OfKey
<1>3. \A x \in Txc : Known(k) /\ Q(k) = x => txc[x].state = "FINISHED"
  <2> SUFFICES ASSUME NEW x \in Txc, Known(k), Q(k) = x PROVE txc[x].state = "FINISHED"
    OBVIOUS
  <2>1. Q(k) # Unset
    BY ConstantAssumption DEF ConstantAssumption, Writer
  <2>2. Charged(k, x)
    BY <1>0, <2>1 DEF StageInv, EntryInv
  <2> QED
    BY <1>2, <2>2 DEF Charged
<1>4. ASSUME NEW j \in Key PROVE Ready(j)'
  <2>1. CASE j # k
    BY <1>0, <1>1, <2>1 DEF StageInv, Ready, Known, OfKey
  <2>2. CASE j = k
    <3>1. CASE s = "committing"
      BY <1>0, <2>2, <3>1 DEF Ready, OfKey
    <3>2. CASE s = "replied"
      BY <1>0, <2>2, <3>2, CalmFacts DEF Ready, OfKey
    <3> QED
      BY <3>1, <3>2
  <2> QED
    BY <2>1, <2>2
<1>5. \A t \in Thread : \/ worker'[t] = worker[t]
                        \/ /\ worker[t].pc = "executed" /\ worker[t].msg = m
                           /\ worker'[t].pc = "idle" /\ worker'[t].msg = None
                           /\ worker'[t].txc = None
  BY <1>0 DEF IdleWorker
<1>6. ASSUME NEW j \in Key PROVE EntryInv(j)'
  <2> SUFFICES ASSUME ops'[j] # None PROVE EntryInv(j)'
    BY DEF EntryInv, Known
  <2>1. j # k /\ ops'[j] = ops[j] /\ EntryInv(j) /\ Known(j)
    BY <1>1 DEF StageInv, Known
  <2>2. DequeueSeen(j)' /\ ExecuteSeen(j)'
    BY <1>0, <1>5, <2>1 DEF EntryInv, DequeueSeen, ExecuteSeen, IsUnset, OfKey
  <2>3. QueueSeen(j)' /\ SubmitRight(j)'
    BY <1>0, <1>1, <1>5, <2>1 DEF EntryInv, QueueSeen, SubmitRight, Q, Storing, IsUnset, OfKey
  <2>4. Q(j)' # Unset => Charged(j, Q(j))'
    BY <1>0, <1>1, <1>5, <2>1 DEF EntryInv, Charged, Q, Dead, OfKey
  <2> QED
    BY <2>1, <2>2, <2>3, <2>4 DEF EntryInv
<1>7. ASSUME NEW u \in Thread PROVE BindInv(u)'
  <2> SUFFICES ASSUME ptid_opk[u] # None PROVE BindInv(u)'
    BY <1>1 DEF BindInv
  <2> DEFINE j == ptid_opk[u]
  <2>0. j \in Key /\ BindInv(u)
    BY <1>0 DEF StageInv
  <2>1. CASE j # k
    <3>1. ops'[j] = ops[j]
      BY <1>1, <2>0, <2>1
    <3>2. Dead(j) => Dead(j)'
      <4>1. \A n \in OfKey(j) : n \in Msg /\ n # m
        BY <2>1 DEF OfKey
      <4>2. \A n \in OfKey(j) : stage'[n] = stage[n]
        BY <1>0, <4>1
      <4> QED
        BY <1>1, <4>1, <4>2 DEF Dead, OfKey
    <3>3. worker'[u] = worker[u]
      BY <1>0, <1>5, <2>0, <2>1 DEF BindInv, OfKey
    <3> QED
      BY <1>1, <2>0, <3>1, <3>2, <3>3 DEF BindInv, Q, Known, OfKey
  <2>2. CASE j = k
    <3>1. worker[u].pc # "queueing"
      <4> SUFFICES ASSUME worker[u].pc = "queueing" PROVE FALSE
        OBVIOUS
      <4>1. Known(k) /\ Q(k) = worker[u].txc
        BY <2>0, <2>2 DEF BindInv
      <4>2. worker[u].txc \in Txc /\ txc[worker[u].txc].state = "PREPARE"
        BY <1>0 DEF BaseInv, OsdInv, PhaseRight, Storing, TypeInv, QueueingHasTxc
      <4> QED
        BY <1>3, <4>1, <4>2
    <3>2. worker[u].pc # "idle" \/ PgTxc = {}
      BY <1>2, <2>0, <2>2 DEF BindInv
    <3>3. worker'[u] = worker[u]
      <4> SUFFICES ASSUME worker[u].pc = "executed", worker[u].msg = m PROVE FALSE
        BY <1>5
      <4>1. TypeOf[k] = "OSD_OP"
        BY DEF BaseInv, OsdInv, PhaseRight, TypeOfMsg
      <4> QED
        BY <2>0, <2>2, <4>1 DEF BindInv
    <3> QED
      BY <1>1, <1>2, <2>0, <2>2, <3>1, <3>2, <3>3 DEF BindInv, OfKey
  <2> QED
    BY <2>1, <2>2
<1>8. ASSUME NEW x \in Txc PROVE LinkInv(x)'
  <2> SUFFICES ASSUME ctx_opk[x] # None PROVE LinkInv(x)'
    BY <1>1 DEF LinkInv
  <2>0. ctx_opk[x] \in Key /\ LinkInv(x)
    BY <1>0 DEF StageInv
  <2>1. ctx_opk[x] # k
    BY <1>3, <2>0 DEF LinkInv
  <2> QED
    BY <1>1, <2>0, <2>1 DEF LinkInv, Q, Known
<1>9. AttachedFirst'
  BY DEF StageInv, AttachedFirst
<1> QED
  BY <1>4, <1>6, <1>7, <1>8, <1>9 DEF StageInv

LEMMA EcSubmitStages ==
  ASSUME Calm, BaseInv, StageInv, NEW t \in Thread, NEW m \in Msg, EcSubmitTransaction(t, m)
  PROVE  StageInv'
<1>1. KeepsPtid /\ KeepsCtx /\ Removes(KeyOf[m])
  BY CalmFacts, EcSubmitEffect
<1>2. /\ worker[t].pc = "executed" /\ worker[t].msg = m /\ m \in Erasure \ Reads
      /\ worker' = [worker EXCEPT ![t] = IdleWorker]
      /\ stage' = [stage EXCEPT ![m] = "committing"]
      /\ UNCHANGED <<txc, attached>>
  BY DEF EcSubmitTransaction, Work, Held, Release, SetStage
<1>3. stage[m] = "running" /\ TypeOfMsg(m) = "OSD_OP"
  BY <1>2 DEF BaseInv, OsdInv, HoldsRunning, Holds, PhaseRight
<1>4. \A n \in OfKey(KeyOf[m]) : n = m
  BY <1>2, CalmFacts DEF EcOnce, OfKey
<1>5. \A x \in Txc : txc[x].owner \notin OfKey(KeyOf[m])
  BY <1>2, <1>3, <1>4 DEF BaseInv, OsdInv, OwnerRight, Submits, OfKey
<1> QED
  BY <1>1, <1>2, <1>3, <1>4, <1>5, RemoveStages

LEMMA ReplyStages ==
  ASSUME Calm, BaseInv, StageInv, NEW m \in Msg,
         \/ \E t \in Thread : CompleteRead(t, m)
         \/ CompleteWrite(m) \/ RepopCommit(m)
  PROVE  StageInv'
<1>1. KeepsPtid /\ KeepsCtx /\ Removes(KeyOf[m])
  BY CalmFacts, ReplyEffect
<1>2. stage' = [stage EXCEPT ![m] = "replied"] /\ UNCHANGED <<txc, attached>>
  BY DEF CompleteRead, CompleteWrite, RepopCommit, SetStage
<1>3. CASE CompleteWrite(m) \/ RepopCommit(m)
  <2>1. stage[m] = "committing" /\ worker' = worker
        /\ \A x \in Txc : txc[x].owner \in OfKey(KeyOf[m]) => txc[x].state = "FINISHED"
    BY <1>3 DEF CompleteWrite, RepopCommit, Committed, TxcsOf, OfKey
  <2> QED
    BY <1>1, <1>2, <2>1, RemoveStages
<1>4. ASSUME NEW t \in Thread, CompleteRead(t, m) PROVE StageInv'
  <2>1. /\ worker[t].pc = "executed" /\ worker[t].msg = m /\ m \in Reads
        /\ worker' = [worker EXCEPT ![t] = IdleWorker]
    BY <1>4 DEF CompleteRead, Work, Held, Release
  <2>2. stage[m] = "running" /\ TypeOfMsg(m) = "OSD_OP"
    BY <2>1 DEF BaseInv, OsdInv, HoldsRunning, Holds, PhaseRight
  <2>3. \A x \in Txc : txc[x].owner \notin OfKey(KeyOf[m])
    BY <2>1, <2>2, CalmFacts DEF AlikeByKey, BaseInv, OsdInv, OwnerRight, Submits, OfKey, TypeOfMsg
  <2> QED
    BY <1>1, <1>2, <2>1, <2>2, <2>3, RemoveStages
<1> QED
  BY <1>3, <1>4


\* queue_transactions for x on behalf of o, a message or the pg itself.
LEMMA QueueStages ==
  ASSUME Calm, BaseInv, StageInv, NEW t \in Thread, NEW x \in Txc, NEW n,
         NEW o \in Msg \cup {Background},
         txc[x].state = "free",
         \/ /\ o \in Msg /\ worker[t].msg = o
            /\ \/ worker[t].pc = "submitted"
               \/ worker[t].pc = "dequeued" /\ TypeOfMsg(o) = "OSD_REPOP"
         \/ o = Background /\ worker[t].pc = "idle" /\ x \in PgTxc,
         worker' = [worker EXCEPT ![t] = [pc |-> "queueing", msg |-> o, txc |-> x, txns |-> n]],
         txc' = [txc EXCEPT ![x] = [owner |-> o, state |-> "PREPARE"]],
         Fires("BlueStore::queue_transactions", uprobe_queue_transactions(t, x)),
         UNCHANGED <<stage, attached>>
  PROVE  StageInv'
<1> DEFINE k == ptid_opk[t]
           fresh == k # None /\ Known(k) /\ FirstTransaction(ops[k])
<1>0. /\ worker \in [Thread -> WorkerRecord] /\ k \in Key \cup {None}
      /\ txc \in [Txc -> [owner : Msg \cup {Background, None}, state : TxcStates]]
      /\ ptid_opk \in [Thread -> Key \cup {None}] /\ ctx_opk \in [Txc -> Key \cup {None}]
      /\ None \notin Msg /\ None \notin Key /\ Background \notin Msg /\ Background # None
      /\ Unset \notin Txc
  BY BaseFacts, ConstantAssumption DEF ConstantAssumption, Writer
<1>1. /\ ctx_opk' = ctx_opk
      /\ fresh => Writes(k, {"queue_transaction"}, x) /\ ptid_opk' = ptid_opk
      /\ ~fresh => ops' = ops /\ ptid_opk' = [ptid_opk EXCEPT ![t] = None]
  BY CalmFacts, QueueEffect DEF KeepsCtx, KeepsPtid
<1>2. /\ worker'[t].pc = "queueing" /\ worker'[t].msg = o /\ worker'[t].txc = x
      /\ \A u \in Thread : u # t => worker'[u] = worker[u] /\ ptid_opk'[u] = ptid_opk[u]
      /\ txc'[x].owner = o /\ txc'[x].state = "PREPARE"
      /\ \A y \in Txc : y # x => txc'[y] = txc[y]
  BY <1>0, <1>1
<1>3. txc[x].owner = None /\ \A u \in Thread : Storing(u) => worker[u].txc # x
  BY DEF BaseInv, OsdInv, OwnerRight, PhaseRight
<1>4. \A j \in Key : Known(j) => Q(j) # x
  BY <1>0, <1>3 DEF StageInv, EntryInv, Charged, OfKey
<1>5. ctx_opk[x] = None
  BY DEF StageInv, LinkInv
<1>6. fresh => /\ k \in Key /\ Q(k) = Unset /\ QueueSeen(k)
               /\ o \in OfKey(k) \/ (o = Background /\ Dead(k))
  <2> SUFFICES ASSUME fresh PROVE /\ k \in Key /\ Q(k) = Unset /\ QueueSeen(k)
                                  /\ o \in OfKey(k) \/ (o = Background /\ Dead(k))
    OBVIOUS
  <2>1. k \in Key /\ Q(k) = Unset
    BY <1>0 DEF FirstTransaction, IsUnset, Q
  <2>2. QueueSeen(k)
    BY <2>1 DEF StageInv, EntryInv
  <2>3. BindInv(t)
    BY DEF StageInv
  <2>4. o \in OfKey(k) \/ (o = Background /\ Dead(k))
    BY <1>0, <2>3 DEF BindInv
  <2> QED
    BY <2>1, <2>2, <2>4
\* The request's first transaction finds the thread bound to it.
<1>7. ASSUME NEW j \in Key, Known(j), o \in OfKey(j), Q(j) = Unset
      PROVE  fresh /\ k = j
  <2>1. QueueSeen(j) /\ SubmitRight(j)
    BY <1>7 DEF StageInv, EntryInv
  <2>2. TypeOf[j] = "OSD_REPOP" \/ worker[t].pc = "submitted"
    BY <1>7, <1>0 DEF OfKey, TypeOfMsg
  <2>3. k = j
    BY <1>0, <1>7, <2>1, <2>2 DEF QueueSeen, SubmitRight, OfKey
  <2>4. FirstTransaction(ops[j])
    BY <1>7, <2>1 DEF QueueSeen, FirstTransaction, TxcStamps
  <2> QED
    BY <1>0, <1>7, <2>3, <2>4
<1>8. ASSUME NEW j \in Key PROVE Ready(j)'
  BY <1>1, <1>8 DEF StageInv, Ready, Known, Writes, OfKey
<1>9. ASSUME NEW j \in Key PROVE EntryInv(j)'
  <2> SUFFICES ASSUME ops'[j] # None PROVE EntryInv(j)'
    BY DEF EntryInv, Known
  <2>1. EntryInv(j) /\ Known(j)
    BY <1>1, <1>9 DEF StageInv, Writes, Known
  <2>2. \A u \in Thread : u # t => worker'[u] = worker[u]
    BY <1>2
  <2>3. DequeueSeen(j)'
    BY <1>1, <2>1 DEF EntryInv, DequeueSeen, Writes, StampedBy, IsUnset, OfKey, Stamps
  <2>4. ExecuteSeen(j)'
    <3>1. worker[t].msg \in OfKey(j) => o \in OfKey(j) \/ o = Background
      BY <1>0
    <3>2. o \in OfKey(j) /\ TypeOf[j] = "OSD_OP" => worker[t].msg = o /\ worker[t].pc = "submitted"
      BY <1>0 DEF OfKey, TypeOfMsg
    <3> QED
      BY <1>0, <1>1, <1>2, <2>1, <3>2 DEF EntryInv, ExecuteSeen, Writes, StampedBy, IsUnset, OfKey, Stamps
  <2>5. SubmitRight(j)'
    BY <1>0, <1>1, <1>2, <2>1 DEF EntryInv, SubmitRight, Writes, StampedBy, IsUnset, OfKey, Stamps
  <2>6. ~ops'[j].aged /\ TypeOf[j] \in Tracked
    BY <1>1, <2>1 DEF EntryInv, Writes, StampedBy
  <2>7. CASE fresh /\ j = k
    <3>1. /\ ops'[k].stamp["queue_transaction"] = x
          /\ \A s \in TxcStamps : ops'[k].stamp[s] = IF s = "queue_transaction" THEN x ELSE Unset
      BY <1>1, <1>6, <2>7 DEF QueueSeen, Writes, StampedBy, IsUnset, Stamps, TxcStamps
    <3>2. \A s \in TxcStamps :
            ops'[k].stamp[s] = IF s \in StampsAt("PREPARE") THEN x ELSE Unset
      BY <3>1 DEF StampsAt
    <3>3. k' = k
      BY <1>1, <2>7
    <3>4. Charged(j, x)'
      <4> HIDE DEF k
      <4>1. o \in OfKey(j) \/ (o = Background /\ Dead(j))
        BY <1>6, <2>7
      <4>2. Dead(j) => Dead(j)'
        BY DEF Dead, OfKey
      <4>3. \A u \in Thread : worker'[u].txc = x /\ worker'[u].pc \in {"queueing", "costed"} => u = t
        BY <1>2, <1>3 DEF Storing
      <4>4. ptid_opk'[t] = j
        BY <1>1, <2>7 DEF k
      <4> QED
        BY <1>2, <2>7, <3>2, <4>1, <4>2, <4>3, <4>4 DEF Charged, OfKey
    <3>5. Q(j)' = x
      BY <2>7, <3>1, <3>3 DEF Q
    <3>6. QueueSeen(j)'
      BY <1>0, <3>5 DEF QueueSeen
    <3> QED
      BY <2>3, <2>4, <2>5, <2>6, <3>4, <3>5, <3>6 DEF EntryInv
  <2>8. CASE ~(fresh /\ j = k)
    <3>1. ops'[j] = ops[j]
      BY <1>1, <1>9, <2>8 DEF Writes
    <3>2. QueueSeen(j)'
      <4>1. Q(j) = Unset => o \notin OfKey(j)
        BY <1>7, <2>1, <2>8
      <4> QED
        BY <1>2, <2>1, <3>1, <4>1 DEF EntryInv, QueueSeen, Q, Storing, IsUnset, OfKey
    <3>3. Q(j)' # Unset => Charged(j, Q(j))'
      <4> SUFFICES ASSUME Q(j) # Unset PROVE Charged(j, Q(j))'
        BY <3>1 DEF Q
      <4>1. Charged(j, Q(j)) /\ Q(j) # x
        BY <1>4, <2>1 DEF EntryInv
      <4>2. Q(j)' = Q(j)
        BY <3>1 DEF Q
      <4> QED
        BY <1>1, <1>2, <3>1, <4>1, <4>2 DEF Charged, Dead, OfKey
    <3> QED
      BY <2>1, <2>3, <2>4, <2>5, <2>6, <3>2, <3>3 DEF EntryInv
  <2> QED
    BY <2>7, <2>8
<1>10. ASSUME NEW u \in Thread PROVE BindInv(u)'
  <2>1. CASE u = t
    <3>1. CASE fresh
      <4>1. /\ ops'[k] # None /\ ops'[k].stamp["queue_transaction"] = x
            /\ ptid_opk'[u] = k
        BY <1>1, <2>1, <3>1 DEF Writes, StampedBy, Stamps
      <4>2. o \in OfKey(k)' \/ (o = Background /\ Dead(k)')
        <5>1. k' = k
          BY <2>1, <4>1
        <5> QED
          BY <1>6, <3>1, <5>1 DEF Dead, OfKey
      <4> QED
        BY <1>2, <2>1, <4>1, <4>2 DEF BindInv, Q, Known, OfKey, Dead
    <3>2. CASE ~fresh
      BY <1>0, <1>1, <2>1, <3>2 DEF BindInv
    <3> QED
      BY <3>1, <3>2
  <2>2. CASE u # t
    <3>1. \A j \in Key : Known(j) /\ Q(j) # Unset => ops'[j] = ops[j]
      BY <1>1, <1>6 DEF Writes
    <3>2. worker[u].pc = "queueing" => worker[u].txc # Unset
      BY <1>0, <1>10 DEF BaseInv, OsdInv, TypeInv, QueueingHasTxc
    <3>3. worker'[u] = worker[u] /\ ptid_opk'[u] = ptid_opk[u] /\ ptid_opk[u] \in Key \cup {None}
      BY <1>0, <1>2, <2>2
    <3>4. \A j \in Key : Dead(j) => Dead(j)'
      BY DEF Dead, OfKey
    <3> QED
      BY <1>10, <3>1, <3>2, <3>3, <3>4 DEF StageInv, BindInv, Q, Known, OfKey
  <2> QED
    BY <2>1, <2>2
<1>11. ASSUME NEW y \in Txc PROVE LinkInv(y)'
  <2>1. \A j \in Key : Known(j) /\ Q(j) # Unset => ops'[j] = ops[j]
    BY <1>1, <1>6 DEF Writes
  <2> QED
    BY <1>0, <1>1, <1>2, <1>5, <1>11, <2>1 DEF StageInv, LinkInv, Q, Known
<1>12. AttachedFirst'
  BY DEF StageInv, AttachedFirst
<1> QED
  BY <1>8, <1>9, <1>10, <1>11, <1>12 DEF StageInv


\* _txc_calc_cost hands the request over from the thread to its TransContext.
LEMMA CalcCostStages ==
  ASSUME Calm, BaseInv, StageInv, NEW t \in Thread, CalcCost(t)
  PROVE  StageInv'
<1> DEFINE k == ptid_opk[t]
           x == worker[t].txc
<1>0. /\ worker \in [Thread -> WorkerRecord] /\ k \in Key \cup {None}
      /\ ptid_opk \in [Thread -> Key \cup {None}] /\ ctx_opk \in [Txc -> Key \cup {None}]
      /\ None \notin Msg /\ None \notin Key /\ Unset \notin Txc
  BY BaseFacts, ConstantAssumption DEF ConstantAssumption, Writer
<1>1. /\ worker[t].pc = "queueing"
      /\ worker'[t].pc = "costed" /\ worker'[t].msg = worker[t].msg /\ worker'[t].txc = x
      /\ \A u \in Thread : u # t => worker'[u] = worker[u]
      /\ UNCHANGED <<stage, txc, attached>>
  BY <1>0 DEF CalcCost, Work, GoTo, WorkerRecord
<1>2. /\ x \in Txc /\ txc[x].state = "PREPARE"
      /\ \A u \in Thread : Storing(u) /\ worker[u].txc = x => u = t
  BY <1>1 DEF BaseInv, OsdInv, PhaseRight, StoresOne, Storing, TypeInv, QueueingHasTxc
<1>3. /\ ops' = ops
      /\ ptid_opk' = [ptid_opk EXCEPT ![t] = None]
      /\ ctx_opk' = IF /\ k # None /\ Known(k) /\ IsUnset(ops[k], "aio_submit")
                       /\ IsUnset(ops[k], "kv_committed")
                      THEN [ctx_opk EXCEPT ![x] = k] ELSE ctx_opk
  BY CalmFacts, CalcCostEffect
\* The thread is bound to the request its TransContext is charged to, if any.
<1>4. k # None => Known(k) /\ Q(k) = x
  BY <1>1 DEF StageInv, BindInv
<1>5. ASSUME NEW j \in Key, Known(j), Q(j) = x
      PROVE  /\ k = j /\ Charged(j, x)
             /\ IsUnset(ops[j], "aio_submit") /\ IsUnset(ops[j], "kv_committed")
  <2>1. Charged(j, x)
    BY <1>0, <1>2, <1>5 DEF StageInv, EntryInv
  <2>2. k = j
    BY <1>1, <2>1 DEF Charged
  <2>3. "aio_submit" \in TxcStamps \ StampsAt("PREPARE") /\ "kv_committed" \in TxcStamps \ StampsAt("PREPARE")
    BY DEF StampsAt, TxcStamps
  <2> QED
    BY <1>2, <2>1, <2>2, <2>3 DEF Charged, IsUnset
<1>6. k # None => ctx_opk' = [ctx_opk EXCEPT ![x] = k]
  BY <1>0, <1>3, <1>4, <1>5
<1>7. k = None => ctx_opk' = ctx_opk
  BY <1>3
<1>8. \A y \in Txc : y # x => ctx_opk'[y] = ctx_opk[y]
  BY <1>0, <1>6, <1>7
<1>9. ASSUME NEW j \in Key PROVE Ready(j)'
  BY <1>1, <1>3, <1>9 DEF StageInv, Ready, Known, OfKey
<1>10. ASSUME NEW j \in Key PROVE EntryInv(j)'
  <2> SUFFICES ASSUME Known(j) PROVE EntryInv(j)'
    BY <1>3 DEF EntryInv, Known
  <2>1. EntryInv(j)
    BY DEF StageInv
  <2>2. DequeueSeen(j)' /\ ExecuteSeen(j)'
    BY <1>1, <1>3, <2>1 DEF EntryInv, DequeueSeen, ExecuteSeen, IsUnset, OfKey
  <2>3. QueueSeen(j)' /\ SubmitRight(j)'
    BY <1>0, <1>1, <1>3, <2>1 DEF EntryInv, QueueSeen, SubmitRight, Q, Storing, IsUnset, OfKey
  <2>4. ASSUME Q(j) # Unset PROVE Charged(j, Q(j))'
    <3>1. Charged(j, Q(j)) /\ Q(j)' = Q(j)
      BY <1>3, <2>1, <2>4 DEF EntryInv, Q
    <3>2. CASE Q(j) = x
      <4>1. k = j
        BY <1>5, <2>1, <3>2 DEF EntryInv
      <4>2. ctx_opk'[x] = j
        BY <1>0, <1>2, <1>6, <4>1
      <4>3. \A u \in Thread : worker'[u].txc = x /\ worker'[u].pc \in {"queueing", "costed"} => u = t
        BY <1>1, <1>2 DEF Storing
      <4> QED
        BY <1>1, <1>3, <3>1, <3>2, <4>2, <4>3 DEF Charged, Dead, OfKey
    <3>3. CASE Q(j) # x
      BY <1>0, <1>1, <1>3, <1>8, <3>1, <3>3 DEF Charged, Dead, OfKey
    <3> QED
      BY <3>2, <3>3
  <2> QED
    BY <1>3, <2>1, <2>2, <2>3, <2>4 DEF EntryInv, Q
<1>11. ASSUME NEW u \in Thread PROVE BindInv(u)'
  BY <1>0, <1>1, <1>3, <1>11 DEF StageInv, BindInv, Q, Dead, Known, OfKey
<1>12. ASSUME NEW y \in Txc PROVE LinkInv(y)'
  <2>1. CASE y = x /\ k # None
    <3>1. ctx_opk'[y] = k
      BY <1>0, <1>6, <2>1
    <3> QED
      BY <1>1, <1>2, <1>3, <1>4, <2>1, <3>1 DEF LinkInv, Q, Known
  <2>2. CASE ctx_opk'[y] = ctx_opk[y]
    BY <1>1, <1>3, <2>2, <1>12 DEF StageInv, LinkInv, Q, Known
  <2> QED
    BY <1>7, <1>8, <2>1, <2>2
<1>13. AttachedFirst'
  BY <1>1 DEF StageInv, AttachedFirst
<1> QED
  BY <1>9, <1>10, <1>11, <1>12, <1>13 DEF StageInv

\* Entering a state writes the stamps by which the next differs.
NextState(s, pending) ==
  CASE s = "PREPARE" -> IF pending = 0 THEN "IO_DONE" ELSE "AIO_WAIT"
    [] s = "AIO_WAIT" -> "IO_DONE"
    [] s = "IO_DONE" -> "KV_SUBMITTED"
    [] s = "KV_SUBMITTED" -> "FINISHED"

Moving == {"PREPARE", "AIO_WAIT", "IO_DONE", "KV_SUBMITTED"}

LEMMA StampsNext ==
  ASSUME NEW s \in Moving, NEW pending
  PROVE  /\ NextState(s, pending) \in TxcStates \ {"free", "PREPARE"}
         /\ s = "KV_SUBMITTED" <=> NextState(s, pending) = "FINISHED"
         /\ StampsAt(NextState(s, pending)) = StampsAt(s) \cup StateStamps(s, pending)
         /\ StateStamps(s, pending) \subseteq TxcStamps \ {"queue_transaction"}
<1>1. CASE s = "PREPARE"
  BY <1>1 DEF NextState, StampsAt, StateStamps, TxcStates, TxcStamps
<1>2. CASE s = "AIO_WAIT"
  BY <1>2 DEF NextState, StampsAt, StateStamps, TxcStates, TxcStamps
<1>3. CASE s = "IO_DONE"
  BY <1>3 DEF NextState, StampsAt, StateStamps, TxcStates, TxcStamps
<1>4. CASE s = "KV_SUBMITTED"
  BY <1>4 DEF NextState, StampsAt, StateStamps, TxcStates, TxcStamps
<1> QED
  BY <1>1, <1>2, <1>3, <1>4 DEF Moving

\* _txc_state_proc: first by the thread t that queued x, then by others.
LEMMA StateProcStages ==
  ASSUME Calm, BaseInv, StageInv, NEW x \in Txc, NEW s \in Moving, NEW pending,
         StateProc(x, s, pending, NextState(s, pending)), attached' = attached,
         \/ s # "PREPARE" /\ UNCHANGED <<worker, stage>>
         \/ \E t \in Thread :
              /\ s = "PREPARE" /\ worker[t].pc = "costed" /\ worker[t].txc = x
              /\ worker' = [worker EXCEPT ![t] = IdleWorker]
              /\ stage' = IF worker[t].msg \in Msg
                            THEN [stage EXCEPT ![worker[t].msg] = "committing"] ELSE stage
  PROVE  StageInv'
<1> DEFINE k == ctx_opk[x]
           S == StateStamps(s, pending)
           next == NextState(s, pending)
           hit == k # None /\ Known(k)
<1>0. /\ worker \in [Thread -> WorkerRecord] /\ k \in Key \cup {None}
      /\ stage \in [Msg -> Stages]
      /\ txc \in [Txc -> [owner : Msg \cup {Background, None}, state : TxcStates]]
      /\ ptid_opk \in [Thread -> Key \cup {None}] /\ ctx_opk \in [Txc -> Key \cup {None}]
      /\ None \notin Msg /\ None \notin Key /\ None \notin Txc /\ Unset \notin Txc
      /\ Background \notin Msg
  BY BaseFacts, ConstantAssumption DEF ConstantAssumption, Writer
<1>1. /\ txc[x].state = s /\ txc'[x].owner = txc[x].owner /\ txc'[x].state = next
      /\ \A y \in Txc : y # x => txc'[y] = txc[y]
  BY <1>0 DEF StateProc
<1>2. /\ ptid_opk' = ptid_opk
      /\ hit => Writes(k, S, x)
      /\ ~hit => ops' = ops
      /\ ctx_opk' = IF hit /\ s = "KV_SUBMITTED" THEN [ctx_opk EXCEPT ![x] = None] ELSE ctx_opk
  BY CalmFacts, StateProcEffect DEF KeepsPtid
<1>3. /\ next \in TxcStates \ {"free", "PREPARE"}
      /\ s = "KV_SUBMITTED" <=> next = "FINISHED"
      /\ StampsAt(next) = StampsAt(s) \cup S
      /\ S \subseteq TxcStamps \ {"queue_transaction"}
  BY StampsNext
<1> HIDE DEF S, next
\* x is linked to the request it is charged to, and to no other.
<1>4. hit => k \in Key /\ Q(k) = x
  BY <1>0 DEF StageInv, LinkInv
<1>5. ASSUME NEW j \in Key, Known(j), Q(j) = x PROVE hit /\ k = j
  <2>1. Charged(j, x)
    BY <1>0, <1>5 DEF StageInv, EntryInv
  <2>2. CASE s = "PREPARE"
    BY <1>0, <1>5, <2>1, <2>2 DEF Charged
  <2>3. CASE s # "PREPARE"
    BY <1>0, <1>1, <1>5, <2>1, <2>3 DEF Charged, Moving
  <2> QED
    BY <2>2, <2>3
<1>6. \A t \in Thread :
        \/ worker'[t] = worker[t]
        \/ /\ s = "PREPARE" /\ worker[t].pc = "costed" /\ worker[t].txc = x
           /\ worker'[t].pc = "idle" /\ worker'[t].msg = None /\ worker'[t].txc = None
  BY <1>0 DEF IdleWorker
<1>7. \A m \in Msg :
        \/ stage'[m] = stage[m]
        \/ /\ stage[m] = "running" /\ stage'[m] = "committing"
           /\ \E t \in Thread : Storing(t) /\ worker[t].msg = m
  BY <1>0 DEF BaseInv, OsdInv, HoldsRunning, Holds, Storing
<1>8. ASSUME NEW j \in Key PROVE Ready(j)'
  BY <1>0, <1>2, <1>7, <1>8 DEF StageInv, Ready, Known, Writes, OfKey
<1>9. \A j \in Key : Known(j) => /\ ops'[j] # None /\ ops'[j].aged = ops[j].aged
                                 /\ \A w \in Stamps \ S : ops'[j].stamp[w] = ops[j].stamp[w]
  BY <1>2 DEF Writes, StampedBy, Known
<1>10. \A j \in Key : Known(j) => Q(j)' = Q(j)
  BY <1>3, <1>9 DEF Q, TxcStamps, Stamps
<1>11. \A j \in Key : Known(j) => /\ ops'[j].stamp["dequeue"] = ops[j].stamp["dequeue"]
                                  /\ ops'[j].stamp["execute_ctx"] = ops[j].stamp["execute_ctx"]
                                  /\ ops'[j].stamp["submit_transaction"] = ops[j].stamp["submit_transaction"]
  BY <1>3, <1>9 DEF TxcStamps, Stamps
<1>12. \A j \in Key : ops'[j] # None => Known(j)
  BY <1>2 DEF Writes, Known
<1>13. \A j \in Key : Dead(j) => Dead(j)'
  BY <1>0, <1>7 DEF Dead, OfKey
<1>14. ASSUME NEW j \in Key PROVE EntryInv(j)'
  <2> SUFFICES ASSUME ops'[j] # None PROVE EntryInv(j)'
    BY DEF EntryInv, Known
  <2>1. EntryInv(j) /\ Known(j)
    BY <1>12 DEF StageInv
  <2>2. DequeueSeen(j)'
    BY <1>7, <1>11, <2>1 DEF EntryInv, DequeueSeen, IsUnset, OfKey
  <2>3. ExecuteSeen(j)'
    <3> SUFFICES ASSUME TypeOf[j] = "OSD_OP", IsUnset(ops[j], "execute_ctx")
                 PROVE  /\ \A m \in OfKey(j) : stage'[m] # "committing"
                        /\ \A t \in Thread : worker'[t].msg \in OfKey(j) => worker'[t].pc = "dequeued"
      BY <1>11, <2>1 DEF ExecuteSeen, IsUnset, OfKey
    <3>1. /\ \A m \in OfKey(j) : stage[m] # "committing"
          /\ \A t \in Thread : worker[t].msg \in OfKey(j) => worker[t].pc = "dequeued"
      BY <2>1 DEF EntryInv, ExecuteSeen
    <3> QED
      BY <1>0, <1>6, <1>7, <3>1 DEF OfKey, Storing
  <2>4. SubmitRight(j)'
    BY <1>0, <1>2, <1>6, <1>11, <2>1 DEF EntryInv, SubmitRight, IsUnset, OfKey
  <2>5. CASE Q(j) = Unset
    <3>1. j # k /\ ops'[j] = ops[j]
      BY <1>0, <1>2, <1>4, <2>1, <2>5 DEF Writes
    <3>2. QueueSeen(j)
      BY <2>1 DEF EntryInv
    <3>3. \A m \in OfKey(j) : stage'[m] # "committing"
      BY <1>7, <2>5, <3>2 DEF QueueSeen, OfKey
    <3>4. \A t \in Thread : worker'[t].msg \in OfKey(j) => worker'[t] = worker[t]
      BY <1>0, <1>6 DEF OfKey
    <3>5. QueueSeen(j)'
      BY <1>2, <2>5, <3>1, <3>2, <3>3, <3>4 DEF QueueSeen, Storing, IsUnset, OfKey
    <3> QED
      BY <1>9, <1>10, <2>1, <2>2, <2>3, <2>4, <2>5, <3>5 DEF EntryInv
  <2>6. CASE Q(j) # Unset
    <3>1. Charged(j, Q(j)) /\ Q(j)' = Q(j)
      BY <1>10, <2>1, <2>6 DEF EntryInv
    <3>2. QueueSeen(j)'
      BY <2>6, <3>1 DEF QueueSeen
    <3>3. CASE Q(j) = x
      <4>1. hit /\ k = j
        BY <1>5, <2>1, <3>3
      <4>2. \A w \in TxcStamps :
              ops'[j].stamp[w] = IF w \in StampsAt(next) THEN x ELSE Unset
        <5>1. \A w \in TxcStamps : ops'[j].stamp[w] = IF w \in S THEN x ELSE ops[j].stamp[w]
          BY <1>2, <4>1, StampsAre DEF Writes, StampedBy
        <5>2. \A w \in TxcStamps : ops[j].stamp[w] = IF w \in StampsAt(s) THEN x ELSE Unset
          BY <1>1, <3>1, <3>3 DEF Charged
        <5> QED
          BY <1>3, <5>1, <5>2
      <4>3. next \in {"AIO_WAIT", "IO_DONE", "KV_SUBMITTED"} => ctx_opk'[x] = j
        BY <1>2, <1>3, <4>1
      <4>4. \A t \in Thread : worker'[t].txc = x => worker'[t].pc \notin {"queueing", "costed"}
        <5> SUFFICES ASSUME NEW t \in Thread, worker'[t].txc = x,
                            worker'[t].pc \in {"queueing", "costed"}
                     PROVE  FALSE
          OBVIOUS
        <5>1. worker'[t] = worker[t] /\ Storing(t)
          BY <1>0, <1>6 DEF Storing
        <5>2. s = "PREPARE"
          BY <1>1, <5>1 DEF BaseInv, OsdInv, PhaseRight
        <5>3. PICK u \in Thread : worker[u].pc = "costed" /\ worker[u].txc = x
                                  /\ worker' = [worker EXCEPT ![u] = IdleWorker]
          BY <5>2
        <5>4. u = t
          BY <5>1, <5>3 DEF BaseInv, OsdInv, StoresOne, Storing
        <5> QED
          BY <1>0, <5>3, <5>4 DEF IdleWorker
      <4>5. txc[x].owner \in OfKey(j) \/ (txc[x].owner = Background /\ Dead(j)')
        BY <1>13, <3>1, <3>3 DEF Charged
      <4>6. Charged(j, x)'
        BY <1>1, <4>2, <4>3, <4>4, <4>5 DEF Charged, OfKey
      <4> QED
        BY <1>9, <2>1, <2>2, <2>3, <2>4, <3>1, <3>2, <3>3, <4>6 DEF EntryInv
    <3>4. CASE Q(j) # x
      <4>1. ops'[j] = ops[j]
        BY <1>2, <1>4, <3>4 DEF Writes
      <4>2. Q(j) \in Txc /\ ctx_opk'[Q(j)] = ctx_opk[Q(j)] /\ txc'[Q(j)] = txc[Q(j)]
        BY <1>0, <1>1, <1>2, <3>1, <3>4 DEF Charged
      <4>3. \A t \in Thread : worker'[t].txc = Q(j) => worker'[t] = worker[t]
        BY <1>0, <1>6, <4>2
      <4>4. Charged(j, Q(j))'
        BY <1>2, <1>13, <3>1, <4>1, <4>2, <4>3 DEF Charged, OfKey
      <4> QED
        BY <1>9, <2>1, <2>2, <2>3, <2>4, <3>1, <3>2, <4>4 DEF EntryInv
    <3> QED
      BY <3>3, <3>4
  <2> QED
    BY <2>5, <2>6
<1>15. ASSUME NEW u \in Thread PROVE BindInv(u)'
  <2>1. BindInv(u)
    BY <1>15 DEF StageInv
  <2>2. ptid_opk[u] # None => worker'[u] = worker[u]
    BY <1>6, <2>1 DEF BindInv
  <2>3. ptid_opk[u] # None => ptid_opk[u] \in Key
    BY <1>0
  <2> QED
    BY <1>2, <1>9, <1>10, <1>13, <2>1, <2>2, <2>3 DEF BindInv, Known, OfKey
<1>16. ASSUME NEW y \in Txc PROVE LinkInv(y)'
  <2> SUFFICES ASSUME ctx_opk'[y] # None PROVE LinkInv(y)'
    BY DEF LinkInv
  <2>1. ctx_opk'[y] = ctx_opk[y] /\ ctx_opk[y] \in Key /\ LinkInv(y)
    BY <1>0, <1>2 DEF StageInv
  <2>2. Known(ctx_opk[y]) /\ Q(ctx_opk[y]) = y /\ txc[y].state \notin {"free", "FINISHED"}
    BY <2>1 DEF LinkInv
  <2>3. txc'[y].state \notin {"free", "FINISHED"}
    BY <1>0, <1>1, <1>2, <1>3, <2>1, <2>2
  <2>4. ops'[ctx_opk[y]] # None /\ ops'[ctx_opk[y]].stamp["queue_transaction"] = y
    BY <1>9, <1>10, <2>1, <2>2 DEF Q
  <2> QED
    BY <2>1, <2>3, <2>4 DEF LinkInv, Q, Known
<1>17. AttachedFirst'
  BY DEF StageInv, AttachedFirst
<1> QED
  BY <1>8, <1>14, <1>15, <1>16, <1>17 DEF StageInv

-----------------------------------------------------------------------------
(* The invariant holds                                                     *)

LEMMA RequestStages ==
  ASSUME Calm, BaseInv, StageInv, NEW m \in Msg, RequestStep(m)
  PROVE  StageInv'
BY EnqueueStages, RequeueStages, ReplyStages DEF RequestStep

\* The steps of a thread that write no stamp.
LEMMA ThreadFrameStages ==
  ASSUME Calm, BaseInv, StageInv, TypeInv', NEW t \in Thread, NEW m \in Msg, NEW p \in Peer,
         GenerateSubop(t, m, p) \/ PeerReply(t, m, p)
  PROVE  StageInv'
<1>0. /\ worker' \in [Thread -> WorkerRecord] /\ ptid_opk \in [Thread -> Key \cup {None}]
  BY BaseFacts DEF TypeInv, TypeOK, WorkerRecord
<1>1. CASE GenerateSubop(t, m, p)
  <2>1. NoWrites /\ KeepsPtid /\ KeepsCtx
    BY <1>1, SubopEffect
  <2>2. worker' = worker /\ UNCHANGED <<stage, txc>> /\ attached' = attached
    BY <1>1 DEF GenerateSubop
  <2>3. AttachedFirst'
    BY <2>2 DEF StageInv, AttachedFirst
  <2> QED
    BY <1>0, <2>1, <2>2, <2>3, FrameStages DEF KeepsPtid
<1>2. CASE PeerReply(t, m, p)
  <2>1. NoWrites /\ KeepsCtx /\ ptid_opk' = [ptid_opk EXCEPT ![t] = None]
    BY <1>2, CalmFacts, PeerReplyEffect
  <2>2. /\ worker' = worker /\ UNCHANGED <<stage, txc>> /\ attached' = attached
        /\ worker[t].pc = "idle"
    BY <1>2 DEF PeerReply, Work
  <2>3. AttachedFirst'
    BY <2>2 DEF StageInv, AttachedFirst
  <2>4. \A u \in Thread : \/ ptid_opk'[u] = ptid_opk[u]
                          \/ ptid_opk'[u] = None /\ worker[u].pc = "idle"
    BY <1>0, <2>1, <2>2
  <2> QED
    BY <1>0, <2>1, <2>2, <2>3, <2>4, FrameStages
<1> QED
  BY <1>1, <1>2

LEMMA ThreadStages ==
  ASSUME Calm, BaseInv, StageInv, TypeInv', NEW t \in Thread, NEW m \in Msg, ThreadStep(t, m)
  PROVE  StageInv'
<1>1. CASE \E x \in Txc, n \in 1 .. MaxTxns : QueueTransactions(t, m, x, n)
  <2> PICK x \in Txc, n \in 1 .. MaxTxns : QueueTransactions(t, m, x, n)
    BY <1>1
  <2> QED
    BY QueueStages DEF QueueTransactions, Work, Held
<1> QED
  BY <1>1, DequeueStages, PutAsideStages, ExecuteStages, ReplyStages, SubmitStages,
     EcSubmitStages, ThreadFrameStages DEF ThreadStep

LEMMA StoreStages ==
  ASSUME Calm, BaseInv, StageInv, TypeInv', NEW t \in Thread, StoreStep(t)
  PROVE  StageInv'
<1>1. CASE \E x \in Txc, n \in 1 .. MaxTxns : QueuePgWork(t, x, n)
  <2> PICK x \in Txc, n \in 1 .. MaxTxns : QueuePgWork(t, x, n)
    BY <1>1
  <2> QED
    BY QueueStages DEF QueuePgWork, Work
<1>2. CASE \E n \in TxnOps, buffers \in 1 .. 2 : AddTransaction(t, n, buffers)
  <2> PICK n \in TxnOps, buffers \in 1 .. 2 : AddTransaction(t, n, buffers)
    BY <1>2
  <2>1. n \in Nat /\ buffers \in Nat
    BY ConstantAssumption DEF ConstantAssumption
  <2>2. NoWrites /\ KeepsPtid /\ KeepsCtx
    BY <2>1, AddTransactionEffect
  <2>3. worker \in [Thread -> WorkerRecord] /\ worker' \in [Thread -> WorkerRecord]
    BY BaseFacts DEF TypeInv, TypeOK, WorkerRecord
  <2>4. /\ worker' = [worker EXCEPT ![t].txns = @ - 1] /\ UNCHANGED <<stage, txc>>
        /\ attached' = attached
    BY DEF AddTransaction
  <2>5. \A u \in Thread : /\ worker'[u].pc = worker[u].pc /\ worker'[u].msg = worker[u].msg
                          /\ worker'[u].txc = worker[u].txc
    BY <2>3, <2>4 DEF WorkerRecord
  <2>6. AttachedFirst'
    BY <2>4 DEF StageInv, AttachedFirst
  <2> QED
    BY <2>2, <2>3, <2>4, <2>5, <2>6, FrameStages DEF KeepsPtid
<1>3. CASE \E pending \in 0 .. 1 : PrepareTxc(t, pending)
  <2> PICK pending \in 0 .. 1 : PrepareTxc(t, pending)
    BY <1>3
  <2> DEFINE x == worker[t].txc
  <2>1. /\ worker[t].pc = "costed" /\ worker' = [worker EXCEPT ![t] = IdleWorker]
        /\ stage' = IF worker[t].msg \in Msg
                      THEN [stage EXCEPT ![worker[t].msg] = "committing"] ELSE stage
        /\ attached' = attached
        /\ StateProc(x, "PREPARE", pending, NextState("PREPARE", pending))
    BY DEF PrepareTxc, Work, Release, NextState
  <2>2. x \in Txc
    BY <2>1, BaseFacts DEF Storing
  <2>3. "PREPARE" \in Moving
    BY DEF Moving
  <2> HIDE DEF x
  <2>4. worker[t].txc = x
    BY DEF x
  <2> QED
    BY <2>1, <2>2, <2>3, <2>4, StateProcStages
<1> QED
  BY <1>1, <1>2, <1>3, CalcCostStages DEF StoreStep

LEMMA TxcStages ==
  ASSUME Calm, BaseInv, StageInv, NEW x \in Txc, TxcStep(x)
  PROVE  StageInv'
<1> USE DEF Moving
<1>1. CASE AioDone(x)
  <2>1. StateProc(x, "AIO_WAIT", 1, NextState("AIO_WAIT", 1))
    BY <1>1 DEF AioDone, NextState
  <2>2. UNCHANGED <<worker, stage>> /\ attached' = attached
    BY <1>1 DEF AioDone
  <2> QED
    BY <2>1, <2>2, StateProcStages
<1>2. CASE IoDone(x)
  <2>1. StateProc(x, "IO_DONE", 0, NextState("IO_DONE", 0))
    BY <1>2 DEF IoDone, NextState
  <2>2. UNCHANGED <<worker, stage>> /\ attached' = attached
    BY <1>2 DEF IoDone
  <2> QED
    BY <2>1, <2>2, StateProcStages
<1>3. CASE KvSubmitted(x)
  <2>1. StateProc(x, "KV_SUBMITTED", 0, NextState("KV_SUBMITTED", 0))
    BY <1>3 DEF KvSubmitted, NextState
  <2>2. UNCHANGED <<worker, stage>> /\ attached' = attached
    BY <1>3 DEF KvSubmitted
  <2> QED
    BY <2>1, <2>2, StateProcStages
<1> QED
  BY <1>1, <1>2, <1>3 DEF TxcStep

LEMMA TracerStages ==
  ASSUME Calm, BaseInv, StageInv, TypeInv', AttachNext \/ Consume \/ UNCHANGED vars
  PROVE  StageInv'
<1>1. /\ ops' = ops /\ ptid_opk' = ptid_opk /\ ctx_opk' = ctx_opk
      /\ worker' = worker /\ stage' = stage /\ txc' = txc
      /\ attached' = attached \/ (attached < Len(AttachList) /\ attached \in Nat)
  BY BaseFacts DEF AttachNext, Consume, vars, probeVars, maps, osd, TypeInv, TypeOK
<1>2. AttachedFirst'
  BY <1>1, AttachListLength DEF StageInv, AttachedFirst
<1>3. worker' \in [Thread -> WorkerRecord]
  BY BaseFacts, <1>1
<1>4. NoWrites
  BY <1>1, WriteSame
<1> QED
  BY <1>1, <1>2, <1>3, <1>4, FrameStages DEF KeepsCtx

LEMMA StageStep ==
  ASSUME Calm, BaseInv, StageInv, [Next]_vars
  PROVE  StageInv'
<1>1. TypeInv'
  BY BaseFacts, TypeStep
<1>2. /\ ~\E k \in Key : AgePasses(k)
      /\ ~EvictStep
  BY CalmFacts DEF Undisturbed, AgePasses, EvictStep, EvictOp, EvictThread, EvictTxc
<1> QED
  BY <1>1, <1>2, RequestStages, ThreadStages, StoreStages, TxcStages, TracerStages DEF Next

LEMMA StageInit == Init => StageInv
<1> SUFFICES ASSUME Init PROVE StageInv
  OBVIOUS
<1>1. AttachedFirst
  BY DEF Init, AttachedFirst
<1>2. \A k \in Key : ~Known(k)
  BY DEF Init, Known
<1>3. \A k \in Key : EntryInv(k)
  BY <1>2 DEF EntryInv
<1>4. \A k \in Key : Ready(k)
  BY DEF Init, Ready, OfKey
<1>5. \A t \in Thread : BindInv(t)
  BY DEF Init, BindInv
<1>6. \A x \in Txc : LinkInv(x)
  BY DEF Init, LinkInv
<1> QED
  BY <1>1, <1>3, <1>4, <1>5, <1>6 DEF StageInv

-----------------------------------------------------------------------------
(* What is submitted to the ring                                           *)

ReportsInv == \A i \in 1 .. Len(rb) : Complete(rb[i]) /\ OneTxc(rb[i])

\* Only a reply adds to the ring: the record of its request.
LEMMA RingSteps ==
  ASSUME [Next]_vars
  PROVE  \/ rb' = rb
         \/ rb # << >> /\ rb' = Tail(rb)
         \/ \E m \in Msg : /\ Known(KeyOf[m])
                           /\ rb' = Append(rb, Stamp(ops[KeyOf[m]], "reply", m))
                           /\ \/ \E t \in Thread : CompleteRead(t, m)
                              \/ CompleteWrite(m) \/ RepopCommit(m)
<1>1. ASSUME NEW m \in Msg,
             \/ \E t \in Thread : CompleteRead(t, m)
             \/ CompleteWrite(m) \/ RepopCommit(m)
      PROVE  \/ rb' = rb
             \/ Known(KeyOf[m]) /\ rb' = Append(rb, Stamp(ops[KeyOf[m]], "reply", m))
  BY <1>1 DEF CompleteRead, CompleteWrite, RepopCommit, Fires, uprobe_log_op_stats,
              uprobe_repop_commit, Forget, Emit, probeVars, ring
<1>2. ASSUME NEW m \in Msg, RequestStep(m)
      PROVE  rb' = rb \/ CompleteWrite(m) \/ RepopCommit(m)
  BY <1>2 DEF RequestStep, EnqueueOp, RequeueOp, IntervalChange, Fires,
              uprobe_enqueue_op, probeVars, maps, ring
<1>3. ASSUME NEW t \in Thread, NEW m \in Msg, ThreadStep(t, m)
      PROVE  rb' = rb \/ CompleteRead(t, m)
  BY <1>3 DEF ThreadStep, DequeueOp, DelayOp, FinishUnlogged, ExecuteCtx,
              SubmitTransaction, EcSubmitTransaction, GenerateSubop, PeerReply,
              QueueTransactions, Fires, uprobe_dequeue_op, uprobe_mark_flag_point,
              uprobe_mark_flag_point_string, uprobe_execute_ctx,
              uprobe_submit_transaction, uprobe_ec_submit_transaction, Forget,
              uprobe_generate_subop, uprobe_queue_transactions, probeVars, ring
<1>4. ASSUME NEW t \in Thread, StoreStep(t) PROVE rb' = rb
  BY <1>4 DEF StoreStep, QueuePgWork, AddTransaction, CalcCost, PrepareTxc, StateProc,
              Fires, uprobe_queue_transactions, uprobe_txc_add_transaction,
              uprobe_txc_calc_cost, uprobe_txc_state_proc, probeVars, ring
<1>5. ASSUME \/ \E x \in Txc : TxcStep(x)
             \/ \E k \in Key : AgePasses(k)
             \/ AttachNext \/ EvictStep \/ UNCHANGED vars
      PROVE  rb' = rb
  BY <1>5 DEF TxcStep, AioDone, IoDone, KvSubmitted, StateProc, Fires,
              uprobe_txc_state_proc, AgePasses, AttachNext, EvictStep, EvictOp,
              EvictThread, EvictTxc, vars, probeVars, ring
<1>6. CASE Consume
  BY <1>6 DEF Consume
<1> QED
  BY <1>1, <1>2, <1>3, <1>4, <1>5, <1>6 DEF Next

\* A tracked record never shows two TransContexts.
LEMMA EntriesOneTxc ==
  ASSUME StageInv, NEW k \in Key, Known(k)
  PROVE  OneTxc(ops[k])
<1>1. QueueSeen(k) /\ (Q(k) # Unset => Charged(k, Q(k)))
  BY DEF StageInv, EntryInv
<1>2. CASE Q(k) = Unset
  BY <1>1, <1>2 DEF QueueSeen, OneTxc, IsUnset
<1>3. CASE Q(k) # Unset
  <2>1. \A s \in TxcStamps : ops[k].stamp[s] \in {Q(k), Unset}
    BY <1>1, <1>3 DEF Charged
  <2> QED
    BY <2>1 DEF OneTxc
<1> QED
  BY <1>2, <1>3

\* The record of a request that is answered has every stage.
LEMMA AnsweredComplete ==
  ASSUME Calm, BaseInv, StageInv, NEW m \in Msg, Known(KeyOf[m]),
         \/ \E t \in Thread : CompleteRead(t, m)
         \/ CompleteWrite(m) \/ RepopCommit(m)
  PROVE  Complete(ops[KeyOf[m]])
<1> DEFINE k == KeyOf[m]
           e == ops[KeyOf[m]]
<1>0. /\ k \in Key /\ m \in OfKey(k) /\ EntryInv(k) /\ e \in OpV /\ e.op_type = TypeOf[k]
      /\ Unset \notin Txc
  BY KeyTyped, BaseFacts, ConstantAssumption DEF StageInv, OfKey, ConstantAssumption, Writer
<1>1. CASE CompleteWrite(m) \/ RepopCommit(m)
  <2>1. stage[m] = "committing" /\ \A x \in Txc : txc[x].owner \in OfKey(k) => txc[x].state = "FINISHED"
    BY <1>1 DEF CompleteWrite, RepopCommit, Committed, TxcsOf, OfKey
  <2>2. ~IsUnset(e, "dequeue") /\ (e.op_type = "OSD_OP" => ~IsUnset(e, "execute_ctx"))
    BY <1>0, <2>1 DEF EntryInv, DequeueSeen, ExecuteSeen
  <2>3. Q(k) # Unset /\ ~Dead(k)
    BY <1>0, <2>1 DEF EntryInv, QueueSeen, Dead
  <2>4. Charged(k, Q(k))
    BY <1>0, <2>3 DEF EntryInv
  <2>5. Q(k) \in Txc /\ txc[Q(k)].state = "FINISHED"
    BY <2>1, <2>3, <2>4 DEF Charged
  <2>6. TxcStamps \subseteq StampsAt("FINISHED")
    BY DEF StampsAt, TxcStamps
  <2>7. \A s \in TxcStamps : e.stamp[s] = Q(k)
    BY <2>4, <2>5, <2>6 DEF Charged
  <2> QED
    BY <1>0, <2>2, <2>5, <2>7 DEF Complete, IsUnset
<1>2. ASSUME NEW t \in Thread, CompleteRead(t, m) PROVE Complete(e)
  <2>1. worker[t].pc = "executed" /\ worker[t].msg = m /\ m \in Reads
    BY <1>2 DEF CompleteRead, Work, Held
  <2>2. stage[m] = "running" /\ TypeOf[k] = "OSD_OP"
    BY <2>1 DEF BaseInv, OsdInv, HoldsRunning, Holds, PhaseRight, TypeOfMsg
  <2>3. ~IsUnset(e, "dequeue") /\ ~IsUnset(e, "execute_ctx")
    BY <1>0, <2>1, <2>2 DEF EntryInv, DequeueSeen, ExecuteSeen
  <2>4. \A n \in OfKey(k) : n \in Reads
    BY <2>1, CalmFacts DEF AlikeByKey, OfKey
  <2>5. IsUnset(e, "submit_transaction")
    BY <1>0, <2>4 DEF EntryInv, SubmitRight
  <2> QED
    BY <1>0, <2>2, <2>3, <2>5 DEF Complete, IsWrite
<1> QED
  BY <1>1, <1>2

\* The reply stamp is none of the stages'.
LEMMA ReplyStampAlike ==
  ASSUME NEW e \in OpV, NEW m \in Msg
  PROVE  /\ Complete(e) => Complete(Stamp(e, "reply", m))
         /\ OneTxc(e) => OneTxc(Stamp(e, "reply", m))
<1> DEFINE f == Stamp(e, "reply", m)
<1>1. f.op_type = e.op_type /\ \A s \in Stamps \ {"reply"} : f.stamp[s] = e.stamp[s]
  BY DEF Stamp, OpV
<1>2. TxcStamps \subseteq Stamps \ {"reply"}
  BY StampsAre
<1>3. {"dequeue", "execute_ctx", "submit_transaction"} \subseteq Stamps \ {"reply"}
  BY DEF Stamps
<1> HIDE DEF f
<1>4. Complete(e) => Complete(f)
  BY <1>1, <1>2, <1>3 DEF Complete, IsWrite, IsUnset
<1>5. OneTxc(e) => OneTxc(f)
  BY <1>1, <1>2 DEF OneTxc
<1> QED
  BY <1>4, <1>5 DEF f

LEMMA ReportsInvStep ==
  ASSUME Calm, BaseInv, StageInv, ReportsInv, [Next]_vars
  PROVE  ReportsInv'
<1>0. rb \in Seq(OpV)
  BY TypeParts DEF BaseInv, IInv, ProbesTyped
<1>1. CASE rb' = rb
  BY <1>1 DEF ReportsInv, Complete, OneTxc, IsWrite, IsUnset
<1>2. CASE rb # << >> /\ rb' = Tail(rb)
  <2>1. Len(rb') = Len(rb) - 1 /\ \A i \in 1 .. Len(rb') : rb'[i] = rb[i + 1]
    BY <1>0, <1>2
  <2>2. Len(rb) \in Nat
    BY <1>0
  <2> SUFFICES ASSUME NEW i \in 1 .. Len(rb') PROVE Complete(rb'[i]) /\ OneTxc(rb'[i])
    BY DEF ReportsInv, Complete, OneTxc, IsWrite, IsUnset
  <2>3. i + 1 \in 1 .. Len(rb)
    BY <2>1, <2>2
  <2> QED
    BY <2>1, <2>3 DEF ReportsInv
<1>3. ASSUME NEW m \in Msg, Known(KeyOf[m]),
             rb' = Append(rb, Stamp(ops[KeyOf[m]], "reply", m)),
             \/ \E t \in Thread : CompleteRead(t, m)
             \/ CompleteWrite(m) \/ RepopCommit(m)
      PROVE  ReportsInv'
  <2> DEFINE e == Stamp(ops[KeyOf[m]], "reply", m)
  <2>1. KeyOf[m] \in Key /\ ops[KeyOf[m]] \in OpV
    BY <1>3, KeyTyped, BaseFacts
  <2>2. e \in OpV
    BY <2>1, StampTyped DEF Stamps, Writer
  <2>3. Complete(e) /\ OneTxc(e)
    BY <1>3, <2>1, EntriesOneTxc, AnsweredComplete, ReplyStampAlike
  <2>4. rb' = Append(rb, e)
    BY <1>3
  <2> HIDE DEF e
  <2> SUFFICES ASSUME NEW i \in 1 .. Len(rb') PROVE Complete(rb'[i]) /\ OneTxc(rb'[i])
    BY DEF ReportsInv, Complete, OneTxc, IsWrite, IsUnset
  <2>5. (i \in 1 .. Len(rb) /\ rb'[i] = rb[i]) \/ rb'[i] = e
    BY <1>0, <2>2, <2>4
  <2> QED
    BY <2>3, <2>5 DEF ReportsInv
<1> QED
  BY <1>1, <1>2, <1>3, RingSteps

-----------------------------------------------------------------------------
(* The theorems                                                            *)

\* The inductive invariant: the records' own, the OSD's side and the stages.
CalmInv == BaseInv /\ StageInv /\ ReportsInv

LEMMA CalmHolds ==
  ASSUME Calm
  PROVE  Spec => []CalmInv
<1>1. Init => StageInv /\ ReportsInv
  <2>1. Init => ReportsInv
    BY DEF Init, ReportsInv
  <2> QED
    BY <2>1, StageInit
<1>2. CalmInv /\ [Next]_vars => StageInv' /\ ReportsInv'
  BY StageStep, ReportsInvStep DEF CalmInv
<1>3. "BlueStore::_txc_calc_cost" \in Probes
  BY CalmFacts, RowsAre DEF Undisturbed
<1>4. IInv /\ [Next]_vars => IInv'
  BY <1>3, StepOwn
<1>5. BaseInv <=> RecordInv /\ OsdInv /\ IInv
  BY DEF BaseInv
<1>6. CalmInv <=> BaseInv /\ StageInv /\ ReportsInv
  BY DEF CalmInv
<1> QED
  BY <1>1, <1>2, <1>4, <1>5, <1>6, Records, InitOwn, OsdInit, OsdStep, PTL DEF Spec

\* Whatever is submitted to the ring has every stamp generate_op subtracts
\* from another, for any requests, delayed, interrupted and resent ones
\* included, any threads and transactions and any moment the probes are
\* attached at, as long as nothing disturbs the tracer (Undisturbed), no
\* record begins half-way through a request (StartsClean), no thread keeps the
\* binding of a replica's request that waits and is then taken up again
\* (ReplicaCalm), and resends are like the request they repeat (AlikeByKey):
\* uprobe_dequeue_op, uprobe_execute_ctx, uprobe_queue_transactions,
\* uprobe_txc_calc_cost and uprobe_txc_state_proc miss no stage between them.
THEOREM StagesComplete ==
  ASSUME Calm
  PROVE  Spec => []ReportsAreComplete
<1>1. CalmInv => ReportsAreComplete
  BY DEF CalmInv, ReportsInv, Complete, ReportsAreComplete, Submitted
<1> QED
  BY <1>1, CalmHolds, PTL

\* The BlueStore stages of a record, tracked or reported, all come from one
\* TransContext under the same conditions, though a requeued request is
\* executed again and queues another transaction (uprobe_queue_transactions
\* drops the thread's binding for that one).
THEOREM OneTransaction ==
  ASSUME Calm
  PROVE  Spec => []OneTransactionPerReport
<1>1. CalmInv => OneTransactionPerReport
  <2> SUFFICES ASSUME CalmInv, NEW e \in TrackedEntries \cup Submitted PROVE OneTxc(e)
    BY DEF OneTransactionPerReport, OneTxc
  <2>1. CASE e \in TrackedEntries
    BY <2>1, EntriesOneTxc DEF TrackedEntries, CalmInv
  <2>2. CASE e \in Submitted
    BY <2>2 DEF Submitted, CalmInv, ReportsInv
  <2> QED
    BY <2>1, <2>2
<1> QED
  BY <1>1, CalmHolds, PTL

\* A link from a TransContext to a request is taken away when the TransContext
\* is committed, and none is made before it is queued: ctx_opk keeps no link
\* nobody will follow (uprobe_txc_calc_cost, uprobe_txc_state_proc).
THEOREM LinksEnd ==
  ASSUME Calm
  PROVE  Spec => []LinksReleased
<1>1. CalmInv => LinksReleased
  BY DEF CalmInv, StageInv, LinkInv, LinksReleased
<1> QED
  BY <1>1, CalmHolds, PTL

-----------------------------------------------------------------------------
(* The peers of a replicated write                                         *)

\* No write starts over.
Uninterrupted == MaxRequeues = 0

\* The peers a write waits for: none until it is submitted, all of them once
\* its transaction is queued.
WaitsRight ==
  /\ \A m \in Msg : stage[m] \in {"new", "queued", "waiting"} => waitfor[m] = {}
  /\ \A t \in Thread : Holds(t) =>
       /\ worker[t].pc \in {"dequeued", "executed"} => waitfor[worker[t].msg] = {}
       /\ Storing(t) /\ Submits(worker[t].msg) => waitfor[worker[t].msg] = Peer

\* The slots are filled in order and with different peers.
SlotsRight(e) ==
  /\ e.peer1 = None => e.peer2 = None /\ e.recv1 = None /\ e.recv2 = None
  /\ e.peer2 # None => e.peer1 # e.peer2

\* With the peers of W sent to: the slots are of the first and the last of them.
SentRight(e, W) ==
  /\ e.recv1 = None /\ e.recv2 = None
  /\ IF W = {} THEN e.peer1 = None ELSE e.peer1 \in W
  /\ W \ {e.peer1} # {} => e.peer2 \in W \ {e.peer1} /\ e.sent = e.peer2

\* With all sent to, and the peers of W still to answer.
HeardRight(e, W) ==
  /\ Peer # {} => e.peer1 \in Peer /\ (e.peer1 \notin W => e.recv1 = e.peer1)
  /\ Peer \ {e.peer1} # {} =>
       /\ e.peer2 \in Peer \ {e.peer1} /\ e.sent = e.peer2
       /\ e.peer2 \notin W => e.recv2 = e.peer2

Sending(t) == worker[t].pc \in {"submitted", "queueing", "costed"}

\* The slots say whom the key's submitted write was sent to, and who answered.
PeersRight(k) ==
  /\ SlotsRight(ops[k])
  /\ ops[k].peer1 # None => k \in pglog
  /\ \A t \in Thread :
       worker[t].msg \in OfKey(k) /\ Submits(worker[t].msg) /\ Sending(t) =>
         SentRight(ops[k], waitfor[worker[t].msg])
  /\ \A m \in OfKey(k) :
       Submits(m) /\ stage[m] = "committing" => HeardRight(ops[k], waitfor[m])

PeersInv ==
  /\ WaitsRight /\ EcUntracked /\ WrittenOnce
  /\ \A k \in Key : Known(k) /\ TypeOf[k] = "OSD_OP" => PeersRight(k)

LEMMA WaitsStep ==
  ASSUME OsdInv, OsdInv', WaitsRight, [Next]_vars
  PROVE  WaitsRight'
<1>0. /\ worker \in [Thread -> WorkerRecord] /\ stage \in [Msg -> Stages]
      /\ waitfor \in [Msg -> SUBSET Peer]
      /\ None \notin Msg /\ Background \notin Msg /\ Background # None
  BY OsdFacts DEF OsdInv, TypeInv, TypeOK
<1> USE <1>0
    DEF Work, Held, GoTo, Release, SetStage, IdleWorker, OsdInv, HoldsRunning,
        WaitsRight, Holds, Storing, Submits, TypeOfMsg, WorkerRecord
<1>1. ASSUME NEW m \in Msg, RequestStep(m) PROVE WaitsRight'
  BY <1>1 DEF RequestStep, EnqueueOp, RequeueOp, IntervalChange, CompleteWrite,
              RepopCommit, Committed
<1>2. ASSUME NEW t \in Thread, NEW m \in Msg, ThreadStep(t, m) PROVE WaitsRight'
  <2>1. CASE DequeueOp(t, m)
    BY <2>1 DEF DequeueOp
  <2>2. CASE DelayOp(t, m)
    BY <2>2 DEF DelayOp
  <2>3. CASE FinishUnlogged(t, m) \/ CompleteRead(t, m)
    BY <2>3 DEF FinishUnlogged, CompleteRead
  <2>4. CASE ExecuteCtx(t, m)
    BY <2>4 DEF ExecuteCtx
  <2>5. CASE SubmitTransaction(t, m) \/ EcSubmitTransaction(t, m)
    BY <2>5 DEF SubmitTransaction, EcSubmitTransaction
  <2>6. CASE \E p \in Peer : GenerateSubop(t, m, p)
    BY <2>6 DEF GenerateSubop
  <2>7. CASE \E p \in Peer : PeerReply(t, m, p)
    BY <2>7 DEF PeerReply
  <2>8. CASE \E x \in Txc, n \in 1 .. MaxTxns : QueueTransactions(t, m, x, n)
    BY <2>8 DEF QueueTransactions
  <2> QED
    BY <1>2, <2>1, <2>2, <2>3, <2>4, <2>5, <2>6, <2>7, <2>8 DEF ThreadStep
<1>3. ASSUME NEW t \in Thread, StoreStep(t) PROVE WaitsRight'
  <2>1. CASE \E x \in Txc, n \in 1 .. MaxTxns : QueuePgWork(t, x, n)
    BY <2>1 DEF QueuePgWork
  <2>2. CASE \E n \in TxnOps, buffers \in 1 .. 2 : AddTransaction(t, n, buffers)
    BY <2>2 DEF AddTransaction
  <2>3. CASE CalcCost(t)
    BY <2>3 DEF CalcCost
  <2>4. CASE \E pending \in 0 .. 1 : PrepareTxc(t, pending)
    BY <2>4 DEF PrepareTxc
  <2> QED
    BY <1>3, <2>1, <2>2, <2>3, <2>4 DEF StoreStep
<1>4. ASSUME \/ \E x \in Txc : TxcStep(x)
             \/ \E k \in Key : AgePasses(k)
             \/ AttachNext \/ Consume \/ EvictStep \/ UNCHANGED vars
      PROVE  WaitsRight'
  BY <1>4 DEF TxcStep, AioDone, IoDone, KvSubmitted, AgePasses, AttachNext, Consume,
              EvictStep, EvictOp, EvictThread, EvictTxc, osd, vars
<1> QED
  BY <1>1, <1>2, <1>3, <1>4 DEF Next

\* What the OSD does for a key while the record's peers stay as they are.
OsdMoves(k) ==
  /\ k \in pglog => k \in pglog'
  /\ \A t \in Thread : worker'[t].msg \in OfKey(k) /\ Submits(worker'[t].msg) /\ Sending(t)' =>
       /\ waitfor'[worker'[t].msg] = waitfor[worker'[t].msg]
       /\ \/ worker[t].msg = worker'[t].msg /\ Sending(t)
          \/ k \notin pglog /\ waitfor[worker'[t].msg] = {}
  /\ \A m \in OfKey(k) : Submits(m) /\ stage'[m] = "committing" =>
       /\ waitfor'[m] = waitfor[m]
       /\ \/ stage[m] = "committing"
          \/ \E t \in Thread : worker[t].msg = m /\ worker[t].pc = "costed"

LEMMA PeersFrame ==
  ASSUME ProbesTyped, WaitsRight, NEW k \in Key, Known(k), PeersRight(k),
         SamePeers(ops[k], ops'[k]), OsdMoves(k)
  PROVE  PeersRight(k)'
<1> DEFINE e == ops[k]
           f == ops'[k]
<1>0. /\ f.peer1 = e.peer1 /\ f.peer2 = e.peer2 /\ f.sent = e.sent
      /\ f.recv1 = e.recv1 /\ f.recv2 = e.recv2 /\ None \notin Peer
  BY ConstantAssumption DEF SamePeers, ConstantAssumption
<1>1. SlotsRight(f) /\ (f.peer1 # None => k \in pglog')
  BY <1>0 DEF PeersRight, SlotsRight, OsdMoves
<1>2. ASSUME NEW t \in Thread, worker'[t].msg \in OfKey(k), Submits(worker'[t].msg), Sending(t)'
      PROVE  SentRight(f, waitfor'[worker'[t].msg])
  <2> DEFINE m == worker'[t].msg
  <2>1. waitfor'[m] = waitfor[m]
    BY <1>2 DEF OsdMoves
  <2>2. CASE worker[t].msg = m /\ Sending(t)
    BY <1>0, <1>2, <2>1, <2>2 DEF PeersRight, SentRight
  <2>3. CASE k \notin pglog /\ waitfor[m] = {}
    BY <1>0, <2>1, <2>3 DEF PeersRight, SlotsRight, SentRight
  <2> QED
    BY <1>2, <2>2, <2>3 DEF OsdMoves
<1>3. ASSUME NEW m \in OfKey(k), Submits(m), stage'[m] = "committing"
      PROVE  HeardRight(f, waitfor'[m])
  <2>1. waitfor'[m] = waitfor[m]
    BY <1>3 DEF OsdMoves
  <2>2. HeardRight(e, waitfor[m])
    <3>1. CASE stage[m] = "committing"
      BY <1>3, <3>1 DEF PeersRight
    <3>2. ASSUME NEW t \in Thread, worker[t].msg = m, worker[t].pc = "costed"
          PROVE  HeardRight(e, waitfor[m])
      BY <1>3, <3>2 DEF PeersRight, SentRight, HeardRight, WaitsRight, Sending, Storing,
                        Holds, OfKey
    <3> QED
      BY <1>3, <3>1, <3>2 DEF OsdMoves
  <2> QED
    BY <1>0, <2>1, <2>2 DEF HeardRight
<1> QED
  BY <1>1, <1>2, <1>3 DEF PeersRight, Submits, TypeOfMsg, OfKey

LEMMA OsdMovesStep ==
  ASSUME Uninterrupted, OsdInv, WaitsRight, WrittenOnce, [Next]_vars,
         NEW k \in Key, TypeOf[k] = "OSD_OP",
         ~\E m \in OfKey(k), t \in Thread, p \in Peer :
            GenerateSubop(t, m, p) \/ PeerReply(t, m, p)
  PROVE  OsdMoves(k)
<1>0. /\ worker \in [Thread -> WorkerRecord] /\ stage \in [Msg -> Stages]
      /\ waitfor \in [Msg -> SUBSET Peer] /\ requeues \in Nat /\ MaxRequeues = 0
      /\ None \notin Msg /\ Background \notin Msg /\ Background # None
  BY OsdFacts DEF OsdInv, TypeInv, TypeOK, Uninterrupted
<1> USE <1>0
    DEF Work, Held, GoTo, Release, SetStage, IdleWorker, WaitsRight, Holds, Sending,
        OsdMoves, WorkerRecord
<1>1. ASSUME NEW m \in Msg, RequestStep(m) PROVE OsdMoves(k)
  BY <1>1 DEF RequestStep, EnqueueOp, RequeueOp, IntervalChange, CompleteWrite,
              RepopCommit, Committed, OfKey
<1>2. ASSUME NEW t \in Thread, NEW m \in Msg, ThreadStep(t, m) PROVE OsdMoves(k)
  <2>1. CASE DequeueOp(t, m)
    BY <2>1 DEF DequeueOp, OfKey
  <2>2. CASE DelayOp(t, m) \/ FinishUnlogged(t, m) \/ CompleteRead(t, m)
    BY <2>2 DEF DelayOp, FinishUnlogged, CompleteRead, OfKey
  <2>3. CASE ExecuteCtx(t, m)
    BY <2>3 DEF ExecuteCtx, OfKey
  <2>4. CASE SubmitTransaction(t, m)
    <3>1. /\ worker[t].pc = "executed" /\ worker[t].msg = m /\ m \notin Reads
          /\ TypeOfMsg(m) = "OSD_OP"
      BY <2>4 DEF SubmitTransaction, OsdInv, PhaseRight
    <3>2. KeyOf[m] \notin pglog /\ waitfor[m] = {}
      BY <3>1 DEF WrittenOnce, ClientWrites
    <3> QED
      BY <2>4, <3>1, <3>2 DEF SubmitTransaction, OfKey
  <2>5. CASE EcSubmitTransaction(t, m)
    BY <2>5 DEF EcSubmitTransaction, OfKey, Submits
  <2>6. CASE \E p \in Peer : GenerateSubop(t, m, p) \/ PeerReply(t, m, p)
    <3>1. m \notin OfKey(k)
      BY <2>6
    <3> QED
      BY <2>6, <3>1 DEF GenerateSubop, PeerReply, OfKey
  <2>7. CASE \E x \in Txc, n \in 1 .. MaxTxns : QueueTransactions(t, m, x, n)
    <3> PICK x \in Txc, n \in 1 .. MaxTxns : QueueTransactions(t, m, x, n)
      BY <2>7
    <3>1. /\ worker[t].msg = m /\ waitfor' = waitfor /\ stage' = stage /\ pglog' = pglog
          /\ worker' = [worker EXCEPT ![t] =
                          [pc |-> "queueing", msg |-> m, txc |-> x, txns |-> n]]
          /\ worker[t].pc = "submitted" \/ TypeOfMsg(m) = "OSD_REPOP"
      BY DEF QueueTransactions
    <3> QED
      BY <3>1 DEF Submits, OfKey
  <2> QED
    BY <1>2, <2>1, <2>2, <2>3, <2>4, <2>5, <2>6, <2>7 DEF ThreadStep
<1>3. ASSUME NEW t \in Thread, StoreStep(t) PROVE OsdMoves(k)
  <2>1. CASE \E x \in Txc, n \in 1 .. MaxTxns : QueuePgWork(t, x, n)
    BY <2>1 DEF QueuePgWork, OfKey
  <2>2. CASE \E n \in TxnOps, buffers \in 1 .. 2 : AddTransaction(t, n, buffers)
    BY <2>2 DEF AddTransaction
  <2>3. CASE CalcCost(t)
    BY <2>3 DEF CalcCost
  <2>4. CASE \E pending \in 0 .. 1 : PrepareTxc(t, pending)
    BY <2>4 DEF PrepareTxc, OfKey
  <2> QED
    BY <1>3, <2>1, <2>2, <2>3, <2>4 DEF StoreStep
<1>4. ASSUME \/ \E x \in Txc : TxcStep(x)
             \/ \E j \in Key : AgePasses(j)
             \/ AttachNext \/ Consume \/ EvictStep \/ UNCHANGED vars
      PROVE  OsdMoves(k)
  BY <1>4 DEF TxcStep, AioDone, IoDone, KvSubmitted, AgePasses, AttachNext, Consume,
              EvictStep, EvictOp, EvictThread, EvictTxc, osd, vars
<1> QED
  BY <1>1, <1>2, <1>3, <1>4 DEF Next

\* A peer that is sent to takes a slot, the last one the second.
LEMMA SubopPeers ==
  ASSUME Calm, BaseInv, WrittenOnce, NEW t \in Thread, NEW m \in Msg, NEW p \in Peer,
         GenerateSubop(t, m, p), Known(KeyOf[m]), PeersRight(KeyOf[m])
  PROVE  PeersRight(KeyOf[m])'
<1> DEFINE k == KeyOf[m]
           e == ops[k]
           f == [TakeSlot(e, p) EXCEPT !.sent = p]
<1>0. /\ k \in Key /\ e \in OpV /\ ops \in [Key -> OpV \cup {None}] /\ m \in OfKey(k)
      /\ waitfor \in [Msg -> SUBSET Peer] /\ None \notin Peer
  BY KeyTyped, BaseFacts, ConstantAssumption DEF TypeInv, TypeOK, OfKey, ConstantAssumption
<1>1. ops'[k] = f
  <2>1. Live("ReplicatedBackend::generate_subop")
    BY <1>0, RowsAre, CalmFacts, LiveOrIdle
  <2> QED
    BY <1>0, <2>1, CalmFacts, ReadsAll DEF GenerateSubop, Fires, uprobe_generate_subop
<1>2. /\ worker[t].pc = "submitted" /\ worker[t].msg = m /\ p \notin waitfor[m]
      /\ stage' = stage /\ worker' = worker /\ pglog' = pglog
      /\ waitfor' = [waitfor EXCEPT ![m] = @ \cup {p}]
  BY DEF GenerateSubop, Work, Held
<1>3. Submits(m) /\ Sending(t) /\ stage[m] = "running"
  BY <1>2 DEF BaseInv, OsdInv, PhaseRight, Sending, HoldsRunning, Holds
<1>4. SlotsRight(e) /\ SentRight(e, waitfor[m])
  BY <1>0, <1>2, <1>3 DEF PeersRight
<1>5. /\ e.peer1 = None => f.peer1 = p /\ f.peer2 = e.peer2
      /\ e.peer1 # None => f.peer1 = e.peer1 /\ f.peer2 = p
      /\ f.recv1 = e.recv1 /\ f.recv2 = e.recv2 /\ f.sent = p
  BY <1>0 DEF TakeSlot, OpV
<1> HIDE DEF f
<1>6. SlotsRight(f) /\ SentRight(f, waitfor[m] \cup {p})
  BY <1>0, <1>2, <1>4, <1>5 DEF SlotsRight, SentRight
<1>7. k \in pglog /\ \A n \in OfKey(k) : Submits(n) /\ stage[n] = "committing" => n = m
  BY <1>0, <1>2, <1>3 DEF WrittenOnce, ClientWrites, Past, Submits, OfKey
<1>8. \A u \in Thread : worker[u].msg \in OfKey(k) => worker[u].msg = m
  BY <1>0, <1>2 DEF BaseInv, OsdInv, HoldsRunning, Holds, OfKey
<1>9. waitfor'[m] = waitfor[m] \cup {p}
  BY <1>0, <1>2
<1> QED
  BY <1>0, <1>1, <1>2, <1>3, <1>6, <1>7, <1>8, <1>9
     DEF PeersRight, Submits, TypeOfMsg, OfKey, Sending

\* A peer that answers is told by its slot.
LEMMA ReplyPeers ==
  ASSUME Calm, BaseInv, WrittenOnce, NEW t \in Thread, NEW m \in Msg, NEW p \in Peer,
         PeerReply(t, m, p), Known(KeyOf[m]), TypeOfMsg(m) = "OSD_OP", PeersRight(KeyOf[m]),
         EcUntracked
  PROVE  PeersRight(KeyOf[m])'
<1> DEFINE k == KeyOf[m]
           e == ops[k]
           f == CASE p = e.peer1 -> [e EXCEPT !.recv1 = p]
                  [] p # e.peer1 /\ p = e.peer2 -> [e EXCEPT !.recv2 = p]
                  [] OTHER -> e
<1>0. /\ k \in Key /\ e \in OpV /\ ops \in [Key -> OpV \cup {None}] /\ m \in OfKey(k)
      /\ waitfor \in [Msg -> SUBSET Peer] /\ None \notin Peer
  BY KeyTyped, BaseFacts, ConstantAssumption DEF TypeInv, TypeOK, OfKey, ConstantAssumption
<1>1. ops'[k] = f
  <2>1. Live("ReplicatedBackend::do_repop_reply")
    BY <1>0, RowsAre, CalmFacts, LiveOrIdle
  <2>2. uprobe_do_repop_reply(m, p) /\ CanRead("reply.key")
    BY <2>1, CalmFacts, ReadsAll DEF PeerReply
  <2> HIDE DEF f
  <2>3. ops' = [ops EXCEPT ![k] = f]
    BY <2>2 DEF uprobe_do_repop_reply, f
  <2> QED
    BY <1>0, <2>3
<1>2. /\ stage[m] = "committing" /\ p \in waitfor[m]
      /\ stage' = stage /\ worker' = worker /\ pglog' = pglog
      /\ waitfor' = [waitfor EXCEPT ![m] = @ \ {p}]
  BY DEF PeerReply
<1>3. Submits(m)
  BY <1>0, <1>2 DEF BaseInv, OsdInv, CommitsRight, EcUntracked, Submits, TypeOfMsg
<1>4. SlotsRight(e) /\ HeardRight(e, waitfor[m])
  BY <1>0, <1>2, <1>3 DEF PeersRight
<1>5. /\ f.peer1 = e.peer1 /\ f.peer2 = e.peer2
      /\ f.sent = e.sent
      /\ f.recv1 = IF p = e.peer1 THEN p ELSE e.recv1
      /\ f.recv2 = IF p # e.peer1 /\ p = e.peer2 THEN p ELSE e.recv2
  BY <1>0 DEF OpV
<1> HIDE DEF f
<1>6. SlotsRight(f) /\ HeardRight(f, waitfor[m] \ {p})
  BY <1>0, <1>4, <1>5 DEF SlotsRight, HeardRight
<1>7. k \in pglog /\ \A n \in OfKey(k) : Submits(n) /\ stage[n] = "committing" => n = m
  BY <1>0, <1>2, <1>3 DEF WrittenOnce, ClientWrites, Past, Submits, OfKey
<1>8. \A u \in Thread : worker[u].msg \in OfKey(k) /\ Submits(worker[u].msg) => ~Sending(u)
  <2> SUFFICES ASSUME NEW u \in Thread, worker[u].msg \in OfKey(k), Submits(worker[u].msg), Sending(u)
               PROVE  FALSE
    OBVIOUS
  <2>1. worker[u].msg = m
    BY <1>0, <1>2, <1>3 DEF WrittenOnce, ClientWrites, Past, Submits, Sending, OfKey
  <2> QED
    BY <1>2, <2>1 DEF BaseInv, OsdInv, HoldsRunning, Holds
<1>9. waitfor'[m] = waitfor[m] \ {p}
  BY <1>0, <1>2
<1> QED
  BY <1>0, <1>1, <1>2, <1>3, <1>5, <1>6, <1>7, <1>8, <1>9
     DEF PeersRight, Submits, TypeOfMsg, OfKey, Sending

\* A record begins with no peers, and no message of its key is half-way.
LEMMA BeginPeers ==
  ASSUME BaseInv, StageInv, OsdInv', [Next]_vars,
         NEW k \in Key, TypeOf[k] = "OSD_OP", ~Known(k), ops'[k] # None
  PROVE  PeersRight(k)'
<1>0. /\ stage \in [Msg -> Stages] /\ ops \in [Key -> OpV \cup {None}]
      /\ TypeInv /\ EntriesNamed
  BY BaseFacts DEF BaseInv, RecordInv
<1>1. PICK m \in Msg : Enqueues(m)
  BY <1>0, StepContinues DEF EntriesContinue
<1>2. KeyOf[m] = k /\ ops'[k] = NewEntry(m)
  BY <1>0, <1>1, KeyTyped DEF Enqueues, Known
<1>3. \A n \in OfKey(k) : stage[n] \in {"new", "replied", "done"}
  <2>1. m \in OfKey(k) /\ stage[m] = "new" /\ Ready(k) /\ TypeOf[k] \in Tracked
    BY <1>1, <1>2 DEF Enqueues, StageInv, OfKey, Tracked
  <2> QED
    BY <2>1 DEF Ready
<1>4. \A n \in OfKey(k) : stage'[n] \in {"queued", "new", "replied", "done"}
  BY <1>0, <1>1, <1>3 DEF Enqueues, OfKey
<1>5. \A t \in Thread : worker'[t].msg \notin OfKey(k)
  BY <1>4 DEF OsdInv, HoldsRunning, Holds, OfKey
<1>6. SlotsRight(NewEntry(m)) /\ NewEntry(m).peer1 = None
  BY DEF SlotsRight, NewEntry
<1> QED
  BY <1>2, <1>4, <1>5, <1>6 DEF PeersRight, OfKey

LEMMA PeersInvStep ==
  ASSUME Calm, Uninterrupted, BaseInv, StageInv, PeersInv, OsdInv', [Next]_vars
  PROVE  PeersInv'
<1>0. /\ OsdInv /\ RecordInv /\ ProbesTyped /\ EcSeen /\ EcOnce /\ AlikeByKey
      /\ ~Evicts /\ CanRead("enqueue.stamps")
      /\ ops \in [Key -> OpV \cup {None}] /\ \A m \in Msg : KeyOf[m] \in Key
  BY CalmFacts, BaseFacts, ReadsAll, RowsAre, KeyTyped DEF BaseInv, Undisturbed, EcSeen
<1>1. WaitsRight' /\ EcUntracked' /\ WrittenOnce'
  BY <1>0, WaitsStep, EcUntrackedStep, WrittenOnceStep DEF PeersInv
<1>2. ASSUME NEW k \in Key, ops'[k] # None, TypeOf[k] = "OSD_OP" PROVE PeersRight(k)'
  <2>1. CASE ~Known(k)
    BY <1>2, <2>1, BeginPeers
  <2> SUFFICES ASSUME Known(k) PROVE PeersRight(k)'
    BY <2>1
  <2>2. PeersRight(k)
    BY <1>2 DEF PeersInv
  <2>3. ASSUME NEW m \in OfKey(k), NEW t \in Thread, NEW p \in Peer,
               GenerateSubop(t, m, p) \/ PeerReply(t, m, p)
        PROVE  PeersRight(k)'
    BY <1>2, <2>2, <2>3, SubopPeers, ReplyPeers DEF PeersInv, OfKey, TypeOfMsg
  <2>4. CASE ~\E m \in OfKey(k), t \in Thread, p \in Peer :
                GenerateSubop(t, m, p) \/ PeerReply(t, m, p)
    <3>1. OsdMoves(k)
      BY <1>0, <1>2, <2>4, OsdMovesStep DEF PeersInv
    <3>2. SamePeers(ops[k], ops'[k])
      <4>1. CASE Stays(k)
        BY <4>1 DEF Stays
      <4>2. CASE ~Stays(k)
        <5>1. PICK m \in OfKey(k) : EnqueueOp(m)
          BY <1>0, <1>2, <2>4, <4>2, RecordChanges
        <5>2. \A j \in Key : Known(j) => ~ops[j].aged
          BY DEF StageInv, EntryInv
        <5>3. ops' = ops
          BY <5>1, <5>2, CalmFacts, EnqueueEffect DEF OfKey
        <5> QED
          BY <5>3 DEF SamePeers
      <4> QED
        BY <4>1, <4>2
    <3> QED
      BY <1>0, <2>2, <3>1, <3>2, PeersFrame DEF PeersInv
  <2> QED
    BY <2>3, <2>4
<1> QED
  BY <1>1, <1>2 DEF PeersInv, Known

LEMMA PeersInit == Init => PeersInv
<1> SUFFICES ASSUME Init PROVE PeersInv
  OBVIOUS
<1>1. \A k \in Key : ~Known(k)
  BY DEF Init, Known
<1>2. /\ stage = [m \in Msg |-> "new"] /\ waitfor = [m \in Msg |-> {}]
      /\ \A t \in Thread : worker[t].pc = "idle" /\ worker[t].msg = None
      /\ None \notin Msg
  BY ConstantAssumption DEF Init, IdleWorker, ConstantAssumption
<1> QED
  BY <1>1, <1>2, ConstantAssumption
     DEF PeersInv, WaitsRight, EcUntracked, WrittenOnce, Past, ClientWrites, Holds,
         ConstantAssumption

\* What a write's report says of the peers.
Shown(e) ==
  e.op_type = "OSD_OP" /\ ~IsUnset(e, "submit_transaction") => HeardRight(e, {})

LEMMA AnsweredShown ==
  ASSUME Calm, BaseInv, StageInv, PeersInv, NEW m \in Msg, Known(KeyOf[m]),
         \/ \E t \in Thread : CompleteRead(t, m)
         \/ CompleteWrite(m) \/ RepopCommit(m)
  PROVE  Shown(Stamp(ops[KeyOf[m]], "reply", m))
<1> DEFINE k == KeyOf[m]
           e == ops[KeyOf[m]]
           f == Stamp(e, "reply", m)
<1>0. /\ k \in Key /\ m \in OfKey(k) /\ EntryInv(k) /\ e \in OpV /\ e.op_type = TypeOf[k]
  BY KeyTyped, BaseFacts DEF StageInv, OfKey
<1>1. /\ f.op_type = e.op_type /\ f.stamp["submit_transaction"] = e.stamp["submit_transaction"]
      /\ f.peer1 = e.peer1 /\ f.peer2 = e.peer2 /\ f.sent = e.sent
      /\ f.recv1 = e.recv1 /\ f.recv2 = e.recv2
  BY <1>0 DEF Stamp, OpV, Stamps
<1>2. Shown(e)
  <2>1. CASE CompleteWrite(m)
    <3>1. stage[m] = "committing" /\ waitfor[m] = {} /\ TypeOfMsg(m) = "OSD_OP"
      BY <2>1 DEF CompleteWrite, Committed
    <3>2. Submits(m)
      BY <3>1 DEF BaseInv, OsdInv, CommitsRight, PeersInv, EcUntracked, Submits, TypeOfMsg
    <3>3. HeardRight(e, {})
      BY <1>0, <3>1, <3>2 DEF PeersInv, PeersRight, TypeOfMsg
    <3> QED
      BY <3>3 DEF Shown
  <2>2. CASE RepopCommit(m)
    BY <1>0, <2>2 DEF RepopCommit, Shown, TypeOfMsg
  <2>3. CASE \E t \in Thread : CompleteRead(t, m)
    <3>1. m \in Reads
      BY <2>3 DEF CompleteRead
    <3>2. \A n \in OfKey(k) : n \in Reads
      BY <3>1, CalmFacts DEF AlikeByKey, OfKey
    <3> QED
      BY <1>0, <3>2 DEF EntryInv, SubmitRight, Shown
  <2> QED
    BY <2>1, <2>2, <2>3
<1> HIDE DEF f
<1>3. Shown(f)
  BY <1>1, <1>2 DEF Shown, HeardRight, IsUnset
<1> QED
  BY <1>3 DEF f

ShownInv == \A i \in 1 .. Len(rb) : Shown(rb[i])

LEMMA ShownStep ==
  ASSUME Calm, BaseInv, StageInv, PeersInv, ShownInv, [Next]_vars
  PROVE  ShownInv'
<1>0. rb \in Seq(OpV)
  BY TypeParts DEF BaseInv, IInv, ProbesTyped
<1>1. CASE rb' = rb
  BY <1>1 DEF ShownInv
<1>2. CASE rb # << >> /\ rb' = Tail(rb)
  <2>1. Len(rb') = Len(rb) - 1 /\ \A i \in 1 .. Len(rb') : rb'[i] = rb[i + 1]
    BY <1>0, <1>2
  <2>2. Len(rb) \in Nat
    BY <1>0
  <2>3. \A i \in 1 .. Len(rb') : i + 1 \in 1 .. Len(rb)
    BY <2>1, <2>2
  <2> QED
    BY <2>1, <2>3 DEF ShownInv
<1>3. ASSUME NEW m \in Msg, Known(KeyOf[m]),
             rb' = Append(rb, Stamp(ops[KeyOf[m]], "reply", m)),
             \/ \E t \in Thread : CompleteRead(t, m)
             \/ CompleteWrite(m) \/ RepopCommit(m)
      PROVE  ShownInv'
  <2> DEFINE e == Stamp(ops[KeyOf[m]], "reply", m)
  <2>1. e \in OpV
    BY <1>3, KeyTyped, BaseFacts, StampTyped DEF Stamps, Writer
  <2>2. Shown(e) /\ rb' = Append(rb, e)
    BY <1>3, AnsweredShown
  <2> HIDE DEF e
  <2>3. \A i \in 1 .. Len(rb') : (i \in 1 .. Len(rb) /\ rb'[i] = rb[i]) \/ rb'[i] = e
    BY <1>0, <2>1, <2>2
  <2> QED
    BY <2>2, <2>3 DEF ShownInv
<1> QED
  BY <1>1, <1>2, <1>3, RingSteps

\* A report of a replicated write has the answers of the first and the last
\* replica it was sent to, each in its own slot, and the send it keeps is the last
\* one's, however many replicas there are and whatever the requests, delays,
\* resends and threads, under the conditions of StagesComplete, if no write starts
\* over: the record is not given slots anew then (uprobe_generate_subop,
\* uprobe_do_repop_reply).
THEOREM PeersShown ==
  ASSUME Calm, Uninterrupted
  PROVE  Spec => []LastPeerTimed
<1>1. Init => PeersInv /\ ShownInv
  <2>1. Init => ShownInv
    BY DEF Init, ShownInv
  <2> QED
    BY <2>1, PeersInit
<1>2. CalmInv /\ PeersInv /\ ShownInv /\ [Next]_vars => PeersInv' /\ ShownInv'
  BY OsdStep, PeersInvStep, ShownStep DEF CalmInv, BaseInv
<1>3. ShownInv => LastPeerTimed
  BY DEF ShownInv, Shown, HeardRight, LastPeerTimed, ReplicatedWrites, Submitted
<1> QED
  BY <1>1, <1>2, <1>3, CalmHolds, PTL DEF Spec
=============================================================================
