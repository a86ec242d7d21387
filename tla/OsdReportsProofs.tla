-------------------------- MODULE OsdReportsProofs --------------------------
(***************************************************************************)
(* Proofs about the records of OsdProbes and the reports made of them:     *)
(* what one step may do to a record (FirstAttemptKept), what a replica's   *)
(* report lists (ReplicaOpsListed), and that a record ends with its        *)
(* request (EntriesReleased, NoReportWithoutReply).                        *)
(***************************************************************************)
EXTENDS OsdProbesProofs, FiniteSetTheorems

-----------------------------------------------------------------------------
(* What a step does to one record                                          *)

\* The operations a replica's record lists are among those it counts.
ListsOwn(e) ==
  e.op_type = "OSD_REPOP" => e.captured <= e.total /\ e.captured <= MAX_DETAIL_OPS

FirstStamps == {"dequeue", "queue_transaction"}

\* f is the record e at a later moment of the same request.
Continues(e, f) ==
  /\ f.key = e.key /\ f.op_type = e.op_type
  /\ f.stamp["enqueue"] = e.stamp["enqueue"]
  /\ \A s \in FirstStamps : e.stamp[s] # Unset => f.stamp[s] = e.stamp[s]
  /\ ListsOwn(e) => ListsOwn(f)

EntriesContinue ==
  \A k \in Key : ops'[k] # None => Known(k) /\ Continues(ops[k], ops'[k])

\* The ring loses its head or gains a report made of a tracked record.
ReportsMade ==
  \/ rb' = rb
  \/ rb # << >> /\ rb' = Tail(rb)
  \/ \E k \in Key, e \in OpV : /\ Known(k) /\ Continues(ops[k], e)
                               /\ rb' = Append(rb, e)

LEMMA StampContinues ==
  ASSUME NEW e \in OpV, NEW s \in Stamps \ {"enqueue"}, NEW w,
         s \in FirstStamps => IsUnset(e, s)
  PROVE  Continues(e, Stamp(e, s, w))
BY DEF Continues, Stamp, IsUnset, ListsOwn, OpV, FirstStamps, Stamps

LEMMA StampFirstContinues ==
  ASSUME NEW e \in OpV, NEW s \in Stamps \ {"enqueue"}, NEW w
  PROVE  Continues(e, StampFirst(e, s, w))
BY StampContinues DEF StampFirst, Continues, ListsOwn

LEMMA StampAllContinues ==
  ASSUME NEW e \in OpV, NEW S, NEW w,
         "enqueue" \notin S, \A s \in FirstStamps : s \notin S
  PROVE  Continues(e, StampAll(e, S, w))
BY DEF Continues, StampAll, ListsOwn, OpV, FirstStamps, Stamps

LEMMA StateStampsLate ==
  ASSUME NEW s \in TxcStates \ {"free", "FINISHED"}, NEW pending
  PROVE  "enqueue" \notin StateStamps(s, pending)
         /\ \A f \in FirstStamps : f \notin StateStamps(s, pending)
BY DEF StateStamps, TxcStates, FirstStamps

LEMMA PayloadContinues ==
  ASSUME NEW e \in OpV
  PROVE  /\ \A p : Continues(e, [TakeSlot(e, p) EXCEPT !.sent = p])
         /\ \A p : Continues(e, [e EXCEPT !.recv1 = p])
         /\ \A p : Continues(e, [e EXCEPT !.recv2 = p])
         /\ Continues(e, [e EXCEPT !.delays = @ + 1])
         /\ Continues(e, [e EXCEPT !.aged = TRUE])
         /\ Continues(e, e)
BY DEF Continues, TakeSlot, ListsOwn, OpV

LEMMA ContinuesTransitive ==
  ASSUME NEW e, NEW f, NEW g, Continues(e, f), Continues(f, g)
  PROVE  Continues(e, g)
BY DEF Continues

\* A client's request counts and lists without a promise about both.
LEMMA CaptureContinues ==
  ASSUME NEW e \in OpV, e.op_type # "OSD_REPOP", NEW n
  PROVE  Continues(e, capture_decoded_osd_ops(e, n))
BY DEF Continues, capture_decoded_osd_ops, ListsOwn, OpV

LEMMA CountContinues ==
  ASSUME NEW e \in OpV, NEW n \in Nat
  PROVE  /\ Continues(e, CountOps(e, n))
         /\ Continues(e, [CountOps(e, n) EXCEPT !.captured = 0, !.unavailable = TRUE])
         /\ Continues(e, [CountOps(e, n) EXCEPT !.captured = AtMost(@ + n, MAX_DETAIL_OPS)])
<1>0. MAX_DETAIL_OPS \in Nat /\ e.total \in Nat /\ e.captured \in Nat
  BY ConstantAssumption DEF ConstantAssumption, OpV
<1>1. Continues(e, CountOps(e, n))
  BY <1>0 DEF Continues, CountOps, ListsOwn, OpV
<1>2. Continues(e, [CountOps(e, n) EXCEPT !.captured = 0, !.unavailable = TRUE])
  BY <1>0 DEF Continues, CountOps, ListsOwn, OpV
<1>3. ASSUME NEW c \in Nat, c <= MAX_DETAIL_OPS, c <= e.captured + n
      PROVE  Continues(e, [CountOps(e, n) EXCEPT !.captured = c])
  BY <1>0, <1>3 DEF Continues, CountOps, ListsOwn, OpV
<1>4. LET c == AtMost(e.captured + n, MAX_DETAIL_OPS) IN
        c \in Nat /\ c <= MAX_DETAIL_OPS /\ c <= e.captured + n
  BY <1>0 DEF AtMost
<1>5. [CountOps(e, n) EXCEPT !.captured = AtMost(@ + n, MAX_DETAIL_OPS)]
        = [CountOps(e, n) EXCEPT !.captured = AtMost(e.captured + n, MAX_DETAIL_OPS)]
  BY DEF CountOps, OpV
<1> QED
  BY <1>1, <1>2, <1>3, <1>4, <1>5

LEMMA UpdateContinues ==
  ASSUME ProbesTyped, NEW k \in Key, NEW f,
         ops' = [ops EXCEPT ![k] = f],
         f # None => Known(k) /\ Continues(ops[k], f)
  PROVE  EntriesContinue
<1>1. ASSUME NEW j \in Key, ops'[j] # None PROVE Known(j) /\ Continues(ops[j], ops'[j])
  <2>1. CASE j = k
    BY <1>1, <2>1 DEF ProbesTyped
  <2>2. CASE j # k
    <3>1. ops'[j] = ops[j] /\ ops[j] \in OpV
      BY <1>1, <2>2 DEF ProbesTyped
    <3> QED
      BY <1>1, <3>1, PayloadContinues DEF Known
  <2> QED
    BY <2>1, <2>2
<1> QED
  BY <1>1 DEF EntriesContinue

LEMMA SameContinues ==
  ASSUME ProbesTyped, ops' = ops
  PROVE  EntriesContinue
BY PayloadContinues, KnownTyped DEF EntriesContinue, Known

-----------------------------------------------------------------------------
(* The handlers                                                            *)

LEMMA DequeueContinues ==
  ASSUME ProbesTyped, NEW t \in Thread, NEW m \in Msg, uprobe_dequeue_op(t, m)
  PROVE  EntriesContinue /\ rb' = rb
<1>1. Known(KeyOf[m]) =>
        Continues(ops[KeyOf[m]], StampFirst(ops[KeyOf[m]], "dequeue", Turn(m)))
  BY KeyTyped, KnownTyped, StampFirstContinues DEF Stamps
<1> QED
  BY <1>1, KeyTyped, UpdateContinues, SameContinues DEF uprobe_dequeue_op, ring

LEMMA ExecuteContinues ==
  ASSUME ProbesTyped, EntriesNamed, NEW m \in Msg, TypeOfMsg(m) = "OSD_OP",
         uprobe_execute_ctx(m)
  PROVE  EntriesContinue /\ rb' = rb
<1> DEFINE k == KeyOf[m]
           e == Stamp(ops[k], "execute_ctx", m)
<1>0. k \in Key /\ rb' = rb
  BY KeyTyped DEF uprobe_execute_ctx, ring
<1>1. Known(k) => /\ Continues(ops[k], e) /\ e \in OpV
                  /\ e.op_type # "OSD_REPOP"
  <2> SUFFICES ASSUME Known(k) PROVE /\ Continues(ops[k], e) /\ e \in OpV
                                     /\ e.op_type # "OSD_REPOP"
    OBVIOUS
  <2>1. ops[k] \in OpV
    BY <1>0, KnownTyped
  <2>2. Continues(ops[k], e) /\ e \in OpV
    BY <2>1, StampContinues, StampTyped DEF Stamps, FirstStamps, Writer
  <2>3. ops[k].op_type = "OSD_OP"
    BY <1>0 DEF EntriesNamed, TypeOfMsg
  <2> QED
    BY <2>2, <2>3 DEF Continues
<1>2. Known(k) => Continues(ops[k], capture_decoded_osd_ops(e, OpCount[m]))
  BY <1>1, CaptureContinues, ContinuesTransitive
<1>3. \/ ops' = ops
      \/ Known(k) /\ ops' = [ops EXCEPT ![k] = e]
      \/ Known(k) /\ ops' = [ops EXCEPT ![k] = capture_decoded_osd_ops(e, OpCount[m])]
  BY DEF uprobe_execute_ctx
<1> HIDE DEF k, e
<1> QED
  BY <1>0, <1>1, <1>2, <1>3, UpdateContinues, SameContinues

LEMMA SubmitContinues ==
  ASSUME ProbesTyped, NEW t \in Thread, NEW m \in Msg,
         uprobe_submit_transaction(t, m)
  PROVE  EntriesContinue /\ rb' = rb
<1>1. Known(KeyOf[m]) =>
        Continues(ops[KeyOf[m]], Stamp(ops[KeyOf[m]], "submit_transaction", m))
  BY KeyTyped, KnownTyped, StampContinues DEF Stamps, FirstStamps
<1> QED
  BY <1>1, KeyTyped, UpdateContinues, SameContinues DEF uprobe_submit_transaction, ring

LEMMA ForgetContinues ==
  ASSUME ProbesTyped, NEW k \in Key, Forget(k)
  PROVE  EntriesContinue /\ rb' = rb
BY UpdateContinues DEF Forget, ring

\* queue_transaction_stamp is written only while it is unset.
LEMMA QueueContinues ==
  ASSUME ProbesTyped, NEW t \in Thread, NEW x \in Txc,
         uprobe_queue_transactions(t, x)
  PROVE  EntriesContinue /\ rb' = rb
<1> DEFINE k == ptid_opk[t]
<1>1. k \in Key \cup {None}
  BY DEF ProbesTyped
<1>2. k \in Key /\ Known(k) /\ FirstTransaction(ops[k]) =>
        Continues(ops[k], Stamp(ops[k], "queue_transaction", x))
  BY KnownTyped, StampContinues DEF Stamps, FirstTransaction
<1>3. /\ rb' = rb
      /\ \/ ops' = ops
         \/ /\ k # None /\ Known(k) /\ FirstTransaction(ops[k])
            /\ ops' = [ops EXCEPT ![k] = Stamp(ops[k], "queue_transaction", x)]
  BY DEF uprobe_queue_transactions, ring, probeVars, maps
<1> QED
  BY <1>1, <1>2, <1>3, UpdateContinues, SameContinues

LEMMA AddTransactionContinues ==
  ASSUME ProbesTyped, NEW t \in Thread, NEW n \in Nat, NEW buffers \in Nat,
         uprobe_txc_add_transaction(t, n, buffers)
  PROVE  EntriesContinue /\ rb' = rb
<1> DEFINE k == ptid_opk[t]
<1>1. k \in Key \cup {None} /\ rb' = rb
  BY DEF ProbesTyped, uprobe_txc_add_transaction, ring
<1>2. k \in Key /\ Known(k) => ops[k] \in OpV
  BY KnownTyped
<1>3. \/ ops' = ops
      \/ /\ k # None /\ Known(k)
         /\ \/ ops' = [ops EXCEPT ![k] = CountOps(ops[k], n)]
            \/ ops' = [ops EXCEPT ![k] =
                  [CountOps(ops[k], n) EXCEPT !.captured = 0, !.unavailable = TRUE]]
            \/ ops' = [ops EXCEPT ![k] =
                  [CountOps(ops[k], n) EXCEPT !.captured = AtMost(@ + n, MAX_DETAIL_OPS)]]
  BY DEF uprobe_txc_add_transaction
<1> QED
  BY <1>1, <1>2, <1>3, CountContinues, UpdateContinues, SameContinues

LEMMA CalcCostContinues ==
  ASSUME ProbesTyped, NEW t \in Thread, NEW x \in Txc, uprobe_txc_calc_cost(t, x)
  PROVE  EntriesContinue /\ rb' = rb
BY SameContinues DEF uprobe_txc_calc_cost, ring

LEMMA StateProcContinues ==
  ASSUME ProbesTyped, NEW x \in Txc, NEW s \in TxcStates \ {"free", "FINISHED"},
         NEW n, uprobe_txc_state_proc(x, s, n)
  PROVE  EntriesContinue /\ rb' = rb
<1> DEFINE k == ctx_opk[x]
           S == StateStamps(s, n)
<1>1. k \in Key \cup {None}
  BY DEF ProbesTyped
<1>2. "enqueue" \notin S /\ \A f \in FirstStamps : f \notin S
  BY StateStampsLate
<1>3. /\ rb' = rb
      /\ \/ ops' = ops
         \/ /\ k # None /\ Known(k)
            /\ ops' = [ops EXCEPT ![k] = StampAll(ops[k], S, x)]
  BY DEF uprobe_txc_state_proc, ring
<1> HIDE DEF S
<1>4. k \in Key /\ Known(k) => Continues(ops[k], StampAll(ops[k], S, x))
  BY <1>2, KnownTyped, StampAllContinues
<1> QED
  BY <1>1, <1>3, <1>4, UpdateContinues, SameContinues

LEMMA PeerContinues ==
  ASSUME ProbesTyped, NEW m \in Msg, NEW p \in Peer,
         uprobe_generate_subop(m, p) \/ uprobe_do_repop_reply(m, p)
  PROVE  EntriesContinue
<1> DEFINE e == ops[KeyOf[m]]
<1>1. Known(KeyOf[m]) => e \in OpV
  BY KeyTyped, KnownTyped
<1>2. \/ ops' = ops
      \/ /\ Known(KeyOf[m])
         /\ \/ ops' = [ops EXCEPT ![KeyOf[m]] = [TakeSlot(e, p) EXCEPT !.sent = p]]
            \/ ops' = [ops EXCEPT ![KeyOf[m]] = [e EXCEPT !.recv1 = p]]
            \/ ops' = [ops EXCEPT ![KeyOf[m]] = [e EXCEPT !.recv2 = p]]
            \/ ops' = [ops EXCEPT ![KeyOf[m]] = e]
  BY DEF uprobe_generate_subop, uprobe_do_repop_reply
<1> QED
  BY <1>1, <1>2, KeyTyped, PayloadContinues, UpdateContinues, SameContinues

LEMMA FlagPointContinues ==
  ASSUME ProbesTyped, NEW m \in Msg, uprobe_mark_flag_point(m)
  PROVE  EntriesContinue /\ rb' = rb
<1> DEFINE e == ops[KeyOf[m]]
<1>1. Known(KeyOf[m]) => e \in OpV
  BY KeyTyped, KnownTyped
<1>2. /\ rb' = rb
      /\ \/ ops' = ops
         \/ /\ Known(KeyOf[m])
            /\ ops' = [ops EXCEPT ![KeyOf[m]] = [e EXCEPT !.delays = @ + 1]]
  BY DEF uprobe_mark_flag_point, ring
<1> QED
  BY <1>1, <1>2, KeyTyped, PayloadContinues, UpdateContinues, SameContinues

LEMMA LogContinues ==
  ASSUME ProbesTyped, NEW m \in Msg,
         uprobe_log_op_stats(m) \/ uprobe_repop_commit(m)
  PROVE  EntriesContinue /\ ReportsMade
<1> DEFINE k == KeyOf[m]
<1>0. k \in Key
  BY KeyTyped
<1>1. Known(k) => /\ Continues(ops[k], Stamp(ops[k], "reply", m))
                  /\ Stamp(ops[k], "reply", m) \in OpV
  BY <1>0, KnownTyped, StampContinues, StampTyped DEF Stamps, FirstStamps, Writer
<1>2. \/ UNCHANGED probeVars
      \/ Known(k) /\ Emit(k, m)
      \/ Forget(k)
  BY DEF uprobe_log_op_stats, uprobe_repop_commit
<1>3. CASE UNCHANGED probeVars
  BY <1>3, SameContinues DEF probeVars, maps, ring, ReportsMade
<1>4. CASE Known(k) /\ Emit(k, m)
  <2>1. EntriesContinue
    BY <1>0, <1>4, UpdateContinues DEF Emit
  <2> QED
    BY <1>0, <1>1, <1>4, <2>1 DEF Emit, ReportsMade
<1>5. CASE Forget(k)
  BY <1>0, <1>5, ForgetContinues DEF ReportsMade
<1> QED
  BY <1>2, <1>3, <1>4, <1>5

LEMMA QuietContinues ==
  ASSUME ProbesTyped, UNCHANGED probeVars
  PROVE  EntriesContinue /\ rb' = rb
BY SameContinues DEF probeVars, maps, ring

-----------------------------------------------------------------------------
(* The steps                                                               *)

\* OSD::enqueue_op of a message that arrives begins a record or drops one.
Enqueues(m) ==
  /\ stage[m] = "new" /\ stage' = [stage EXCEPT ![m] = "queued"]
  /\ Live("OSD::enqueue_op") /\ UNCHANGED <<rb, attached>>
  /\ \/ ops' = [ops EXCEPT ![KeyOf[m]] = NewEntry(m)]
     \/ ops' = [ops EXCEPT ![KeyOf[m]] = None]

LEMMA EnqueueContinues ==
  ASSUME ProbesTyped, NEW m \in Msg, EnqueueOp(m)
  PROVE  Enqueues(m) \/ (EntriesContinue /\ ReportsMade)
<1>1. CASE UNCHANGED probeVars
  BY <1>1, QuietContinues DEF ReportsMade
<1>2. CASE Live("OSD::enqueue_op") /\ uprobe_enqueue_op(m)
  <2>1. rb' = rb
    BY <1>2 DEF uprobe_enqueue_op, ring
  <2>2. \/ ops' = ops
        \/ ops' = [ops EXCEPT ![KeyOf[m]] = NewEntry(m)]
        \/ ops' = [ops EXCEPT ![KeyOf[m]] = None]
    BY <1>2 DEF uprobe_enqueue_op
  <2> QED
    BY <1>2, <2>1, <2>2, SameContinues DEF Enqueues, EnqueueOp, SetStage, ReportsMade
<1> QED
  BY <1>1, <1>2 DEF EnqueueOp, Fires

LEMMA RequestContinues ==
  ASSUME ProbesTyped, NEW m \in Msg, RequestStep(m)
  PROVE  Enqueues(m) \/ (EntriesContinue /\ ReportsMade)
<1>1. CASE RequeueOp(m) \/ IntervalChange(m)
  BY <1>1, QuietContinues DEF RequeueOp, IntervalChange, ReportsMade
<1>2. CASE CompleteWrite(m) \/ RepopCommit(m)
  BY <1>2, QuietContinues, LogContinues
     DEF CompleteWrite, RepopCommit, Fires, ReportsMade
<1> QED
  BY <1>1, <1>2, EnqueueContinues DEF RequestStep

LEMMA ThreadContinues ==
  ASSUME ProbesTyped, EntriesNamed, NEW t \in Thread, NEW m \in Msg, ThreadStep(t, m)
  PROVE  EntriesContinue /\ ReportsMade
<1>1. CASE DequeueOp(t, m)
  BY <1>1, QuietContinues, DequeueContinues DEF DequeueOp, Fires, ReportsMade
<1>2. CASE DelayOp(t, m)
  BY <1>2, QuietContinues, FlagPointContinues
     DEF DelayOp, Fires, uprobe_mark_flag_point_string, ReportsMade
<1>3. CASE FinishUnlogged(t, m)
  BY <1>3, QuietContinues DEF FinishUnlogged, ReportsMade
<1>4. CASE ExecuteCtx(t, m)
  BY <1>4, QuietContinues, ExecuteContinues DEF ExecuteCtx, Fires, ReportsMade
<1>5. CASE CompleteRead(t, m)
  BY <1>5, QuietContinues, LogContinues DEF CompleteRead, Fires, ReportsMade
<1>6. CASE SubmitTransaction(t, m)
  BY <1>6, QuietContinues, SubmitContinues DEF SubmitTransaction, Fires, ReportsMade
<1>7. CASE EcSubmitTransaction(t, m)
  BY <1>7, QuietContinues, ForgetContinues, KeyTyped
     DEF EcSubmitTransaction, Fires, uprobe_ec_submit_transaction, ReportsMade
<1>8. CASE \E p \in Peer : GenerateSubop(t, m, p)
  <2> PICK p \in Peer : GenerateSubop(t, m, p)
    BY <1>8
  <2>1. CASE UNCHANGED probeVars
    BY <2>1, QuietContinues DEF ReportsMade
  <2>2. CASE uprobe_generate_subop(m, p)
    BY <2>2, PeerContinues DEF ReportsMade, uprobe_generate_subop, ring
  <2> QED
    BY <2>1, <2>2 DEF GenerateSubop, Fires
<1>9. CASE \E p \in Peer : PeerReply(t, m, p)
  <2> PICK p \in Peer : PeerReply(t, m, p)
    BY <1>9
  <2>1. EntriesContinue
    BY PeerContinues, SameContinues DEF PeerReply
  <2> QED
    BY <2>1 DEF PeerReply, ReportsMade, ring
<1>10. CASE \E x \in Txc, n \in 1 .. MaxTxns : QueueTransactions(t, m, x, n)
  BY <1>10, QuietContinues, QueueContinues DEF QueueTransactions, Fires, ReportsMade
<1> QED
  BY <1>1, <1>2, <1>3, <1>4, <1>5, <1>6, <1>7, <1>8, <1>9, <1>10 DEF ThreadStep

LEMMA StoreContinues ==
  ASSUME TypeInv, NEW t \in Thread, StoreStep(t)
  PROVE  EntriesContinue /\ ReportsMade
<1>0. ProbesTyped
  BY TypeParts
<1>1. CASE \E x \in Txc, n \in 1 .. MaxTxns : QueuePgWork(t, x, n)
  BY <1>0, <1>1, QuietContinues, QueueContinues DEF QueuePgWork, Fires, ReportsMade
<1>2. CASE \E n \in TxnOps, buffers \in 1 .. 2 : AddTransaction(t, n, buffers)
  <2> PICK n \in TxnOps, buffers \in 1 .. 2 : AddTransaction(t, n, buffers)
    BY <1>2
  <2>1. n \in Nat /\ buffers \in Nat
    BY ConstantAssumption DEF ConstantAssumption
  <2> QED
    BY <1>0, <2>1, QuietContinues, AddTransactionContinues
       DEF AddTransaction, Fires, ReportsMade
<1>3. CASE CalcCost(t)
  <2>1. worker[t].txc \in Txc
    BY <1>3 DEF CalcCost, Work, TypeInv, QueueingHasTxc
  <2> QED
    BY <1>0, <1>3, <2>1, QuietContinues, CalcCostContinues
       DEF CalcCost, Fires, ReportsMade
<1>4. CASE \E pending \in 0 .. 1 : PrepareTxc(t, pending)
  <2> PICK pending \in 0 .. 1 : PrepareTxc(t, pending)
    BY <1>4
  <2>1. worker[t].txc \in Txc
    BY DEF PrepareTxc, Work, TypeInv, QueueingHasTxc
  <2>2. "PREPARE" \in TxcStates \ {"free", "FINISHED"}
    BY DEF TxcStates
  <2> QED
    BY <1>0, <2>1, <2>2, QuietContinues, StateProcContinues
       DEF PrepareTxc, StateProc, Fires, ReportsMade
<1> QED
  BY <1>1, <1>2, <1>3, <1>4 DEF StoreStep

LEMMA OtherContinues ==
  ASSUME TypeInv,
         \/ \E x \in Txc : TxcStep(x)
         \/ \E k \in Key : AgePasses(k)
         \/ AttachNext \/ Consume \/ EvictStep \/ UNCHANGED vars
  PROVE  EntriesContinue /\ ReportsMade
<1>0. ProbesTyped
  BY TypeParts
<1>1. CASE \E x \in Txc : TxcStep(x)
  <2> PICK x \in Txc : TxcStep(x)
    BY <1>1
  <2>1. {"AIO_WAIT", "IO_DONE", "KV_SUBMITTED"} \subseteq TxcStates \ {"free", "FINISHED"}
    BY DEF TxcStates
  <2>2. PICK s \in TxcStates \ {"free", "FINISHED"}, n \in 0 .. 1 :
          uprobe_txc_state_proc(x, s, n) \/ UNCHANGED probeVars
    BY <2>1 DEF TxcStep, AioDone, IoDone, KvSubmitted, StateProc, Fires
  <2> QED
    BY <1>0, <2>2, QuietContinues, StateProcContinues DEF ReportsMade
<1>2. CASE \E k \in Key : AgePasses(k)
  <2> PICK k \in Key : AgePasses(k)
    BY <1>2
  <2>1. Known(k) /\ ops[k] \in OpV
    BY <1>0, KnownTyped DEF AgePasses
  <2>2. ops' = [ops EXCEPT ![k] = [ops[k] EXCEPT !.aged = TRUE]] /\ rb' = rb
    BY DEF AgePasses, ring
  <2> QED
    BY <1>0, <2>1, <2>2, PayloadContinues, UpdateContinues DEF ReportsMade
<1>3. CASE AttachNext \/ UNCHANGED vars
  BY <1>0, <1>3, QuietContinues DEF AttachNext, vars, ReportsMade
<1>4. CASE Consume
  BY <1>0, <1>4, SameContinues DEF Consume, maps, ReportsMade
<1>5. CASE EvictStep
  <2>1. rb' = rb /\ (ops' = ops \/ \E k \in Key : ops' = [ops EXCEPT ![k] = None])
    BY <1>5 DEF EvictStep, EvictOp, EvictThread, EvictTxc, ring
  <2> QED
    BY <1>0, <2>1, UpdateContinues, SameContinues DEF ReportsMade
<1> QED
  BY <1>1, <1>2, <1>3, <1>4, <1>5

LEMMA StepContinues ==
  ASSUME TypeInv, EntriesNamed, [Next]_vars
  PROVE  \/ \E m \in Msg : Enqueues(m)
         \/ EntriesContinue /\ ReportsMade
BY TypeParts, RequestContinues, ThreadContinues, StoreContinues, OtherContinues DEF Next

-----------------------------------------------------------------------------
(* A record begins with the message that began it                          *)

\* The message that began a record has arrived, and arrives once.
Begun(e) == e.stamp["enqueue"] \in Msg /\ stage[e.stamp["enqueue"]] # "new"

\* Nothing is tracked before the last probe, OSD::enqueue_op, is attached.
OpsLast == attached < Len(AttachList) => \A k \in Key : ~Known(k)

RecordInv ==
  /\ TypeInv /\ EntriesNamed /\ OpsLast
  /\ \A k \in Key : Known(k) => Begun(ops[k]) /\ ListsOwn(ops[k])
  /\ \A i \in 1 .. Len(rb) : ListsOwn(rb[i])

LEMMA NewEntryFields ==
  ASSUME NEW m \in Msg
  PROVE  /\ NewEntry(m).key = KeyOf[m] /\ NewEntry(m).op_type = TypeOf[KeyOf[m]]
         /\ NewEntry(m).stamp["enqueue"] = m
         /\ \A s \in Stamps \ {"enqueue"} : NewEntry(m).stamp[s] = Unset
         /\ ListsOwn(NewEntry(m))
<1>1. MAX_DETAIL_OPS \in Nat
  BY ConstantAssumption DEF ConstantAssumption
<1> QED
  BY <1>1 DEF NewEntry, TypeOfMsg, ListsOwn, Stamps

\* A message that has arrived does not become new again.
LEMMA ArrivedStays ==
  ASSUME TypeInv, [Next]_vars, NEW m \in Msg, stage[m] # "new"
  PROVE  stage'[m] # "new"
<1>0. stage \in [Msg -> Stages]
  BY DEF TypeInv, TypeOK
<1>1. ASSUME NEW n \in Msg, RequestStep(n) PROVE stage'[m] # "new"
  BY <1>0, <1>1 DEF RequestStep, EnqueueOp, RequeueOp, IntervalChange, CompleteWrite,
                    RepopCommit, SetStage
<1>2. ASSUME NEW t \in Thread, NEW n \in Msg, ThreadStep(t, n) PROVE stage'[m] # "new"
  BY <1>0, <1>2 DEF ThreadStep, DequeueOp, DelayOp, FinishUnlogged, ExecuteCtx,
                    CompleteRead, SubmitTransaction, EcSubmitTransaction,
                    GenerateSubop, PeerReply, QueueTransactions, SetStage
<1>3. ASSUME NEW t \in Thread, StoreStep(t) PROVE stage'[m] # "new"
  BY <1>0, <1>3 DEF StoreStep, QueuePgWork, AddTransaction, CalcCost, PrepareTxc
<1>4. ASSUME \/ \E x \in Txc : TxcStep(x)
             \/ \E k \in Key : AgePasses(k)
             \/ AttachNext \/ Consume \/ EvictStep \/ UNCHANGED vars
      PROVE  stage'[m] # "new"
  BY <1>4 DEF TxcStep, AioDone, IoDone, KvSubmitted, AgePasses, AttachNext, Consume,
              EvictStep, EvictOp, EvictThread, EvictTxc, osd, vars
<1> QED
  BY <1>1, <1>2, <1>3, <1>4 DEF Next

LEMMA AttachedGrows ==
  ASSUME [Next]_vars
  PROVE  attached' = attached \/ attached' = attached + 1
<1>1. ASSUME NEW m \in Msg, RequestStep(m) PROVE attached' = attached
  BY <1>1 DEF RequestStep, EnqueueOp, RequeueOp, IntervalChange, CompleteWrite,
              RepopCommit
<1>2. ASSUME NEW t \in Thread, NEW m \in Msg, ThreadStep(t, m) PROVE attached' = attached
  BY <1>2 DEF ThreadStep, DequeueOp, DelayOp, FinishUnlogged, ExecuteCtx,
              CompleteRead, SubmitTransaction, EcSubmitTransaction,
              GenerateSubop, PeerReply, QueueTransactions
<1>3. ASSUME NEW t \in Thread, StoreStep(t) PROVE attached' = attached
  BY <1>3 DEF StoreStep, QueuePgWork, AddTransaction, CalcCost, PrepareTxc
<1>4. ASSUME \/ \E x \in Txc : TxcStep(x)
             \/ \E k \in Key : AgePasses(k)
             \/ AttachNext \/ Consume \/ EvictStep \/ UNCHANGED vars
      PROVE  attached' = attached \/ attached' = attached + 1
  BY <1>4 DEF TxcStep, AioDone, IoDone, KvSubmitted, AgePasses, AttachNext, Consume,
              EvictStep, EvictOp, EvictThread, EvictTxc, vars
<1> QED
  BY <1>1, <1>2, <1>3, <1>4 DEF Next

LEMMA RecordInit == Init => RecordInv
BY InitTyped DEF Init, RecordInv, EntriesNamed, OpsLast, Known

LEMMA RecordStep == RecordInv /\ [Next]_vars => RecordInv'
<1> SUFFICES ASSUME RecordInv, [Next]_vars PROVE RecordInv'
  OBVIOUS
<1>1. TypeInv' /\ ProbesTyped
  BY TypeStep, TypeParts DEF RecordInv
<1>2. CASE \E m \in Msg : Enqueues(m)
  <2> PICK m \in Msg : Enqueues(m)
    BY <1>2
  <2>1. /\ stage'[m] # "new"
        /\ \A n \in Msg : stage[n] # "new" => stage'[n] # "new"
    BY DEF Enqueues, RecordInv, TypeInv, TypeOK
  <2>2. ASSUME NEW k \in Key, ops'[k] # None
        PROVE  /\ ops'[k].key = k /\ ops'[k].op_type = TypeOf[k]
               /\ ops'[k].stamp["enqueue"] \in Msg
               /\ stage'[ops'[k].stamp["enqueue"]] # "new"
               /\ ListsOwn(ops'[k])
    <3>1. \/ ops'[k] = NewEntry(m) /\ KeyOf[m] = k
          \/ ops'[k] = ops[k] /\ Known(k)
      BY <1>1, <2>2, KeyTyped DEF Enqueues, ProbesTyped, Known
    <3>2. CASE ops'[k] = NewEntry(m) /\ KeyOf[m] = k
      BY <2>1, <3>2, NewEntryFields
    <3>3. CASE ops'[k] = ops[k] /\ Known(k)
      BY <2>1, <3>3 DEF RecordInv, EntriesNamed, Begun
    <3> QED
      BY <3>1, <3>2, <3>3
  <2>3. \A i \in 1 .. Len(rb') : ListsOwn(rb'[i])
    BY DEF RecordInv, Enqueues
  <2>4. attached' = Len(AttachList)
    BY LastProbe DEF Enqueues, RecordInv, TypeInv, TypeOK
  <2>5. OpsLast'
    BY <2>4, AttachListLength DEF OpsLast
  <2> QED
    BY <1>1, <2>2, <2>3, <2>5 DEF RecordInv, EntriesNamed, Known, Begun, ListsOwn
<1>3. CASE EntriesContinue /\ ReportsMade
  <2>1. ASSUME NEW k \in Key, ops'[k] # None
        PROVE  /\ ops'[k].key = k /\ ops'[k].op_type = TypeOf[k]
               /\ ops'[k].stamp["enqueue"] \in Msg
               /\ stage'[ops'[k].stamp["enqueue"]] # "new"
               /\ ListsOwn(ops'[k])
    <3>1. Known(k) /\ Continues(ops[k], ops'[k])
      BY <1>3, <2>1 DEF EntriesContinue
    <3>2. Begun(ops[k]) /\ ListsOwn(ops[k]) /\ TypeInv
      BY <3>1 DEF RecordInv
    <3>3. ops[k].key = k /\ ops[k].op_type = TypeOf[k]
      BY <3>1 DEF RecordInv, EntriesNamed
    <3>4. ops'[k].stamp["enqueue"] = ops[k].stamp["enqueue"] /\ ListsOwn(ops'[k])
      BY <3>1, <3>2 DEF Continues
    <3>5. stage'[ops[k].stamp["enqueue"]] # "new"
      BY <3>2, ArrivedStays DEF Begun
    <3> QED
      BY <3>1, <3>2, <3>3, <3>4, <3>5 DEF Continues, Begun
  <2>2. ASSUME NEW i \in 1 .. Len(rb') PROVE ListsOwn(rb'[i])
    <3>1. CASE rb' = rb
      BY <2>2, <3>1 DEF RecordInv
    <3>2. CASE rb # << >> /\ rb' = Tail(rb)
      <4>1. i + 1 \in 1 .. Len(rb) /\ rb'[i] = rb[i + 1]
        BY <1>1, <2>2, <3>2 DEF ProbesTyped
      <4> QED
        BY <4>1 DEF RecordInv
    <3>3. ASSUME NEW k \in Key, NEW e \in OpV, Known(k), Continues(ops[k], e),
                 rb' = Append(rb, e)
          PROVE  ListsOwn(rb'[i])
      <4>1. ListsOwn(e)
        BY <3>3 DEF RecordInv, Continues
      <4>2. \/ rb'[i] = e
            \/ i \in 1 .. Len(rb) /\ rb'[i] = rb[i]
        BY <1>1, <2>2, <3>3 DEF ProbesTyped
      <4> QED
        BY <4>1, <4>2 DEF RecordInv
    <3> QED
      BY <1>3, <3>1, <3>2, <3>3 DEF ReportsMade
  <2>3. OpsLast'
    <3>1. attached' < Len(AttachList) => attached < Len(AttachList)
      BY AttachedGrows, AttachListLength DEF RecordInv, TypeInv, TypeOK
    <3> QED
      BY <1>3, <3>1 DEF RecordInv, OpsLast, EntriesContinue, Known
  <2> QED
    BY <1>1, <2>1, <2>2, <2>3 DEF RecordInv, EntriesNamed, Known, Begun, ListsOwn
<1> QED
  BY <1>2, <1>3, StepContinues DEF RecordInv

LEMMA Records == Spec => []RecordInv
BY RecordInit, RecordStep, PTL DEF Spec

Rows == {AttachList[i] : i \in 1 .. Len(AttachList)}

LEMMA RowsAre ==
  {"OSD::dequeue_op", "PrimaryLogPG::execute_ctx",
   "ReplicatedBackend::submit_transaction", "ECBackend::submit_transaction",
   "OpRequest::mark_flag_point_string", "OpRequest::mark_flag_point",
   "ReplicatedBackend::generate_subop", "ReplicatedBackend::do_repop_reply",
   "BlueStore::queue_transactions", "BlueStore::_txc_calc_cost",
   "BlueStore::_txc_state_proc", "BlueStore::_txc_add_transaction",
   "PrimaryLogPG::log_op_stats", "ReplicatedBackend::repop_commit",
   "OSD::enqueue_op"} \subseteq Rows
<1>1. /\ AttachList[1] = "OSD::dequeue_op" /\ AttachList[2] = "PrimaryLogPG::execute_ctx"
      /\ AttachList[3] = "ReplicatedBackend::submit_transaction"
      /\ AttachList[4] = "ECBackend::submit_transaction"
      /\ AttachList[5] = "OpRequest::mark_flag_point_string"
      /\ AttachList[6] = "OpRequest::mark_flag_point"
      /\ AttachList[7] = "ReplicatedBackend::generate_subop"
      /\ AttachList[8] = "ReplicatedBackend::do_repop_reply"
      /\ AttachList[9] = "BlueStore::queue_transactions"
      /\ AttachList[10] = "BlueStore::_txc_calc_cost"
      /\ AttachList[11] = "BlueStore::_txc_state_proc"
      /\ AttachList[12] = "BlueStore::_txc_add_transaction"
      /\ AttachList[13] = "PrimaryLogPG::log_op_stats"
      /\ AttachList[14] = "ReplicatedBackend::repop_commit"
      /\ AttachList[15] = "OSD::enqueue_op"
  BY DEF AttachList, LaterProbes
<1> QED
  BY <1>1, AttachListLength DEF Rows

\* While a request is tracked every probe that could be attached is.
LEMMA LiveWhileKnown ==
  ASSUME RecordInv, NEW k \in Key, Known(k), NEW f \in Rows \cap Probes
  PROVE  Live(f)
<1>1. attached = Len(AttachList)
  BY AttachListLength DEF RecordInv, OpsLast, TypeInv, TypeOK
<1> QED
  BY <1>1 DEF Live, Rows

\* A report lists operations of the replica's request, at most as many as the
\* record has room for, however many transactions, of however many operations
\* and buffers, were queued together (uprobe_txc_add_transaction).
THEOREM ReplicaListing == Spec => []ReplicaOpsListed
<1>1. RecordInv => ReplicaOpsListed
  <2> SUFFICES ASSUME RecordInv, NEW i \in 1 .. Len(rb), rb[i].op_type = "OSD_REPOP"
               PROVE  rb[i].captured <= AtMost(rb[i].total, MAX_DETAIL_OPS)
    BY DEF ReplicaOpsListed, ListsOwnOps, Submitted
  <2>1. ListsOwn(rb[i])
    BY DEF RecordInv
  <2> QED
    BY <2>1 DEF ListsOwn, AtMost
<1> QED
  BY <1>1, Records, PTL

\* A step that leaves a request tracked leaves it the time it was first dequeued
\* and first queued a transaction, requeues, resends, evictions and aged
\* records included (uprobe_dequeue_op, uprobe_queue_transactions).
THEOREM FirstAttemptStays == Spec => FirstAttemptKept
<1>1. ASSUME RecordInv, [Next]_vars,
             NEW k \in Key, NEW s \in FirstStamps, ops[k] # None, ops'[k] # None,
             ops'[k].stamp["enqueue"] = ops[k].stamp["enqueue"],
             ops[k].stamp[s] # Unset
      PROVE  ops'[k].stamp[s] = ops[k].stamp[s]
  <2>1. CASE EntriesContinue
    BY <1>1, <2>1 DEF EntriesContinue, Continues
  <2>2. ASSUME NEW m \in Msg, Enqueues(m) PROVE ops'[k] = ops[k]
    <3>1. Known(k) /\ ProbesTyped
      BY <1>1, TypeParts DEF Known, RecordInv
    <3>2. ops[k].stamp["enqueue"] # m
      <4>1. Begun(ops[k])
        BY <1>1, <3>1 DEF RecordInv
      <4>2. stage[m] = "new"
        BY <2>2 DEF Enqueues
      <4> QED
        BY <4>1, <4>2 DEF Begun
    <3>3. NewEntry(m).stamp["enqueue"] = m
      BY NewEntryFields
    <3>4. CASE ops' = [ops EXCEPT ![KeyOf[m]] = NewEntry(m)]
      BY <1>1, <3>1, <3>2, <3>3, <3>4 DEF ProbesTyped
    <3>5. CASE ops' = [ops EXCEPT ![KeyOf[m]] = None]
      BY <1>1, <3>1, <3>5 DEF ProbesTyped
    <3> QED
      BY <2>2, <3>4, <3>5 DEF Enqueues
  <2> QED
    BY <1>1, <2>1, <2>2, StepContinues DEF RecordInv
<1>2. RecordInv /\ [Next]_vars =>
        [\A k \in Key : \A s \in {"dequeue", "queue_transaction"} :
           /\ ops[k] # None /\ ops'[k] # None
           /\ ops'[k].stamp["enqueue"] = ops[k].stamp["enqueue"]
           /\ ops[k].stamp[s] # Unset
           => ops'[k].stamp[s] = ops[k].stamp[s]]_vars
  BY <1>1 DEF FirstStamps
<1> QED
  BY <1>2, Records, PTL DEF Spec, FirstAttemptKept

-----------------------------------------------------------------------------
(* The OSD's side: what its threads hold, whatever the probes do           *)

OfKey(k) == {m \in Msg : KeyOf[m] = k}
Holds(t) == worker[t].msg \in Msg
Storing(t) == worker[t].pc \in {"queueing", "costed"}

\* Only these are submitted to the replicas.
Submits(m) == TypeOfMsg(m) = "OSD_OP" /\ m \notin Reads \cup Erasure

\* A message a thread holds is running, and no other of its key is.
HoldsRunning ==
  /\ \A t \in Thread : Holds(t) => stage[worker[t].msg] = "running"
  /\ \A t, u \in Thread :
       Holds(t) /\ Holds(u) /\ KeyOf[worker[t].msg] = KeyOf[worker[u].msg] => t = u

PhaseRight(t) ==
  /\ worker[t].pc = "idle" => worker[t].msg = None
  /\ worker[t].pc \in {"dequeued", "executed", "submitted"} => Holds(t)
  /\ worker[t].pc = "executed" => TypeOfMsg(worker[t].msg) = "OSD_OP"
  /\ worker[t].pc = "submitted" => Submits(worker[t].msg)
  /\ Storing(t) =>
       /\ worker[t].msg \in Msg \cup {Background}
       /\ txc[worker[t].txc].owner = worker[t].msg
       /\ txc[worker[t].txc].state = "PREPARE"

StoresOne ==
  \A t, u \in Thread :
    Storing(t) /\ Storing(u) /\ worker[t].txc = worker[u].txc => t = u

OwnerRight(x) ==
  /\ txc[x].state = "free" => txc[x].owner = None
  /\ txc[x].owner = Background => x \in PgTxc
  /\ txc[x].owner \in Msg =>
       TypeOfMsg(txc[x].owner) = "OSD_REPOP" \/ Submits(txc[x].owner)

CommitsRight ==
  \A m \in Msg : stage[m] = "committing" =>
    TypeOfMsg(m) = "OSD_REPOP" \/ (TypeOfMsg(m) = "OSD_OP" /\ m \notin Reads)

LogRight == \A k \in pglog : TypeOf[k] = "OSD_OP" /\ \E m \in OfKey(k) : m \notin Reads

OsdInv ==
  /\ TypeInv
  /\ HoldsRunning /\ (\A t \in Thread : PhaseRight(t)) /\ StoresOne
  /\ (\A x \in Txc : OwnerRight(x)) /\ CommitsRight /\ LogRight

LEMMA OsdFacts ==
  ASSUME TypeInv
  PROVE  /\ worker \in [Thread -> WorkerRecord] /\ stage \in [Msg -> Stages]
         /\ txc \in [Txc -> [owner : Msg \cup {Background, None}, state : TxcStates]]
         /\ \A t \in Thread : Storing(t) => worker[t].txc \in Txc
         /\ None \notin Msg /\ Background \notin Msg /\ Background # None
BY ConstantAssumption
   DEF ConstantAssumption, TypeInv, TypeOK, QueueingHasTxc, Storing, WorkerRecord

LEMMA RequestOsd ==
  ASSUME OsdInv, TypeInv', NEW m \in Msg, RequestStep(m)
  PROVE  OsdInv'
<1> USE OsdFacts
    DEF Work, Held, GoTo, Release, SetStage, IdleWorker, StateProc, OsdInv,
        HoldsRunning, PhaseRight, StoresOne, OwnerRight, CommitsRight, LogRight,
        Holds, Storing, Submits, OfKey, TypeOfMsg, WorkerRecord
<1>1. CASE EnqueueOp(m)
  BY <1>1 DEF EnqueueOp
<1>2. CASE RequeueOp(m)
  BY <1>2 DEF RequeueOp
<1>3. CASE IntervalChange(m)
  BY <1>3 DEF IntervalChange
<1>4. CASE CompleteWrite(m)
  BY <1>4 DEF CompleteWrite, Committed
<1>5. CASE RepopCommit(m)
  BY <1>5 DEF RepopCommit, Committed
<1> QED
  BY <1>1, <1>2, <1>3, <1>4, <1>5 DEF RequestStep

LEMMA ThreadOsd ==
  ASSUME OsdInv, TypeInv', NEW t \in Thread, NEW m \in Msg, ThreadStep(t, m)
  PROVE  OsdInv'
<1> USE OsdFacts
    DEF Work, Held, GoTo, Release, SetStage, IdleWorker, StateProc, OsdInv,
        HoldsRunning, PhaseRight, StoresOne, OwnerRight, CommitsRight, LogRight,
        Holds, Storing, Submits, OfKey, TypeOfMsg, WorkerRecord
<1>1. CASE DequeueOp(t, m)
  BY <1>1 DEF DequeueOp
<1>2. CASE DelayOp(t, m)
  BY <1>2 DEF DelayOp
<1>3. CASE FinishUnlogged(t, m)
  BY <1>3 DEF FinishUnlogged
<1>4. CASE ExecuteCtx(t, m)
  BY <1>4 DEF ExecuteCtx
<1>5. CASE CompleteRead(t, m)
  BY <1>5 DEF CompleteRead
<1>6. CASE SubmitTransaction(t, m)
  BY <1>6 DEF SubmitTransaction
<1>7. CASE EcSubmitTransaction(t, m)
  BY <1>7 DEF EcSubmitTransaction
<1>8. CASE \E p \in Peer : GenerateSubop(t, m, p)
  BY <1>8 DEF GenerateSubop
<1>9. CASE \E p \in Peer : PeerReply(t, m, p)
  BY <1>9 DEF PeerReply
<1>10. CASE \E x \in Txc, n \in 1 .. MaxTxns : QueueTransactions(t, m, x, n)
  BY <1>10 DEF QueueTransactions
<1> QED
  BY <1>1, <1>2, <1>3, <1>4, <1>5, <1>6, <1>7, <1>8, <1>9, <1>10 DEF ThreadStep

LEMMA StoreOsd ==
  ASSUME OsdInv, TypeInv', NEW t \in Thread, StoreStep(t)
  PROVE  OsdInv'
<1> USE OsdFacts
    DEF Work, Held, GoTo, Release, SetStage, IdleWorker, StateProc, OsdInv,
        HoldsRunning, PhaseRight, StoresOne, OwnerRight, CommitsRight, LogRight,
        Holds, Storing, Submits, OfKey, TypeOfMsg, WorkerRecord
<1>1. CASE \E x \in Txc, n \in 1 .. MaxTxns : QueuePgWork(t, x, n)
  BY <1>1 DEF QueuePgWork
<1>2. CASE \E n \in TxnOps, buffers \in 1 .. 2 : AddTransaction(t, n, buffers)
  BY <1>2 DEF AddTransaction
<1>3. CASE CalcCost(t)
  BY <1>3 DEF CalcCost
<1>4. CASE \E pending \in 0 .. 1 : PrepareTxc(t, pending)
  BY <1>4 DEF PrepareTxc
<1> QED
  BY <1>1, <1>2, <1>3, <1>4 DEF StoreStep

LEMMA OtherOsd ==
  ASSUME OsdInv, TypeInv',
         \/ \E x \in Txc : TxcStep(x)
         \/ \E k \in Key : AgePasses(k)
         \/ AttachNext \/ Consume \/ EvictStep \/ UNCHANGED vars
  PROVE  OsdInv'
<1> USE OsdFacts
    DEF Work, Held, GoTo, Release, SetStage, IdleWorker, StateProc, OsdInv,
        HoldsRunning, PhaseRight, StoresOne, OwnerRight, CommitsRight, LogRight,
        Holds, Storing, Submits, OfKey, TypeOfMsg, WorkerRecord
<1>1. CASE \E x \in Txc : TxcStep(x)
  <2> PICK x \in Txc : TxcStep(x)
    BY <1>1
  <2>1. CASE AioDone(x)
    BY <2>1 DEF AioDone
  <2>2. CASE IoDone(x)
    BY <2>2 DEF IoDone
  <2>3. CASE KvSubmitted(x)
    BY <2>3 DEF KvSubmitted
  <2> QED
    BY <2>1, <2>2, <2>3 DEF TxcStep
<1>2. CASE \E k \in Key : AgePasses(k)
  BY <1>2 DEF AgePasses, osd
<1>3. CASE AttachNext \/ Consume \/ UNCHANGED vars
  BY <1>3 DEF AttachNext, Consume, vars, osd
<1>4. CASE EvictStep
  BY <1>4 DEF EvictStep, EvictOp, EvictThread, EvictTxc, osd
<1> QED
  BY <1>1, <1>2, <1>3, <1>4 DEF OsdInv

LEMMA OsdInit == Init => OsdInv
<1> SUFFICES ASSUME Init PROVE OsdInv
  OBVIOUS
<1>1. TypeInv
  BY InitTyped
<1>2. \A t \in Thread : worker[t].pc = "idle" /\ worker[t].msg = None /\ ~Holds(t) /\ ~Storing(t)
  BY <1>1, OsdFacts DEF Init, IdleWorker, Holds, Storing
<1>3. HoldsRunning /\ (\A t \in Thread : PhaseRight(t)) /\ StoresOne
  BY <1>2 DEF HoldsRunning, PhaseRight, StoresOne
<1>4. (\A x \in Txc : OwnerRight(x)) /\ CommitsRight /\ LogRight
  BY <1>1, OsdFacts DEF Init, OwnerRight, CommitsRight, LogRight
<1> QED
  BY <1>1, <1>3, <1>4 DEF OsdInv

LEMMA OsdStep == OsdInv /\ [Next]_vars => OsdInv'
<1>1. OsdInv => TypeInv
  BY DEF OsdInv
<1> QED
  BY <1>1, TypeStep, RequestOsd, ThreadOsd, StoreOsd, OtherOsd DEF Next

-----------------------------------------------------------------------------
(* A record ends with its request                                          *)

\* Both functions that end a request are probed, and their keys readable.
RepliesSeen ==
  /\ {"PrimaryLogPG::log_op_stats", "ReplicatedBackend::repop_commit"} \subseteq Probes
  /\ CanRead("log.key") /\ CanRead("repop.key")

\* A tracked request is in flight, or was ended without being logged.
InFlight ==
  \A k \in Key : Known(k) => \E m \in OfKey(k) : stage[m] \notin {"new", "replied"}

LEMMA ReplySteps ==
  ASSUME TypeInv, [Next]_vars, NEW m \in Msg, stage[m] # "replied",
         stage'[m] = "replied"
  PROVE  \/ \E t \in Thread : CompleteRead(t, m)
         \/ CompleteWrite(m) \/ RepopCommit(m)
<1>0. stage \in [Msg -> Stages]
  BY DEF TypeInv, TypeOK
<1>1. ASSUME NEW n \in Msg, RequestStep(n)
      PROVE  CompleteWrite(m) \/ RepopCommit(m)
  BY <1>0, <1>1 DEF RequestStep, EnqueueOp, RequeueOp, IntervalChange, CompleteWrite,
                    RepopCommit, SetStage
<1>2. ASSUME NEW t \in Thread, NEW n \in Msg, ThreadStep(t, n) PROVE CompleteRead(t, m)
  BY <1>0, <1>2 DEF ThreadStep, DequeueOp, DelayOp, FinishUnlogged, ExecuteCtx,
                    CompleteRead, SubmitTransaction, EcSubmitTransaction,
                    GenerateSubop, PeerReply, QueueTransactions, SetStage
<1>3. ASSUME NEW t \in Thread, StoreStep(t) PROVE FALSE
  BY <1>0, <1>3 DEF StoreStep, QueuePgWork, AddTransaction, CalcCost, PrepareTxc
<1>4. ASSUME \/ \E x \in Txc : TxcStep(x)
             \/ \E k \in Key : AgePasses(k)
             \/ AttachNext \/ Consume \/ EvictStep \/ UNCHANGED vars
      PROVE  FALSE
  BY <1>4 DEF TxcStep, AioDone, IoDone, KvSubmitted, AgePasses, AttachNext, Consume,
              EvictStep, EvictOp, EvictThread, EvictTxc, osd, vars
<1> QED
  BY <1>1, <1>2, <1>3, <1>4 DEF Next

\* The reply to a tracked request takes its record away.
LEMMA ReplyEnds ==
  ASSUME RepliesSeen, RecordInv, NEW m \in Msg, Known(KeyOf[m]),
         \/ \E t \in Thread : CompleteRead(t, m)
         \/ CompleteWrite(m) \/ RepopCommit(m)
  PROVE  ops'[KeyOf[m]] = None
<1> DEFINE k == KeyOf[m]
<1>0. k \in Key /\ ops \in [Key -> OpV \cup {None}]
  BY KeyTyped, TypeParts DEF RecordInv, ProbesTyped
<1>1. Live("PrimaryLogPG::log_op_stats") /\ Live("ReplicatedBackend::repop_commit")
  BY <1>0, RowsAre, LiveWhileKnown DEF RepliesSeen
<1>2. uprobe_log_op_stats(m) \/ uprobe_repop_commit(m)
  BY <1>1 DEF CompleteRead, CompleteWrite, RepopCommit, Fires
<1>3. Emit(k, m) \/ Forget(k)
  BY <1>2 DEF RepliesSeen, uprobe_log_op_stats, uprobe_repop_commit
<1> QED
  BY <1>0, <1>3 DEF Emit, Forget

LEMMA InFlightStep ==
  ASSUME RepliesSeen, RecordInv, InFlight, [Next]_vars
  PROVE  InFlight'
<1>0. TypeInv /\ stage \in [Msg -> Stages] /\ ops \in [Key -> OpV \cup {None}]
  BY DEF RecordInv, TypeInv, TypeOK
<1> SUFFICES ASSUME NEW k \in Key, ops'[k] # None
             PROVE  \E m \in OfKey(k) : stage'[m] \notin {"new", "replied"}
  BY DEF InFlight, Known
<1>1. CASE Known(k)
  <2> PICK m \in OfKey(k) : stage[m] \notin {"new", "replied"}
    BY <1>1 DEF InFlight
  <2>1. m \in Msg /\ KeyOf[m] = k
    BY DEF OfKey
  <2>2. stage'[m] # "new"
    BY <1>0, <2>1, ArrivedStays
  <2>3. stage'[m] # "replied"
    BY <1>0, <1>1, <2>1, ReplySteps, ReplyEnds
  <2> QED
    BY <2>2, <2>3
<1>2. CASE ~Known(k)
  <2>1. PICK m \in Msg : Enqueues(m)
    BY <1>2, StepContinues DEF RecordInv, EntriesContinue
  <2>2. KeyOf[m] = k
    BY <1>0, <1>2, <2>1, KeyTyped DEF Enqueues, Known
  <2> QED
    BY <1>0, <2>1, <2>2 DEF Enqueues, OfKey
<1> QED
  BY <1>1, <1>2

\* When every message under a key is answered no record is left under it,
\* evictions, resends, aged records and full rings included, provided the
\* functions that end a request are probed (uprobe_log_op_stats,
\* uprobe_repop_commit).
THEOREM EntriesEnd ==
  ASSUME RepliesSeen
  PROVE  Spec => []EntriesReleased
<1>1. Init => InFlight
  BY DEF Init, InFlight, Known
<1>2. RecordInv /\ InFlight /\ [Next]_vars => InFlight'
  BY InFlightStep
<1>3. InFlight => EntriesReleased
  <2> SUFFICES ASSUME InFlight, NEW k \in Key, Known(k)
               PROVE  ~({stage[m] : m \in {n \in Msg : KeyOf[n] = k}}
                          \subseteq {"new", "replied"})
    BY DEF EntriesReleased
  <2>1. PICK m \in OfKey(k) : stage[m] \notin {"new", "replied"}
    BY DEF InFlight
  <2> QED
    BY <2>1 DEF OfKey
<1> QED
  BY <1>1, <1>2, <1>3, Records, PTL DEF Spec

-----------------------------------------------------------------------------
(* A report has an answered request of its own                             *)

\* The function that ends the tracking of an erasure-coded write is probed.
EcSeen == "ECBackend::submit_transaction" \in Probes /\ CanRead("ec.key")

\* The messages of one key are alike, and no erasure-coded write is resent: its
\* resend would be tracked anew while the write itself is being committed.
AlikeByKey ==
  \A m, n \in Msg : KeyOf[m] = KeyOf[n] => (m \in Reads <=> n \in Reads)

EcOnce == \A m \in Erasure \ Reads, n \in Msg : KeyOf[n] = KeyOf[m] => n = m

EcUntracked ==
  \A m \in Erasure \ Reads :
    stage[m] = "committing" /\ TypeOfMsg(m) = "OSD_OP" => ~Known(KeyOf[m])

\* The ring's reports and those already gone, counted; Reports is its value.
LEMMA ReportsTyped ==
  ASSUME TypeInv
  PROVE  Len(rb) \in Nat /\ printed \in Nat /\ rb_drops \in Nat /\ Reports \in Nat
BY DEF TypeInv, TypeOK, Reports

\* Only a reply adds a report, and it adds one.
LEMMA ReportsStep ==
  ASSUME TypeInv, [Next]_vars
  PROVE  \/ Reports' = Reports
         \/ \E m \in Msg : /\ Reports' = Reports + 1 /\ Known(KeyOf[m])
                           /\ \/ \E t \in Thread : CompleteRead(t, m)
                              \/ CompleteWrite(m) \/ RepopCommit(m)
<1>0. ProbesTyped
  BY TypeParts
<1>1. ASSUME UNCHANGED <<rb, rb_drops, printed>> PROVE Reports' = Reports
  BY <1>1 DEF Reports
<1>2. ASSUME NEW m \in Msg,
             \/ \E t \in Thread : CompleteRead(t, m)
             \/ CompleteWrite(m) \/ RepopCommit(m)
      PROVE  \/ Reports' = Reports
             \/ Reports' = Reports + 1 /\ Known(KeyOf[m])
  <2>1. printed' = printed
    BY <1>2 DEF CompleteRead, CompleteWrite, RepopCommit
  <2>2. \/ UNCHANGED ring
        \/ Known(KeyOf[m]) /\ Emit(KeyOf[m], m)
    BY <1>2 DEF CompleteRead, CompleteWrite, RepopCommit, Fires, uprobe_log_op_stats,
                uprobe_repop_commit, Forget, probeVars
  <2>3. CASE UNCHANGED ring
    BY <1>1, <2>1, <2>3 DEF ring
  <2>4. CASE Known(KeyOf[m]) /\ Emit(KeyOf[m], m)
    <3>1. Stamp(ops[KeyOf[m]], "reply", m) \in OpV
      BY <1>0, <2>4, KeyTyped, KnownTyped, StampTyped DEF Stamps, Writer
    <3>2. Len(Append(rb, Stamp(ops[KeyOf[m]], "reply", m))) = Len(rb) + 1
      BY <1>0, <3>1 DEF ProbesTyped
    <3>3. \/ Len(rb') = Len(rb) + 1 /\ rb_drops' = rb_drops
          \/ Len(rb') = Len(rb) /\ rb_drops' = rb_drops + 1
      BY <2>4, <3>2 DEF Emit
    <3>4. Len(rb) \in Nat /\ printed \in Nat /\ rb_drops \in Nat
      BY ReportsTyped
    <3> QED
      BY <2>1, <2>4, <3>3, <3>4 DEF Reports
  <2> QED
    BY <2>2, <2>3, <2>4
<1>3. ASSUME NEW m \in Msg, RequestStep(m)
      PROVE  \/ UNCHANGED <<rb, rb_drops, printed>>
             \/ CompleteWrite(m) \/ RepopCommit(m)
  BY <1>3 DEF RequestStep, EnqueueOp, RequeueOp, IntervalChange, Fires,
              uprobe_enqueue_op, probeVars, maps, ring
<1>4. ASSUME NEW t \in Thread, NEW m \in Msg, ThreadStep(t, m)
      PROVE  UNCHANGED <<rb, rb_drops, printed>> \/ CompleteRead(t, m)
  BY <1>4 DEF ThreadStep, DequeueOp, DelayOp, FinishUnlogged, ExecuteCtx,
              SubmitTransaction, EcSubmitTransaction, GenerateSubop, PeerReply,
              QueueTransactions, Fires, uprobe_dequeue_op, uprobe_mark_flag_point,
              uprobe_mark_flag_point_string, uprobe_execute_ctx,
              uprobe_submit_transaction, uprobe_ec_submit_transaction, Forget,
              uprobe_generate_subop, uprobe_queue_transactions, probeVars, ring
<1>5. ASSUME NEW t \in Thread, StoreStep(t) PROVE UNCHANGED <<rb, rb_drops, printed>>
  BY <1>5 DEF StoreStep, QueuePgWork, AddTransaction, CalcCost, PrepareTxc, StateProc,
              Fires, uprobe_queue_transactions, uprobe_txc_add_transaction,
              uprobe_txc_calc_cost, uprobe_txc_state_proc, probeVars, ring
<1>6. ASSUME \/ \E x \in Txc : TxcStep(x)
             \/ \E k \in Key : AgePasses(k)
             \/ AttachNext \/ EvictStep \/ UNCHANGED vars
      PROVE  UNCHANGED <<rb, rb_drops, printed>>
  BY <1>6 DEF TxcStep, AioDone, IoDone, KvSubmitted, StateProc, Fires,
              uprobe_txc_state_proc, AgePasses, AttachNext, EvictStep, EvictOp,
              EvictThread, EvictTxc, vars, probeVars, ring
<1>7. CASE Consume
  <2>1. Len(rb') = Len(rb) - 1 /\ printed' = printed + 1 /\ rb_drops' = rb_drops
    BY <1>0, <1>7 DEF Consume, ProbesTyped
  <2> QED
    BY <2>1, ReportsTyped DEF Reports
<1> QED
  BY <1>1, <1>2, <1>3, <1>4, <1>5, <1>6, <1>7 DEF Next

LEMMA CommitSteps ==
  ASSUME TypeInv, [Next]_vars, NEW m \in Msg, stage[m] # "committing",
         stage'[m] = "committing"
  PROVE  \E t \in Thread :
           \/ EcSubmitTransaction(t, m)
           \/ \E pending \in 0 .. 1 : PrepareTxc(t, pending) /\ worker[t].msg = m
<1>0. stage \in [Msg -> Stages]
  BY DEF TypeInv, TypeOK
<1>1. ASSUME NEW n \in Msg, RequestStep(n) PROVE FALSE
  BY <1>0, <1>1 DEF RequestStep, EnqueueOp, RequeueOp, IntervalChange, CompleteWrite,
                    RepopCommit, SetStage
<1>2. ASSUME NEW t \in Thread, NEW n \in Msg, ThreadStep(t, n)
      PROVE  EcSubmitTransaction(t, m)
  BY <1>0, <1>2 DEF ThreadStep, DequeueOp, DelayOp, FinishUnlogged, ExecuteCtx,
                    CompleteRead, SubmitTransaction, EcSubmitTransaction,
                    GenerateSubop, PeerReply, QueueTransactions, SetStage
<1>3. ASSUME NEW t \in Thread, StoreStep(t)
      PROVE  \E pending \in 0 .. 1 : PrepareTxc(t, pending) /\ worker[t].msg = m
  BY <1>0, <1>3 DEF StoreStep, QueuePgWork, AddTransaction, CalcCost, PrepareTxc
<1>4. ASSUME \/ \E x \in Txc : TxcStep(x)
             \/ \E k \in Key : AgePasses(k)
             \/ AttachNext \/ Consume \/ EvictStep \/ UNCHANGED vars
      PROVE  FALSE
  BY <1>4 DEF TxcStep, AioDone, IoDone, KvSubmitted, AgePasses, AttachNext, Consume,
              EvictStep, EvictOp, EvictThread, EvictTxc, osd, vars
<1> QED
  BY <1>1, <1>2, <1>3, <1>4 DEF Next

LEMMA EcUntrackedStep ==
  ASSUME EcSeen, EcOnce, RecordInv, OsdInv, EcUntracked, [Next]_vars
  PROVE  EcUntracked'
<1>0. TypeInv /\ stage \in [Msg -> Stages] /\ ops \in [Key -> OpV \cup {None}]
  BY DEF RecordInv, TypeInv, TypeOK
<1> SUFFICES ASSUME NEW m \in Erasure \ Reads, stage'[m] = "committing",
                    TypeOfMsg(m) = "OSD_OP"
             PROVE  ops'[KeyOf[m]] = None
  BY DEF EcUntracked, Known, TypeOfMsg
<1> DEFINE k == KeyOf[m]
<1>a. m \in Msg /\ k \in Key
  BY KeyTyped, ConstantAssumption DEF ConstantAssumption
<1>1. CASE stage[m] = "committing"
  <2>1. ~Known(k)
    BY <1>1 DEF EcUntracked
  <2>2. ASSUME NEW n \in Msg, Enqueues(n) PROVE ops'[k] = None
    <3>1. KeyOf[n] # k
      BY <1>1, <2>2 DEF EcOnce, Enqueues
    <3> QED
      BY <1>0, <1>a, <2>1, <2>2, <3>1 DEF Enqueues, Known
  <2> QED
    BY <1>a, <2>1, <2>2, StepContinues DEF RecordInv, EntriesContinue
<1>2. CASE stage[m] # "committing"
  <2>1. PICK t \in Thread :
          \/ EcSubmitTransaction(t, m)
          \/ \E pending \in 0 .. 1 : PrepareTxc(t, pending) /\ worker[t].msg = m
    BY <1>0, <1>a, <1>2, CommitSteps
  <2>2. CASE EcSubmitTransaction(t, m)
    <3>1. Known(k) => Live("ECBackend::submit_transaction")
      BY <1>a, RowsAre, LiveWhileKnown DEF EcSeen
    <3>2. Forget(k) \/ (~Known(k) /\ UNCHANGED probeVars)
      BY <2>2, <3>1 DEF EcSubmitTransaction, Fires, uprobe_ec_submit_transaction, EcSeen
    <3> QED
      BY <1>0, <1>a, <3>2 DEF Forget, Known, probeVars, maps
  <2>3. ASSUME NEW pending \in 0 .. 1, PrepareTxc(t, pending), worker[t].msg = m
        PROVE  FALSE
    <3>1. Storing(t) /\ worker[t].txc \in Txc
      BY <1>0, <2>3, OsdFacts DEF PrepareTxc, Work, Storing
    <3>2. txc[worker[t].txc].owner = m
      BY <2>3, <3>1 DEF OsdInv, PhaseRight
    <3> QED
      BY <1>a, <3>1, <3>2 DEF OsdInv, OwnerRight, Submits
  <2> QED
    BY <2>1, <2>2, <2>3
<1> QED
  BY <1>1, <1>2

LEMMA RepliedStays ==
  ASSUME OsdInv, [Next]_vars, NEW m \in Msg, stage[m] = "replied"
  PROVE  stage'[m] = "replied"
<1>0. /\ stage \in [Msg -> Stages]
      /\ \A t \in Thread : worker[t].msg # m
  BY DEF OsdInv, TypeInv, TypeOK, HoldsRunning, Holds
<1>1. ASSUME NEW n \in Msg, RequestStep(n) PROVE stage'[m] = "replied"
  BY <1>0, <1>1 DEF RequestStep, EnqueueOp, RequeueOp, IntervalChange, CompleteWrite,
                    RepopCommit, Committed, SetStage
<1>2. ASSUME NEW t \in Thread, NEW n \in Msg, ThreadStep(t, n)
      PROVE  stage'[m] = "replied"
  BY <1>0, <1>2 DEF ThreadStep, DequeueOp, DelayOp, FinishUnlogged, ExecuteCtx,
                    CompleteRead, SubmitTransaction, EcSubmitTransaction,
                    GenerateSubop, PeerReply, QueueTransactions, SetStage, Held
<1>3. ASSUME NEW t \in Thread, StoreStep(t) PROVE stage'[m] = "replied"
  BY <1>0, <1>3 DEF StoreStep, QueuePgWork, AddTransaction, CalcCost, PrepareTxc
<1>4. ASSUME \/ \E x \in Txc : TxcStep(x)
             \/ \E k \in Key : AgePasses(k)
             \/ AttachNext \/ Consume \/ EvictStep \/ UNCHANGED vars
      PROVE  stage'[m] = "replied"
  BY <1>4 DEF TxcStep, AioDone, IoDone, KvSubmitted, AgePasses, AttachNext, Consume,
              EvictStep, EvictOp, EvictThread, EvictTxc, osd, vars
<1> QED
  BY <1>1, <1>2, <1>3, <1>4 DEF Next

\* Only a write that a thread submits is new in the pg log.
LEMMA LogSteps ==
  ASSUME OsdInv, [Next]_vars, NEW k \in Key, k \in pglog' \ pglog
  PROVE  \E t \in Thread, n \in Msg :
           /\ KeyOf[n] = k /\ Holds(t) /\ worker[t].msg = n /\ n \notin Reads
           /\ worker[t].pc = "executed"
<1>1. ASSUME NEW n \in Msg, RequestStep(n) PROVE FALSE
  BY <1>1 DEF RequestStep, EnqueueOp, RequeueOp, IntervalChange, CompleteWrite,
              RepopCommit
<1>2. ASSUME NEW t \in Thread, NEW n \in Msg, ThreadStep(t, n)
      PROVE  /\ KeyOf[n] = k /\ Holds(t) /\ worker[t].msg = n /\ n \notin Reads
             /\ worker[t].pc = "executed"
  BY <1>2 DEF ThreadStep, DequeueOp, DelayOp, FinishUnlogged, ExecuteCtx,
              CompleteRead, SubmitTransaction, EcSubmitTransaction,
              GenerateSubop, PeerReply, QueueTransactions, Held, Holds, Work
<1>3. ASSUME NEW t \in Thread, StoreStep(t) PROVE FALSE
  BY <1>3 DEF StoreStep, QueuePgWork, AddTransaction, CalcCost, PrepareTxc
<1>4. ASSUME \/ \E x \in Txc : TxcStep(x)
             \/ \E j \in Key : AgePasses(j)
             \/ AttachNext \/ Consume \/ EvictStep \/ UNCHANGED vars
      PROVE  FALSE
  BY <1>4 DEF TxcStep, AioDone, IoDone, KvSubmitted, AgePasses, AttachNext, Consume,
              EvictStep, EvictOp, EvictThread, EvictTxc, osd, vars
<1> QED
  BY <1>1, <1>2, <1>3, <1>4 DEF Next

\* The requests whose reply a report may be of only become more.
LEMMA LoggedGrows ==
  ASSUME AlikeByKey, EcOnce, OsdInv, [Next]_vars
  PROVE  LoggedReplies \subseteq LoggedReplies'
<1>0. TypeInv /\ stage \in [Msg -> Stages]
  BY DEF OsdInv, TypeInv, TypeOK
<1> SUFFICES ASSUME NEW m \in LoggedReplies PROVE m \in LoggedReplies'
  OBVIOUS
<1>1. m \in Msg /\ stage[m] = "replied" /\ ~(m \in Erasure /\ KeyOf[m] \in pglog)
  BY DEF LoggedReplies
<1>2. stage'[m] = "replied"
  BY <1>0, <1>1, RepliedStays
<1>3. ASSUME m \in Erasure, KeyOf[m] \in pglog' PROVE FALSE
  <2>1. PICK t \in Thread, n \in Msg : /\ KeyOf[n] = KeyOf[m] /\ Holds(t)
                                       /\ worker[t].msg = n /\ n \notin Reads
    BY <1>1, <1>3, KeyTyped, LogSteps
  <2>2. stage[n] = "running"
    BY <2>1 DEF OsdInv, HoldsRunning
  <2>3. m \notin Reads
    BY <1>1, <2>1 DEF AlikeByKey
  <2> QED
    BY <1>1, <1>3, <2>1, <2>2, <2>3 DEF EcOnce
<1> QED
  BY <1>1, <1>2, <1>3 DEF LoggedReplies

\* A reply that adds a report adds to the logged replies.
LEMMA ReplyLogged ==
  ASSUME AlikeByKey, RecordInv, OsdInv, EcUntracked, NEW m \in Msg,
         Known(KeyOf[m]),
         \/ \E t \in Thread : CompleteRead(t, m)
         \/ CompleteWrite(m) \/ RepopCommit(m)
  PROVE  m \in LoggedReplies' \ LoggedReplies
<1>0. stage \in [Msg -> Stages]
  BY DEF OsdInv, TypeInv, TypeOK
<1>1. stage'[m] = "replied" /\ pglog' = pglog
  BY <1>0 DEF CompleteRead, CompleteWrite, RepopCommit, SetStage
<1>2. stage[m] \in {"running", "committing"}
  BY DEF CompleteRead, CompleteWrite, RepopCommit, Committed, Held, OsdInv,
         HoldsRunning, Holds
<1>3. ~(m \in Erasure /\ KeyOf[m] \in pglog)
  <2> SUFFICES ASSUME m \in Erasure, KeyOf[m] \in pglog PROVE FALSE
    OBVIOUS
  <2>1. TypeOfMsg(m) = "OSD_OP" /\ \E n \in OfKey(KeyOf[m]) : n \notin Reads
    BY DEF OsdInv, LogRight, TypeOfMsg
  <2>2. m \notin Reads
    BY <2>1 DEF AlikeByKey, OfKey
  <2>3. stage[m] = "committing"
    BY <2>1, <2>2 DEF CompleteRead, CompleteWrite, RepopCommit, Committed
  <2> QED
    BY <2>1, <2>2, <2>3 DEF EcUntracked
<1> QED
  BY <1>1, <1>2, <1>3 DEF LoggedReplies

CountedInv == Reports <= Cardinality(LoggedReplies)

LEMMA CountedStep ==
  ASSUME AlikeByKey, EcOnce, IsFiniteSet(Msg),
         RecordInv, OsdInv, EcUntracked, CountedInv, [Next]_vars
  PROVE  CountedInv'
<1>0. TypeInv /\ LoggedReplies \subseteq LoggedReplies'
  BY LoggedGrows DEF OsdInv
<1>1. IsFiniteSet(LoggedReplies) /\ IsFiniteSet(LoggedReplies')
  BY FS_Subset DEF LoggedReplies
<1>2. /\ Cardinality(LoggedReplies) \in Nat /\ Cardinality(LoggedReplies') \in Nat
      /\ Cardinality(LoggedReplies) <= Cardinality(LoggedReplies')
  BY <1>0, <1>1, FS_Subset, FS_CardinalityType
<1>3. ASSUME NEW m \in Msg, m \in LoggedReplies' \ LoggedReplies
      PROVE  Cardinality(LoggedReplies) + 1 <= Cardinality(LoggedReplies')
  <2>1. Cardinality(LoggedReplies \cup {m}) = Cardinality(LoggedReplies) + 1
    BY <1>1, <1>3, FS_AddElement
  <2>2. LoggedReplies \cup {m} \subseteq LoggedReplies'
    BY <1>0, <1>3
  <2> QED
    BY <1>1, <2>1, <2>2, FS_Subset
<1> DEFINE C == Cardinality(LoggedReplies)
           D == Cardinality(LoggedReplies')
           R == Reports
           S == Reports'
<1>4. R \in Nat /\ R <= C
  BY <1>0, ReportsTyped DEF CountedInv
<1>5. S = R \/ (S = R + 1 /\ C + 1 <= D)
  BY <1>0, <1>3, ReportsStep, ReplyLogged
<1>6. C \in Nat /\ D \in Nat /\ C <= D
  BY <1>2
<1>7. S <= D
  <2> HIDE DEF C, D, R, S
  <2> QED
    BY <1>4, <1>5, <1>6
<1> QED
  BY <1>7 DEF CountedInv

\* There is no more than one report for an answered request, those counted as
\* dropped included, and none of an erasure-coded write, for any number of
\* requests, threads and resends of replicated writes and reads, evictions and
\* aged records (uprobe_log_op_stats, uprobe_repop_commit,
\* uprobe_ec_submit_transaction).
THEOREM ReportsEarned ==
  ASSUME EcSeen, EcOnce, AlikeByKey, IsFiniteSet(Msg)
  PROVE  Spec => []NoReportWithoutReply
<1>1. Init => EcUntracked /\ CountedInv
  <2> SUFFICES ASSUME Init PROVE EcUntracked /\ CountedInv
    OBVIOUS
  <2>1. EcUntracked
    BY ConstantAssumption DEF ConstantAssumption, Init, EcUntracked
  <2>2. LoggedReplies = {} /\ Reports = 0
    BY DEF Init, LoggedReplies, Reports
  <2> QED
    BY <2>1, <2>2, FS_EmptySet DEF CountedInv
<1>2. RecordInv /\ OsdInv /\ EcUntracked /\ CountedInv /\ [Next]_vars
        => EcUntracked' /\ CountedInv'
  BY EcUntrackedStep, CountedStep
<1>3. CountedInv => NoReportWithoutReply
  BY DEF CountedInv, NoReportWithoutReply
<1> QED
  BY <1>1, <1>2, <1>3, Records, OsdInit, OsdStep, PTL DEF Spec


-----------------------------------------------------------------------------
(* An answered request has a report                                        *)

\* The functions that begin and end a record are probed, before any request
\* arrives, the fields they need are readable, and no record is evicted.
RepliesCounted ==
  /\ RepliesSeen /\ "OSD::enqueue_op" \in Probes
  /\ CanRead("enqueue.key") /\ CanRead("enqueue.stamps") /\ CanRead("repop.len")
  /\ ~AttachLate /\ ~Evicts

\* Only a client's write is resent: the second of two reads, or of two replica
\* requests, of one key is answered after the record went with the first.
ResendsWrites ==
  \A m, n \in Msg :
    KeyOf[m] = KeyOf[n] /\ (m \in Reads \/ TypeOfMsg(m) = "OSD_REPOP") => m = n

\* m has been submitted to the store.
Past(m) ==
  \/ stage[m] \in {"committing", "replied"}
  \/ \E t \in Thread : worker[t].msg = m /\ worker[t].pc \in {"submitted", "queueing", "costed"}

ClientWrites == {m \in Msg \ Reads : TypeOfMsg(m) = "OSD_OP"}
EcWrites == ClientWrites \cap Erasure

\* What the pg log is for: of a write and its resends one goes to the store.
WrittenOnce ==
  /\ \A m \in ClientWrites : Past(m) => KeyOf[m] \in pglog
  /\ \A m, n \in ClientWrites : KeyOf[m] = KeyOf[n] /\ Past(m) /\ Past(n) => m = n
  /\ \A t \in Thread :
       worker[t].msg \in ClientWrites /\ worker[t].pc = "executed" =>
         KeyOf[worker[t].msg] \notin pglog

\* m moves on without having been submitted, or as it was.
LEMMA PastFrame ==
  ASSUME WrittenOnce, pglog' = pglog,
         \A m \in ClientWrites : Past(m)' => Past(m),
         \A t \in Thread : worker'[t].msg \in ClientWrites /\ worker'[t].pc = "executed" =>
           worker'[t] = worker[t] \/ KeyOf[worker'[t].msg] \notin pglog
  PROVE  WrittenOnce'
BY DEF WrittenOnce, ClientWrites, TypeOfMsg

LEMMA WrittenOnceStep ==
  ASSUME OsdInv, AlikeByKey, WrittenOnce, [Next]_vars
  PROVE  WrittenOnce'
<1>0. /\ TypeInv' /\ worker \in [Thread -> WorkerRecord] /\ stage \in [Msg -> Stages]
      /\ None \notin Msg /\ Background \notin Msg /\ Background # None
  BY TypeStep, OsdFacts DEF OsdInv
<1>1. ASSUME NEW m \in Msg, RequestStep(m) PROVE WrittenOnce'
  <2>1. CASE EnqueueOp(m) \/ RequeueOp(m)
    <3>1. /\ stage[m] \notin {"committing", "replied"} /\ stage' = [stage EXCEPT ![m] = "queued"]
          /\ worker' = worker /\ pglog' = pglog
      BY <2>1 DEF EnqueueOp, RequeueOp, SetStage
    <3>2. \A n \in ClientWrites : Past(n)' => Past(n)
      BY <1>0, <3>1 DEF Past, ClientWrites
    <3> QED
      BY <1>0, <3>1, <3>2, PastFrame
  <2>2. CASE CompleteWrite(m) \/ RepopCommit(m)
    <3>1. /\ stage[m] = "committing" /\ stage' = [stage EXCEPT ![m] = "replied"]
          /\ worker' = worker /\ pglog' = pglog
      BY <2>2 DEF CompleteWrite, RepopCommit, Committed, SetStage
    <3>2. \A n \in ClientWrites : Past(n)' => Past(n)
      BY <1>0, <3>1 DEF Past, ClientWrites
    <3> QED
      BY <1>0, <3>1, <3>2, PastFrame
  <2>3. CASE IntervalChange(m)
    <3>1. /\ stage[m] = "committing" /\ TypeOfMsg(m) = "OSD_OP"
          /\ stage' = [stage EXCEPT ![m] = "queued"] /\ worker' = worker
          /\ pglog' = pglog \/ pglog' = pglog \ {KeyOf[m]}
      BY <2>3 DEF IntervalChange, SetStage
    <3>2. m \in ClientWrites /\ Past(m)
      BY <3>1 DEF OsdInv, CommitsRight, ClientWrites, Past
    <3>3. \A t \in Thread : worker[t].msg # m
      BY <3>1 DEF OsdInv, HoldsRunning, Holds
    <3>4. \A n \in ClientWrites : Past(n)' => Past(n) /\ n # m
      BY <1>0, <3>1, <3>3 DEF Past, ClientWrites
    <3>5. \A n \in ClientWrites : KeyOf[n] = KeyOf[m] => ~Past(n)'
      BY <3>2, <3>4 DEF WrittenOnce
    <3> QED
      BY <3>1, <3>4, <3>5 DEF WrittenOnce, ClientWrites, TypeOfMsg
  <2> QED
    BY <1>1, <2>1, <2>2, <2>3 DEF RequestStep
<1>2. ASSUME NEW t \in Thread, NEW m \in Msg, ThreadStep(t, m) PROVE WrittenOnce'
  <2>1. CASE DequeueOp(t, m)
    <3>1. /\ stage[m] = "queued" /\ stage' = [stage EXCEPT ![m] = "running"]
          /\ worker' = [worker EXCEPT ![t] = [IdleWorker EXCEPT !.pc = "dequeued", !.msg = m]]
          /\ pglog' = pglog
      BY <2>1 DEF DequeueOp, SetStage
    <3>2. worker'[t].pc = "dequeued" /\ \A u \in Thread : u # t => worker'[u] = worker[u]
      BY <1>0, <3>1 DEF IdleWorker
    <3>3. \A n \in ClientWrites : Past(n)' => Past(n)
      BY <1>0, <3>1, <3>2 DEF Past, ClientWrites
    <3> QED
      BY <1>0, <3>1, <3>2, <3>3, PastFrame
  <2>2. CASE DelayOp(t, m) \/ FinishUnlogged(t, m)
    <3>1. /\ stage' = [stage EXCEPT ![m] = "waiting"] \/ stage' = [stage EXCEPT ![m] = "done"]
          /\ worker' = [worker EXCEPT ![t] = IdleWorker] /\ pglog' = pglog
      BY <2>2 DEF DelayOp, FinishUnlogged, SetStage, Release
    <3>2. worker'[t].pc = "idle" /\ \A u \in Thread : u # t => worker'[u] = worker[u]
      BY <1>0, <3>1 DEF IdleWorker
    <3>3. \A n \in ClientWrites : Past(n)' => Past(n)
      BY <1>0, <3>1, <3>2 DEF Past, ClientWrites
    <3> QED
      BY <1>0, <3>1, <3>2, <3>3, PastFrame
  <2>3. CASE ExecuteCtx(t, m)
    <3>1. /\ stage' = stage /\ worker' = [worker EXCEPT ![t].pc = "executed"] /\ pglog' = pglog
          /\ worker[t].msg = m /\ KeyOf[m] \notin pglog
      BY <2>3 DEF ExecuteCtx, GoTo, Held
    <3>2. /\ worker'[t].pc = "executed" /\ worker'[t].msg = m
          /\ \A u \in Thread : u # t => worker'[u] = worker[u]
      BY <1>0, <3>1 DEF WorkerRecord
    <3>3. \A n \in ClientWrites : Past(n)' => Past(n)
      BY <1>0, <3>1, <3>2 DEF Past, ClientWrites
    <3> QED
      BY <1>0, <3>1, <3>2, <3>3, PastFrame
  <2>4. CASE CompleteRead(t, m)
    <3>1. /\ stage' = [stage EXCEPT ![m] = "replied"] /\ m \in Reads
          /\ worker' = [worker EXCEPT ![t] = IdleWorker] /\ pglog' = pglog
      BY <2>4 DEF CompleteRead, SetStage, Release
    <3>2. worker'[t].pc = "idle" /\ \A u \in Thread : u # t => worker'[u] = worker[u]
      BY <1>0, <3>1 DEF IdleWorker
    <3>3. \A n \in ClientWrites : Past(n)' => Past(n)
      BY <1>0, <3>1, <3>2 DEF Past, ClientWrites
    <3> QED
      BY <1>0, <3>1, <3>2, <3>3, PastFrame
  <2>5. CASE SubmitTransaction(t, m) \/ EcSubmitTransaction(t, m)
    <3>1. /\ worker[t].pc = "executed" /\ worker[t].msg = m /\ m \notin Reads
          /\ pglog' = pglog \cup {KeyOf[m]}
          /\ \/ stage' = stage /\ worker' = [worker EXCEPT ![t].pc = "submitted"]
             \/ /\ stage' = [stage EXCEPT ![m] = "committing"]
                /\ worker' = [worker EXCEPT ![t] = IdleWorker]
      BY <2>5 DEF SubmitTransaction, EcSubmitTransaction, Work, Held, GoTo, Release, SetStage
    <3>2. /\ TypeOfMsg(m) = "OSD_OP" /\ m \in ClientWrites
          /\ \A u \in Thread : u # t /\ Holds(u) => KeyOf[worker[u].msg] # KeyOf[m]
      BY <1>0, <3>1 DEF OsdInv, PhaseRight, HoldsRunning, Holds, ClientWrites
    <3>3. /\ worker'[t].pc \in {"submitted", "idle"}
          /\ \A u \in Thread : u # t => worker'[u] = worker[u]
      BY <1>0, <3>1 DEF WorkerRecord, IdleWorker
    <3>4. worker'[t].pc = "submitted" => worker'[t].msg = m
      BY <1>0, <3>1 DEF WorkerRecord, IdleWorker
    <3>5. \A n \in ClientWrites : Past(n)' => Past(n) \/ n = m
      BY <1>0, <3>1, <3>3, <3>4 DEF Past, ClientWrites
    <3>6. \A n \in ClientWrites : KeyOf[n] = KeyOf[m] => ~Past(n)
      BY <3>1, <3>2 DEF WrittenOnce
    <3>7. \A u \in Thread : worker'[u].msg \in ClientWrites /\ worker'[u].pc = "executed" =>
            u # t /\ KeyOf[worker'[u].msg] # KeyOf[m]
      BY <3>2, <3>3 DEF Holds, ClientWrites
    <3> QED
      BY <3>1, <3>3, <3>5, <3>6, <3>7 DEF WrittenOnce, ClientWrites, TypeOfMsg
  <2>6. CASE \E p \in Peer : GenerateSubop(t, m, p) \/ PeerReply(t, m, p)
    <3>1. stage' = stage /\ worker' = worker /\ pglog' = pglog
      BY <2>6 DEF GenerateSubop, PeerReply
    <3> QED
      BY <1>0, <3>1, PastFrame DEF Past
  <2>7. CASE \E x \in Txc, n \in 1 .. MaxTxns : QueueTransactions(t, m, x, n)
    <3> PICK x \in Txc, n \in 1 .. MaxTxns : QueueTransactions(t, m, x, n)
      BY <2>7
    <3>1. /\ stage' = stage /\ pglog' = pglog /\ worker[t].msg = m
          /\ worker[t].pc = "submitted" \/ TypeOfMsg(m) = "OSD_REPOP"
          /\ worker' = [worker EXCEPT ![t] = [pc |-> "queueing", msg |-> m, txc |-> x, txns |-> n]]
      BY DEF QueueTransactions, Held, Work
    <3>2. /\ worker'[t].pc = "queueing" /\ worker'[t].msg = m
          /\ \A u \in Thread : u # t => worker'[u] = worker[u]
      BY <1>0, <3>1
    <3>3. \A i \in ClientWrites : Past(i)' => Past(i)
      BY <1>0, <3>1, <3>2 DEF Past, ClientWrites
    <3> QED
      BY <1>0, <3>1, <3>2, <3>3, PastFrame
  <2> QED
    BY <1>2, <2>1, <2>2, <2>3, <2>4, <2>5, <2>6, <2>7 DEF ThreadStep
<1>3. ASSUME NEW t \in Thread, StoreStep(t) PROVE WrittenOnce'
  <2>1. /\ pglog' = pglog
        /\ \A u \in Thread : u # t => worker'[u] = worker[u]
        /\ \/ /\ stage' = stage
              /\ \/ worker'[t].msg = Background
                 \/ /\ worker'[t].msg = worker[t].msg /\ worker[t].pc = "queueing"
                    /\ worker'[t].pc \in {"queueing", "costed"}
           \/ /\ worker[t].pc = "costed" /\ worker'[t].pc = "idle"
              /\ stage' = IF worker[t].msg \in Msg
                            THEN [stage EXCEPT ![worker[t].msg] = "committing"] ELSE stage
    BY <1>0, <1>3 DEF StoreStep, QueuePgWork, AddTransaction, CalcCost, PrepareTxc, GoTo,
                      Release, Work, IdleWorker, WorkerRecord
  <2>2. \A n \in ClientWrites : Past(n)' => Past(n)
    BY <1>0, <2>1 DEF Past, ClientWrites
  <2> QED
    BY <1>0, <2>1, <2>2, PastFrame DEF ClientWrites
<1>4. ASSUME \/ \E x \in Txc : TxcStep(x)
             \/ \E k \in Key : AgePasses(k)
             \/ AttachNext \/ Consume \/ EvictStep \/ UNCHANGED vars
      PROVE  WrittenOnce'
  <2>1. stage' = stage /\ worker' = worker /\ pglog' = pglog
    BY <1>4 DEF TxcStep, AioDone, IoDone, KvSubmitted, AgePasses, AttachNext, Consume,
                EvictStep, EvictOp, EvictThread, EvictTxc, osd, vars
  <2> QED
    BY <1>0, <2>1, PastFrame DEF Past
<1> QED
  BY <1>1, <1>2, <1>3, <1>4 DEF Next

-----------------------------------------------------------------------------
(* What takes a record away                                                *)

\* f knows of the same peers, and of the same answers.
SamePeers(e, f) ==
  /\ f.peer1 = e.peer1 /\ f.peer2 = e.peer2 /\ f.sent = e.sent
  /\ f.recv1 = e.recv1 /\ f.recv2 = e.recv2

Stays(k) == ops'[k] # None /\ SamePeers(ops[k], ops'[k])

RecordsStay == \A k \in Key : Known(k) => Stays(k)

LEMMA PeersAlike ==
  ASSUME NEW e \in OpV
  PROVE  /\ \A s, w : SamePeers(e, Stamp(e, s, w)) /\ SamePeers(e, StampFirst(e, s, w))
         /\ \A S, w : SamePeers(e, StampAll(e, S, w))
         /\ \A s, w, n : SamePeers(e, capture_decoded_osd_ops(Stamp(e, s, w), n))
         /\ SamePeers(e, [e EXCEPT !.delays = @ + 1])
         /\ SamePeers(e, [e EXCEPT !.aged = TRUE])
         /\ \A n : /\ SamePeers(e, CountOps(e, n))
                   /\ SamePeers(e, [CountOps(e, n) EXCEPT !.captured = 0, !.unavailable = TRUE])
                   /\ SamePeers(e, [CountOps(e, n) EXCEPT
                                       !.captured = AtMost(@ + n, MAX_DETAIL_OPS)])
BY DEF SamePeers, Stamp, StampFirst, StampAll, capture_decoded_osd_ops, CountOps, OpV

LEMMA PutOne ==
  ASSUME ProbesTyped, NEW k \in Key, NEW f \in OpV, ops' = [ops EXCEPT ![k] = f]
  PROVE  \A j \in Key : Known(j) => ops'[j] # None
<1>1. f # None
  BY ConstantAssumption DEF ConstantAssumption
<1> QED
  BY <1>1 DEF ProbesTyped, Known

LEMMA StayOne ==
  ASSUME ProbesTyped, NEW k \in Key, NEW f \in OpV, SamePeers(ops[k], f),
         ops' = [ops EXCEPT ![k] = f]
  PROVE  RecordsStay
<1>1. \A j \in Key : Known(j) => ops'[j] # None
  BY PutOne
<1>2. \A j \in Key : SamePeers(ops[j], ops'[j])
  <2>1. ASSUME NEW j \in Key, j # k PROVE ops'[j] = ops[j]
    BY <2>1 DEF ProbesTyped
  <2>2. ops'[k] = f
    BY DEF ProbesTyped
  <2>3. \A j \in Key \ {k} : SamePeers(ops[j], ops'[j])
    BY <2>1 DEF SamePeers
  <2> QED
    BY <2>2, <2>3
<1> QED
  BY <1>1, <1>2 DEF RecordsStay, Stays

LEMMA StaySame ==
  ASSUME ops' = ops
  PROVE  RecordsStay
BY DEF RecordsStay, Stays, SamePeers, Known

LEMMA StayQuiet ==
  ASSUME UNCHANGED probeVars
  PROVE  RecordsStay
BY StaySame DEF probeVars, maps

LEMMA RequestStays ==
  ASSUME ProbesTyped, requeues \in Nat, NEW t \in Thread, NEW m \in Msg,
         \/ uprobe_dequeue_op(t, m)
         \/ uprobe_submit_transaction(t, m)
         \/ uprobe_execute_ctx(m)
         \/ uprobe_mark_flag_point(m)
  PROVE  RecordsStay
<1> DEFINE k == KeyOf[m]
           e == Stamp(ops[k], "execute_ctx", m)
<1>0. k \in Key /\ (Known(k) => ops[k] \in OpV)
  BY KeyTyped, KnownTyped
<1>1. Known(k) => /\ StampFirst(ops[k], "dequeue", Turn(m)) \in OpV
                  /\ Stamp(ops[k], "submit_transaction", m) \in OpV
                  /\ e \in OpV
                  /\ HasRoom(ops[k]) => [ops[k] EXCEPT !.delays = @ + 1] \in OpV
  BY <1>0, TurnTyped, StampTyped, DelayTyped DEF StampFirst, Stamps, Writer
<1> HIDE DEF e
<1>2. Known(k) => capture_decoded_osd_ops(e, OpCount[m]) \in OpV
  BY <1>1, CaptureTyped, ConstantAssumption DEF ConstantAssumption
<1>3. \/ ops' = ops
      \/ /\ Known(k)
         /\ \/ ops' = [ops EXCEPT ![k] = StampFirst(ops[k], "dequeue", Turn(m))]
            \/ ops' = [ops EXCEPT ![k] = Stamp(ops[k], "submit_transaction", m)]
            \/ ops' = [ops EXCEPT ![k] = e]
            \/ ops' = [ops EXCEPT ![k] = capture_decoded_osd_ops(e, OpCount[m])]
            \/ HasRoom(ops[k]) /\ ops' = [ops EXCEPT ![k] = [ops[k] EXCEPT !.delays = @ + 1]]
  BY DEF uprobe_dequeue_op, uprobe_submit_transaction, uprobe_execute_ctx,
         uprobe_mark_flag_point, e
<1>4. Known(k) => /\ SamePeers(ops[k], StampFirst(ops[k], "dequeue", Turn(m)))
                  /\ SamePeers(ops[k], Stamp(ops[k], "submit_transaction", m))
                  /\ SamePeers(ops[k], e)
                  /\ SamePeers(ops[k], capture_decoded_osd_ops(e, OpCount[m]))
                  /\ SamePeers(ops[k], [ops[k] EXCEPT !.delays = @ + 1])
  BY <1>0, PeersAlike DEF e
<1>5. \/ ops' = ops
      \/ \E f \in OpV : SamePeers(ops[k], f) /\ ops' = [ops EXCEPT ![k] = f]
  BY <1>1, <1>2, <1>3, <1>4
<1> QED
  BY <1>0, <1>5, StayOne, StaySame

LEMMA PeerStays ==
  ASSUME ProbesTyped, NEW m \in Msg, NEW p \in Peer,
         uprobe_generate_subop(m, p) \/ uprobe_do_repop_reply(m, p)
  PROVE  /\ \A j \in Key : Known(j) => ops'[j] # None
         /\ \A j \in Key \ {KeyOf[m]} : ops'[j] = ops[j]
<1> DEFINE k == KeyOf[m]
           e == ops[k]
<1>0. k \in Key /\ (Known(k) => e \in OpV)
  BY KeyTyped, KnownTyped
<1>1. \/ ops' = ops
      \/ /\ Known(k)
         /\ \/ ops' = [ops EXCEPT ![k] = [TakeSlot(e, p) EXCEPT !.sent = p]]
            \/ ops' = [ops EXCEPT ![k] = [e EXCEPT !.recv1 = p]]
            \/ ops' = [ops EXCEPT ![k] = [e EXCEPT !.recv2 = p]]
            \/ ops' = [ops EXCEPT ![k] = e]
  BY DEF uprobe_generate_subop, uprobe_do_repop_reply
<1>2. \/ ops' = ops
      \/ \E f \in OpV : ops' = [ops EXCEPT ![k] = f]
  BY <1>0, <1>1, PeerTyped
<1>3. \A j \in Key : Known(j) => ops'[j] # None
  BY <1>0, <1>2, PutOne DEF Known
<1> QED
  BY <1>0, <1>1, <1>3 DEF ProbesTyped

LEMMA StoreStays ==
  ASSUME ProbesTyped, NEW t \in Thread, NEW x \in Txc, NEW n \in Nat, NEW b \in Nat,
         \/ uprobe_queue_transactions(t, x)
         \/ uprobe_txc_add_transaction(t, n, b)
         \/ uprobe_txc_calc_cost(t, x)
  PROVE  RecordsStay
<1> DEFINE k == ptid_opk[t]
           e == ops[k]
<1>0. k \in Key \cup {None} /\ (k \in Key /\ Known(k) => e \in OpV)
  BY KnownTyped DEF ProbesTyped
<1>1. \/ ops' = ops
      \/ /\ k # None /\ Known(k)
         /\ \/ ops' = [ops EXCEPT ![k] = Stamp(ops[k], "queue_transaction", x)]
            \/ ops' = [ops EXCEPT ![k] = CountOps(e, n)]
            \/ ops' = [ops EXCEPT ![k] =
                  [CountOps(e, n) EXCEPT !.captured = 0, !.unavailable = TRUE]]
            \/ ops' = [ops EXCEPT ![k] =
                  [CountOps(e, n) EXCEPT !.captured = AtMost(@ + n, MAX_DETAIL_OPS)]]
  BY DEF uprobe_queue_transactions, uprobe_txc_add_transaction, uprobe_txc_calc_cost,
         probeVars, maps
<1>2. \/ ops' = ops
      \/ /\ k \in Key
         /\ \E f \in OpV : SamePeers(ops[k], f) /\ ops' = [ops EXCEPT ![k] = f]
  <2>1. k \in Key /\ Known(k) => Stamp(ops[k], "queue_transaction", x) \in OpV
    BY <1>0, StampTyped DEF Stamps, Writer
  <2> QED
    BY <1>0, <1>1, <2>1, AddTxnTyped, PeersAlike
<1> QED
  BY <1>2, StayOne, StaySame

LEMMA StateProcStays ==
  ASSUME ProbesTyped, NEW x \in Txc, NEW s, NEW n, uprobe_txc_state_proc(x, s, n)
  PROVE  RecordsStay
<1> DEFINE k == ctx_opk[x]
           S == StateStamps(s, n)
<1>0. k \in Key \cup {None} /\ (k \in Key /\ Known(k) => ops[k] \in OpV)
  BY KnownTyped DEF ProbesTyped
<1>1. \/ ops' = ops
      \/ k # None /\ Known(k) /\ ops' = [ops EXCEPT ![k] = StampAll(ops[k], S, x)]
  BY DEF uprobe_txc_state_proc
<1> HIDE DEF S
<1>2. \/ ops' = ops
      \/ /\ k \in Key
         /\ \E f \in OpV : SamePeers(ops[k], f) /\ ops' = [ops EXCEPT ![k] = f]
  BY <1>0, <1>1, StampAllTyped, PeersAlike DEF Writer
<1> QED
  BY <1>2, StayOne, StaySame

\* A record is taken away by an answer or for an erasure-coded write, if none is
\* evicted, and what it says of peers changes only as they are sent to and answer.
LEMMA RecordChanges ==
  ASSUME OsdInv, [Next]_vars, ~Evicts, CanRead("enqueue.stamps"),
         NEW k \in Key, Known(k), ~Stays(k)
  PROVE  \/ ops'[k] = None /\ \E m \in OfKey(k) : stage'[m] = "replied" \/ m \in EcWrites
         \/ ops'[k] # None /\ \E m \in OfKey(k) : EnqueueOp(m)
         \/ /\ ops'[k] # None
            /\ \E m \in OfKey(k), t \in Thread, p \in Peer :
                 GenerateSubop(t, m, p) \/ PeerReply(t, m, p)
<1>0. /\ TypeInv /\ ProbesTyped /\ stage \in [Msg -> Stages] /\ requeues \in Nat
      /\ \A m \in Msg : KeyOf[m] \in Key
      /\ ~RecordsStay
  BY TypeParts, KeyTyped DEF OsdInv, RecordsStay, TypeInv, TypeOK
<1>1. ASSUME NEW m \in Msg,
             \/ uprobe_log_op_stats(m) \/ uprobe_repop_commit(m)
             \/ Forget(KeyOf[m]) \/ UNCHANGED probeVars
      PROVE  m \in OfKey(k) /\ ops'[k] = None
  <2>1. ops' = ops \/ ops' = [ops EXCEPT ![KeyOf[m]] = None]
    BY <1>1 DEF uprobe_log_op_stats, uprobe_repop_commit, Emit, Forget, probeVars, maps
  <2>2. ops' # ops
    BY <1>0, StaySame
  <2>3. KeyOf[m] = k
    <3> SUFFICES ASSUME KeyOf[m] # k PROVE FALSE
      OBVIOUS
    <3>1. ops'[k] = ops[k]
      BY <1>0, <2>1 DEF ProbesTyped
    <3> QED
      BY <3>1 DEF Stays, SamePeers, Known
  <2> QED
    BY <1>0, <2>1, <2>2, <2>3 DEF ProbesTyped, OfKey
<1>2. ASSUME NEW m \in Msg, RequestStep(m)
      PROVE  /\ m \in OfKey(k)
             /\ \/ ops'[k] = None /\ stage'[m] = "replied"
                \/ ops'[k] # None /\ EnqueueOp(m)
  <2>1. CASE EnqueueOp(m)
    <3>1. uprobe_enqueue_op(m)
      BY <1>0, <2>1, StayQuiet DEF EnqueueOp, Fires
    <3>2. ops' = ops \/ ops' = [ops EXCEPT ![KeyOf[m]] = NewEntry(m)]
      BY <3>1 DEF uprobe_enqueue_op
    <3>3. ops' = [ops EXCEPT ![KeyOf[m]] = NewEntry(m)]
      BY <1>0, <3>2, StaySame
    <3>4. KeyOf[m] = k
      <4> SUFFICES ASSUME KeyOf[m] # k PROVE FALSE
        OBVIOUS
      <4>1. ops'[k] = ops[k]
        BY <1>0, <3>3 DEF ProbesTyped
      <4> QED
        BY <4>1 DEF Stays, SamePeers, Known
    <3> QED
      BY <1>0, <2>1, <3>3, <3>4, NewEntryTyped, PutOne DEF OfKey
  <2>2. CASE RequeueOp(m) \/ IntervalChange(m)
    BY <1>0, <2>2, StayQuiet DEF RequeueOp, IntervalChange
  <2>3. CASE CompleteWrite(m) \/ RepopCommit(m)
    BY <1>0, <1>1, <2>3 DEF CompleteWrite, RepopCommit, SetStage, Fires
  <2> QED
    BY <1>2, <2>1, <2>2, <2>3 DEF RequestStep
<1>3. ASSUME NEW t \in Thread, NEW m \in Msg, ThreadStep(t, m)
      PROVE  /\ m \in OfKey(k)
             /\ \/ ops'[k] = None /\ (stage'[m] = "replied" \/ m \in EcWrites)
                \/ /\ ops'[k] # None
                   /\ \E p \in Peer : GenerateSubop(t, m, p) \/ PeerReply(t, m, p)
  <2>1. CASE CompleteRead(t, m)
    BY <1>0, <1>1, <2>1 DEF CompleteRead, SetStage, Fires
  <2>2. CASE EcSubmitTransaction(t, m)
    <3>1. m \in OfKey(k) /\ ops'[k] = None
      BY <1>0, <1>1, <2>2 DEF EcSubmitTransaction, uprobe_ec_submit_transaction, Fires
    <3>2. m \in EcWrites
      BY <2>2 DEF EcSubmitTransaction, Work, Held, OsdInv, PhaseRight, EcWrites, ClientWrites
    <3> QED
      BY <3>1, <3>2
  <2>3. CASE \E p \in Peer : GenerateSubop(t, m, p) \/ PeerReply(t, m, p)
    <3> PICK p \in Peer : GenerateSubop(t, m, p) \/ PeerReply(t, m, p)
      BY <2>3
    <3>1. ops' # ops
      BY <1>0, StaySame
    <3>2. uprobe_generate_subop(m, p) \/ uprobe_do_repop_reply(m, p)
      BY <3>1 DEF GenerateSubop, PeerReply, Fires, probeVars, maps
    <3>3. ops'[k] # None /\ (k # KeyOf[m] => ops'[k] = ops[k])
      BY <1>0, <3>2, PeerStays
    <3>4. k = KeyOf[m]
      BY <3>3 DEF Stays, SamePeers
    <3> QED
      BY <3>3, <3>4 DEF OfKey
  <2>4. CASE \E x \in Txc, n \in 1 .. MaxTxns : QueueTransactions(t, m, x, n)
    <3> PICK x \in Txc : \E n \in 1 .. MaxTxns : QueueTransactions(t, m, x, n)
      BY <2>4
    <3>1. uprobe_queue_transactions(t, x) \/ UNCHANGED probeVars
      BY DEF QueueTransactions, Fires
    <3> QED
      BY <1>0, <3>1, StayQuiet, StoreStays
  <2>5. CASE \/ DequeueOp(t, m) \/ DelayOp(t, m) \/ FinishUnlogged(t, m)
             \/ ExecuteCtx(t, m) \/ SubmitTransaction(t, m)
    <3>1. \/ uprobe_dequeue_op(t, m) \/ uprobe_submit_transaction(t, m)
          \/ uprobe_execute_ctx(m) \/ uprobe_mark_flag_point(m)
          \/ UNCHANGED probeVars
      BY <2>5 DEF DequeueOp, DelayOp, FinishUnlogged, ExecuteCtx, SubmitTransaction, Fires,
                  uprobe_mark_flag_point_string
    <3> QED
      BY <1>0, <3>1, StayQuiet, RequestStays
  <2> QED
    BY <1>3, <2>1, <2>2, <2>3, <2>4, <2>5 DEF ThreadStep
<1>4. ASSUME NEW t \in Thread, StoreStep(t) PROVE FALSE
  <2>1. CASE \E x \in Txc, n \in 1 .. MaxTxns : QueuePgWork(t, x, n)
    <3> PICK x \in Txc : \E n \in 1 .. MaxTxns : QueuePgWork(t, x, n)
      BY <2>1
    <3>1. uprobe_queue_transactions(t, x) \/ UNCHANGED probeVars
      BY DEF QueuePgWork, Fires
    <3> QED
      BY <1>0, <3>1, StayQuiet, StoreStays
  <2>2. CASE \E n \in TxnOps, buffers \in 1 .. 2 : AddTransaction(t, n, buffers)
    <3> PICK n \in TxnOps, buffers \in 1 .. 2 : AddTransaction(t, n, buffers)
      BY <2>2
    <3>1. n \in Nat /\ buffers \in Nat
      BY ConstantAssumption DEF ConstantAssumption
    <3>2. uprobe_txc_add_transaction(t, n, buffers) \/ UNCHANGED probeVars
      BY DEF AddTransaction, Fires
    <3>3. worker[t].txc \in Txc
      BY <1>0 DEF AddTransaction, Work, TypeInv, QueueingHasTxc
    <3> QED
      BY <1>0, <3>1, <3>2, <3>3, StayQuiet, StoreStays
  <2>3. CASE CalcCost(t)
    BY <1>0, <2>3, StayQuiet, StaySame DEF CalcCost, Fires, uprobe_txc_calc_cost
  <2>4. CASE \E pending \in 0 .. 1 : PrepareTxc(t, pending)
    <3> PICK pending \in 0 .. 1 : PrepareTxc(t, pending)
      BY <2>4
    <3>1. worker[t].txc \in Txc
      BY <1>0 DEF PrepareTxc, Work, TypeInv, QueueingHasTxc
    <3> QED
      BY <1>0, <3>1, StayQuiet, StateProcStays DEF PrepareTxc, StateProc, Fires
  <2> QED
    BY <1>4, <2>1, <2>2, <2>3, <2>4 DEF StoreStep
<1>5. ASSUME \/ \E x \in Txc : TxcStep(x)
             \/ \E j \in Key : AgePasses(j)
             \/ AttachNext \/ Consume \/ EvictStep \/ UNCHANGED vars
      PROVE  FALSE
  <2>1. CASE \E x \in Txc : TxcStep(x)
    <3> PICK x \in Txc : TxcStep(x)
      BY <2>1
    <3>1. (\E s, n : uprobe_txc_state_proc(x, s, n)) \/ UNCHANGED probeVars
      BY DEF TxcStep, AioDone, IoDone, KvSubmitted, StateProc, Fires
    <3> QED
      BY <1>0, <3>1, StayQuiet, StateProcStays
  <2>2. CASE \E j \in Key : AgePasses(j)
    <3> PICK j \in Key : AgePasses(j)
      BY <2>2
    <3>1. ops[j] \in OpV /\ ops' = [ops EXCEPT ![j] = [ops[j] EXCEPT !.aged = TRUE]]
      BY <1>0, KnownTyped DEF AgePasses
    <3> QED
      BY <1>0, <3>1, AgedTyped, PeersAlike, StayOne
  <2>3. CASE AttachNext \/ Consume \/ UNCHANGED vars
    BY <1>0, <2>3, StaySame DEF AttachNext, Consume, vars, probeVars, maps
  <2>4. CASE EvictStep
    BY <2>4 DEF EvictStep, EvictOp, EvictThread, EvictTxc
  <2> QED
    BY <1>5, <2>1, <2>2, <2>3, <2>4
<1> QED
  BY <1>2, <1>3, <1>4, <1>5 DEF Next

LEMMA EmitCounts ==
  ASSUME TypeInv, NEW m \in Msg, Known(KeyOf[m]), Emit(KeyOf[m], m), printed' = printed
  PROVE  Reports' = Reports + 1
<1>0. ProbesTyped
  BY TypeParts
<1>1. Stamp(ops[KeyOf[m]], "reply", m) \in OpV
  BY <1>0, KeyTyped, KnownTyped, StampTyped DEF Stamps, Writer
<1>2. Len(Append(rb, Stamp(ops[KeyOf[m]], "reply", m))) = Len(rb) + 1
  BY <1>0, <1>1 DEF ProbesTyped
<1>3. \/ Len(rb') = Len(rb) + 1 /\ rb_drops' = rb_drops
      \/ Len(rb') = Len(rb) /\ rb_drops' = rb_drops + 1
  BY <1>2 DEF Emit
<1>4. Len(rb) \in Nat /\ printed \in Nat /\ rb_drops \in Nat
  BY ReportsTyped
<1> QED
  BY <1>3, <1>4 DEF Reports

LEMMA RecordEnds ==
  ASSUME OsdInv, [Next]_vars, ~Evicts, CanRead("enqueue.stamps"),
         NEW k \in Key, Known(k), ops'[k] = None
  PROVE  \E m \in OfKey(k) : stage'[m] = "replied" \/ m \in EcWrites
BY RecordChanges DEF Stays

\* Tracing begins first.
AllAttached == attached = Len(AttachList)

\* A request of which a message arrived is tracked until one is answered, or is
\* an erasure-coded write.
ArrivedTracked ==
  \A k \in Key : TypeOf[k] \in Tracked /\ (\E m \in OfKey(k) : stage[m] # "new") =>
    Known(k) \/ \E m \in OfKey(k) : stage[m] = "replied" \/ m \in EcWrites

\* A message that arrives while tracing is tracked.
LEMMA ArrivesTracked ==
  ASSUME OsdInv, [Next]_vars, RepliesCounted, AllAttached,
         NEW m \in Msg, TypeOfMsg(m) \in Tracked, stage[m] = "new", stage'[m] # "new"
  PROVE  ops'[KeyOf[m]] # None
<1>0. /\ stage \in [Msg -> Stages] /\ ops \in [Key -> OpV \cup {None}]
      /\ KeyOf[m] \in Key /\ NewEntry(m) # None
  BY KeyTyped, NewEntryTyped, ConstantAssumption DEF OsdInv, TypeInv, TypeOK, ConstantAssumption
<1>1. ASSUME NEW n \in Msg, RequestStep(n) PROVE EnqueueOp(m)
  BY <1>0, <1>1 DEF RequestStep, EnqueueOp, RequeueOp, IntervalChange, CompleteWrite,
                    RepopCommit, Committed, SetStage
<1>2. ASSUME NEW t \in Thread, NEW n \in Msg, ThreadStep(t, n) PROVE FALSE
  BY <1>0, <1>2 DEF ThreadStep, DequeueOp, DelayOp, FinishUnlogged, ExecuteCtx,
                    CompleteRead, SubmitTransaction, EcSubmitTransaction,
                    GenerateSubop, PeerReply, QueueTransactions, SetStage, Held, OsdInv,
                    HoldsRunning, Holds
<1>3. ASSUME NEW t \in Thread, StoreStep(t) PROVE FALSE
  BY <1>0, <1>3 DEF StoreStep, QueuePgWork, AddTransaction, CalcCost, PrepareTxc, OsdInv,
                    HoldsRunning, Holds
<1>4. ASSUME \/ \E x \in Txc : TxcStep(x)
             \/ \E k \in Key : AgePasses(k)
             \/ AttachNext \/ Consume \/ EvictStep \/ UNCHANGED vars
      PROVE  FALSE
  BY <1>4 DEF TxcStep, AioDone, IoDone, KvSubmitted, AgePasses, AttachNext, Consume,
              EvictStep, EvictOp, EvictThread, EvictTxc, osd, vars
<1>5. ASSUME EnqueueOp(m) PROVE ops'[KeyOf[m]] # None
  <2>1. Live("OSD::enqueue_op")
    BY RowsAre DEF Live, Rows, AllAttached, RepliesCounted
  <2>2. uprobe_enqueue_op(m)
    BY <1>5, <2>1 DEF EnqueueOp, Fires
  <2> QED
    BY <1>0, <2>2 DEF uprobe_enqueue_op, RepliesCounted, IsRetry, Known, TypeOfMsg
<1> QED
  BY <1>1, <1>2, <1>3, <1>4, <1>5 DEF Next

LEMMA ArrivedTrackedStep ==
  ASSUME RepliesCounted, OsdInv, AllAttached, ArrivedTracked, [Next]_vars
  PROVE  AllAttached' /\ ArrivedTracked'
<1>0. TypeInv /\ TypeInv' /\ stage \in [Msg -> Stages]
  BY TypeStep DEF OsdInv, TypeInv, TypeOK
<1>1. AllAttached'
  <2>1. attached' \in 0 .. Len(AttachList)
    BY <1>0 DEF TypeInv, TypeOK
  <2> QED
    BY <2>1, AttachedGrows, AttachListLength DEF AllAttached
<1>2. ASSUME NEW k \in Key, TypeOf[k] \in Tracked, NEW m \in OfKey(k), stage'[m] # "new",
             ops'[k] = None
      PROVE  \E n \in OfKey(k) : stage'[n] = "replied" \/ n \in EcWrites
  <2>1. CASE Known(k)
    BY <1>0, <1>2, <2>1, RecordEnds DEF RepliesCounted
  <2>2. CASE ~Known(k) /\ stage[m] # "new"
    <3>1. PICK n \in OfKey(k) : stage[n] = "replied" \/ n \in EcWrites
      BY <1>2, <2>2 DEF ArrivedTracked
    <3>2. stage[n] = "replied" => stage'[n] = "replied"
      BY RepliedStays DEF OfKey
    <3> QED
      BY <3>1, <3>2
  <2>3. CASE stage[m] = "new"
    BY <1>0, <1>2, <2>3, ArrivesTracked DEF OfKey, TypeOfMsg
  <2> QED
    BY <2>1, <2>2, <2>3
<1> QED
  BY <1>1, <1>2 DEF ArrivedTracked, Known

\* The record of a request that is answered is there, and is reported.
LEMMA AnsweredReported ==
  ASSUME RepliesCounted, AlikeByKey, EcOnce, ResendsWrites, RecordInv, OsdInv, AllAttached,
         WrittenOnce, ArrivedTracked, NEW m \in Msg, m \notin LoggedReplies,
         m \in LoggedReplies', [Next]_vars
  PROVE  Reports' = Reports + 1 /\ LoggedReplies' \subseteq LoggedReplies \cup {m}
<1> DEFINE k == KeyOf[m]
<1>0. TypeInv /\ stage \in [Msg -> Stages] /\ k \in Key /\ m \in OfKey(k)
  BY KeyTyped DEF OsdInv, TypeInv, TypeOK, OfKey
<1>1. CASE stage[m] # "replied"
  <2>1. /\ stage'[m] = "replied" /\ ~(m \in Erasure /\ k \in pglog')
        /\ \/ \E t \in Thread : CompleteRead(t, m)
           \/ CompleteWrite(m) \/ RepopCommit(m)
    BY <1>0, <1>1, ReplySteps DEF LoggedReplies
  <2>2. /\ pglog' = pglog /\ printed' = printed /\ TypeOf[k] \in Tracked
        /\ stage[m] \in {"running", "committing"}
        /\ m \notin Reads => stage[m] = "committing"
        /\ m \in Reads \/ TypeOfMsg(m) = "OSD_REPOP" \/ m \in ClientWrites
    BY <2>1 DEF CompleteRead, CompleteWrite, RepopCommit, Committed, Held, OsdInv, PhaseRight,
                HoldsRunning, Holds, Work, TypeOfMsg, ClientWrites, Tracked
  <2>3. m \in ClientWrites => k \in pglog /\ Past(m)
    BY <2>2 DEF WrittenOnce, Past, ClientWrites
  <2>4. Known(k)
    <3> SUFFICES ASSUME ~Known(k) PROVE FALSE
      OBVIOUS
    <3>1. PICK n \in OfKey(k) : stage[n] = "replied" \/ n \in EcWrites
      BY <1>0, <2>2 DEF ArrivedTracked
    <3>2. n \in Msg /\ KeyOf[n] = k
      BY DEF OfKey
    <3>3. CASE stage[n] = "replied"
      <4>1. n # m
        BY <1>1, <3>3
      <4>2. m \in ClientWrites
        BY <2>2, <3>2, <4>1 DEF ResendsWrites
      <4>3. n \in ClientWrites
        BY <3>2, <4>2 DEF ClientWrites, AlikeByKey, TypeOfMsg
      <4> QED
        BY <2>3, <3>2, <3>3, <4>1, <4>2, <4>3 DEF WrittenOnce, Past
    <3>4. CASE n \in EcWrites
      <4>1. n = m /\ m \in ClientWrites /\ m \in Erasure
        BY <3>2, <3>4 DEF EcOnce, EcWrites, ClientWrites
      <4> QED
        BY <2>1, <2>2, <2>3, <4>1
    <3> QED
      BY <3>1, <3>3, <3>4
  <2>5. Live("PrimaryLogPG::log_op_stats") /\ Live("ReplicatedBackend::repop_commit")
    BY RowsAre DEF Live, Rows, AllAttached, RepliesCounted, RepliesSeen
  <2>6. Emit(k, m)
    BY <2>1, <2>4, <2>5 DEF CompleteRead, CompleteWrite, RepopCommit, Fires, RepliesCounted,
       RepliesSeen, uprobe_log_op_stats, uprobe_repop_commit
  <2>7. stage' = [stage EXCEPT ![m] = "replied"]
    BY <2>1 DEF CompleteRead, CompleteWrite, RepopCommit, SetStage
  <2>8. LoggedReplies' \subseteq LoggedReplies \cup {m}
    BY <1>0, <2>2, <2>7 DEF LoggedReplies
  <2> QED
    BY <1>0, <2>2, <2>4, <2>6, <2>8, EmitCounts
<1>2. CASE stage[m] = "replied"
  <2>1. m \in Erasure /\ k \in pglog /\ k \notin pglog'
    BY <1>2 DEF LoggedReplies
  <2>2. TypeOf[k] = "OSD_OP" /\ \E n \in OfKey(k) : n \notin Reads
    BY <2>1 DEF OsdInv, LogRight
  <2>3. m \in ClientWrites
    BY <1>0, <2>2 DEF AlikeByKey, OfKey, ClientWrites, TypeOfMsg
  <2>4. stage'[m] = "replied"
    BY <1>2, RepliedStays
  <2>5. k \in pglog'
    BY <2>3, <2>4, WrittenOnceStep DEF WrittenOnce, Past, ClientWrites
  <2> QED
    BY <2>1, <2>5
<1> QED
  BY <1>1, <1>2

AnswersCounted == Cardinality(LoggedReplies) <= Reports

LEMMA AnswersCountedStep ==
  ASSUME RepliesCounted, AlikeByKey, EcOnce, ResendsWrites, IsFiniteSet(Msg),
         RecordInv, OsdInv, AllAttached, WrittenOnce, ArrivedTracked, AnswersCounted,
         [Next]_vars
  PROVE  AnswersCounted'
<1> DEFINE C == Cardinality(LoggedReplies)
           D == Cardinality(LoggedReplies')
           R == Reports
           S == Reports'
<1>1. IsFiniteSet(LoggedReplies) /\ IsFiniteSet(LoggedReplies')
  BY FS_Subset DEF LoggedReplies
<1>2. C \in Nat /\ D \in Nat
  BY <1>1, FS_CardinalityType
<1>3. R \in Nat /\ S \in Nat /\ C <= R /\ (S = R \/ S = R + 1)
  <2>1. TypeInv
    BY DEF OsdInv
  <2>2. R \in Nat
    BY <2>1, ReportsTyped
  <2>3. S = R \/ S = R + 1
    BY <2>1, ReportsStep
  <2> HIDE DEF R, S
  <2>4. C <= R
    BY DEF AnswersCounted, R
  <2> QED
    BY <2>2, <2>3, <2>4
<1>4. CASE LoggedReplies' \subseteq LoggedReplies
  <2>1. D <= C
    BY <1>1, <1>4, FS_Subset
  <2>2. D <= S
    <3> HIDE DEF C, D, R, S
    <3> QED
      BY <1>2, <1>3, <2>1
  <2> QED
    BY <2>2 DEF AnswersCounted
<1>5. ASSUME NEW m \in LoggedReplies', m \notin LoggedReplies PROVE AnswersCounted'
  <2>1. m \in Msg
    BY <1>5 DEF LoggedReplies
  <2>2. S = R + 1 /\ LoggedReplies' \subseteq LoggedReplies \cup {m}
    BY <1>5, <2>1, AnsweredReported
  <2>3. /\ IsFiniteSet(LoggedReplies \cup {m})
        /\ Cardinality(LoggedReplies \cup {m}) = C + 1
    BY <1>1, <1>5, FS_AddElement
  <2>4. D <= Cardinality(LoggedReplies \cup {m})
    BY <2>2, <2>3, FS_Subset
  <2>5. D <= S
    <3>1. D <= C + 1
      BY <2>3, <2>4
    <3> HIDE DEF C, D, R, S
    <3> QED
      BY <1>2, <1>3, <2>2, <3>1
  <2> QED
    BY <2>5 DEF AnswersCounted
<1> QED
  BY <1>4, <1>5

\* Every answered request is printed, is waiting in the ring or is counted as
\* dropped, for any number of requests, threads and interval changes, resent
\* writes and aged records included, if tracing begins before the requests and
\* the LRU maps drop none (uprobe_enqueue_op, uprobe_log_op_stats,
\* uprobe_repop_commit): with NoReportWithoutReply, exactly one report each.
THEOREM AnswersReported ==
  ASSUME RepliesCounted, AlikeByKey, EcOnce, ResendsWrites, IsFiniteSet(Msg)
  PROVE  Spec => []EveryReplyReported
<1>1. Init => AllAttached /\ WrittenOnce /\ ArrivedTracked /\ AnswersCounted
  <2> SUFFICES ASSUME Init
               PROVE  AllAttached /\ WrittenOnce /\ ArrivedTracked /\ AnswersCounted
    OBVIOUS
  <2>1. AllAttached
    BY DEF Init, AllAttached, RepliesCounted
  <2>2. WrittenOnce
    BY ConstantAssumption
       DEF ConstantAssumption, Init, WrittenOnce, Past, IdleWorker, ClientWrites
  <2>3. ArrivedTracked
    BY DEF Init, ArrivedTracked, OfKey
  <2>4. LoggedReplies = {} /\ Reports = 0
    BY DEF Init, LoggedReplies, Reports
  <2> QED
    BY <2>1, <2>2, <2>3, <2>4, FS_EmptySet DEF AnswersCounted
<1>2. RecordInv /\ OsdInv /\ AllAttached /\ WrittenOnce /\ ArrivedTracked
        /\ AnswersCounted /\ [Next]_vars
        => AllAttached' /\ WrittenOnce' /\ ArrivedTracked' /\ AnswersCounted'
  <2> SUFFICES ASSUME RecordInv, OsdInv, AllAttached, WrittenOnce, ArrivedTracked,
                      AnswersCounted, [Next]_vars
               PROVE  AllAttached' /\ WrittenOnce' /\ ArrivedTracked' /\ AnswersCounted'
    OBVIOUS
  <2>1. WrittenOnce'
    BY WrittenOnceStep
  <2>2. AllAttached' /\ ArrivedTracked'
    BY ArrivedTrackedStep
  <2>3. AnswersCounted'
    BY AnswersCountedStep
  <2> QED
    BY <2>1, <2>2, <2>3
<1>3. RecordInv /\ AnswersCounted => EveryReplyReported
  <2> SUFFICES ASSUME RecordInv, AnswersCounted PROVE Reports >= Cardinality(LoggedReplies)
    BY DEF EveryReplyReported
  <2>1. Reports \in Nat
    BY ReportsTyped DEF RecordInv
  <2>2. Cardinality(LoggedReplies) \in Nat
    BY FS_Subset, FS_CardinalityType DEF LoggedReplies
  <2> QED
    BY <2>1, <2>2 DEF AnswersCounted
<1> QED
  BY <1>1, <1>2, <1>3, Records, OsdInit, OsdStep, PTL DEF Spec
=============================================================================
