------------------------------ MODULE OsdProbes ------------------------------
(***************************************************************************)
(* The uprobe handlers of osdtrace (full tracing mode) and the BPF maps    *)
(* they share, driven by the ceph-osd they observe.                        *)
(*                                                                         *)
(* A handler runs to completion inside the traced function's entry, on the *)
(* thread that called it.  So one action is one call of a traced function: *)
(* the step of the OSD and the whole handler it fires.  The OSD is not     *)
(* part of the repository; its steps are the least the handlers rely on:   *)
(* which functions are called, for which request, on which thread and in   *)
(* which order.                                                            *)
(*                                                                         *)
(* Abstractions.  A key (pid, owner, tid) of struct op_k is one element of *)
(* Key.  A time stamp is Unset or names whose activity wrote it: a message *)
(* (for dequeue, one turn of it), a TransContext or a peer.  That is what  *)
(* attribution and completeness are about.  Object names, pg ids, byte     *)
(* counts and the four messenger stamps are payload.                       *)
(***************************************************************************)
EXTENDS Naturals, Sequences, FiniteSets

CONSTANTS
  Thread,       \* worker threads of the traced OSD (pid_tgid)
  Msg,          \* messages the OSD receives, resends included
  Key,          \* struct op_k values
  Txc,          \* BlueStore TransContexts, each with its own struct ctx_k
  PgTxc,        \* those of the pg's own work, outside any request
  Peer,         \* OSDs holding replicas
  KeyOf,        \* KeyOf[m]: the (pid, owner, tid) of a message
  TypeOf,       \* TypeOf[k]: the message type behind a key
  ResendOf,     \* ResendOf[m]: the message m is a resend of, or None
  Reads,        \* client requests that only read
  Erasure,      \* messages to erasure-coded pools
  OpCount,      \* OpCount[m]: number of OSDOps in a client request
  TxnOps,       \* numbers of operations a transaction may hold
  Probes,       \* functions whose probe can be attached
  Unread,       \* reads for which the DWARF data holds no location
  None, Unset, Background,
  MAX_DETAIL_OPS, MAX_DELAYS, RING_SIZE,
  \* What the environment may do in an instance
  AttachLate,   \* tracing starts while the OSD is already serving requests
  Evicts,       \* the LRU maps evict
  MayAge,       \* a request may stay in flight for more than five seconds
  MaxMsgs,      \* bound: messages received
  MaxRequeues,  \* bound: times a waiting or interrupted request is requeued
  MaxTxns       \* bound: ObjectStore transactions in one queue_transactions call

Types == {"OSD_OP", "OSD_REPOP", "OTHER"}
Tracked == {"OSD_OP", "OSD_REPOP"}

\* Time stamps of struct op_v that a probe of ATTACH_LIST writes.
Stamps == {"enqueue", "dequeue", "execute_ctx", "submit_transaction",
           "queue_transaction", "aio_submit", "aio_done", "kv_submit",
           "kv_committed", "reply"}

\* Stamps written on behalf of a BlueStore transaction.
TxcStamps == {"queue_transaction", "aio_submit", "aio_done", "kv_submit",
              "kv_committed"}

\* The full-mode rows of ATTACH_LIST, in the order they are attached: the
\* function that starts the tracking of a request comes last.
LaterProbes ==
  << "OSD::dequeue_op", "PrimaryLogPG::execute_ctx",
     "ReplicatedBackend::submit_transaction", "ECBackend::submit_transaction",
     "OpRequest::mark_flag_point_string", "OpRequest::mark_flag_point",
     "ReplicatedBackend::generate_subop", "ReplicatedBackend::do_repop_reply",
     "BlueStore::queue_transactions", "BlueStore::_txc_calc_cost",
     "BlueStore::_txc_state_proc", "BlueStore::_txc_add_transaction",
     "PrimaryLogPG::log_op_stats", "ReplicatedBackend::repop_commit" >>

EnqueueFirst == << "OSD::enqueue_op" >> \o LaterProbes   \* mutant

AttachList == Append(LaterProbes, "OSD::enqueue_op")

\* What a stamp may name: a request, a turn of it (the message and the requeues
\* before the turn) or a TransContext.
Turns == Msg \X Nat
Writer == Msg \cup Turns \cup Txc

\* struct op_v: what is known of a request.
OpV == [key : Key, op_type : Types, aged : BOOLEAN,
        stamp : [Stamps -> Writer \cup {Unset}],
        peer1 : Peer \cup {None}, peer2 : Peer \cup {None},
        sent : Peer \cup {None}, recv1 : Peer \cup {None}, recv2 : Peer \cup {None},
        delays : 0 .. MAX_DELAYS, total : Nat, captured : Nat, unavailable : BOOLEAN]

ASSUME ConstantAssumption ==
  /\ KeyOf \in [Msg -> Key]
  /\ TypeOf \in [Key -> Types]
  /\ ResendOf \in [Msg -> Msg \cup {None}]
  /\ OpCount \in [Msg -> Nat] /\ TxnOps \subseteq Nat
  /\ Reads \subseteq Msg /\ Erasure \subseteq Msg /\ PgTxc \subseteq Txc
  /\ None \notin Key \cup Msg \cup Txc \cup Peer
  /\ None \notin OpV /\ Unset \notin Writer /\ Msg \cap Txc = {}
  /\ Background \notin Msg \cup {None}
  /\ MAX_DETAIL_OPS \in Nat /\ MAX_DELAYS \in Nat /\ RING_SIZE \in Nat
  /\ MaxMsgs \in Nat /\ MaxRequeues \in Nat /\ MaxTxns \in Nat \ {0}
  /\ {AttachLate, Evicts, MayAge} \subseteq BOOLEAN

VARIABLES
  \* The tracer
  ops,        \* LRU map: key -> struct op_v, None where absent
  ptid_opk,   \* LRU map: thread -> key
  ctx_opk,    \* LRU map: TransContext -> key
  rb,         \* events submitted and not yet consumed, oldest first
  rb_drops,   \* events lost because the ring was full
  printed,    \* number of events user space has taken from the ring
  attached,   \* rows of AttachList attached so far
  \* The OSD
  stage,      \* where each message is
  worker,     \* what each thread is doing
  txc,        \* each TransContext: its owner and its state
  pglog,      \* keys of the writes the pg log knows
  waitfor,    \* peers that have not answered yet
  requeues    \* interval changes so far

maps == <<ops, ptid_opk, ctx_opk>>
ring == <<rb, rb_drops>>
probeVars == <<maps, ring>>
osd == <<stage, worker, txc, pglog, waitfor, requeues>>
vars == <<probeVars, printed, attached, osd>>

-----------------------------------------------------------------------------
(* Records                                                                 *)

Stages == {"new", "queued", "running", "waiting", "committing",
           "replied", "done"}
PCs == {"idle", "dequeued", "executed", "submitted", "queueing", "costed"}
TxcStates == {"free", "PREPARE", "AIO_WAIT", "IO_DONE", "KV_SUBMITTED",
              "FINISHED"}

IdleWorker == [pc |-> "idle", msg |-> None, txc |-> None, txns |-> 0]

TypeOK ==
  /\ ops \in [Key -> OpV \cup {None}]
  /\ ptid_opk \in [Thread -> Key \cup {None}]
  /\ ctx_opk \in [Txc -> Key \cup {None}]
  /\ rb \in Seq(OpV)
  /\ rb_drops \in Nat /\ printed \in Nat /\ requeues \in Nat
  /\ attached \in 0 .. Len(AttachList)
  /\ stage \in [Msg -> Stages]
  /\ worker \in [Thread -> [pc : PCs, msg : Msg \cup {Background, None},
                            txc : Txc \cup {None}, txns : 0 .. MaxTxns]]
  /\ txc \in [Txc -> [owner : Msg \cup {Background, None}, state : TxcStates]]
  /\ pglog \in SUBSET Key
  /\ waitfor \in [Msg -> SUBSET Peer]

Init ==
  /\ ops = [k \in Key |-> None]
  /\ ptid_opk = [t \in Thread |-> None]
  /\ ctx_opk = [x \in Txc |-> None]
  /\ rb = << >> /\ rb_drops = 0 /\ printed = 0
  /\ attached = IF AttachLate THEN 0 ELSE Len(AttachList)
  /\ stage = [m \in Msg |-> "new"]
  /\ worker = [t \in Thread |-> IdleWorker]
  /\ txc = [x \in Txc |-> [owner |-> None, state |-> "free"]]
  /\ pglog = {}
  /\ waitfor = [m \in Msg |-> {}]
  /\ requeues = 0

-----------------------------------------------------------------------------
(* The handlers: what a probe does to the maps and the ring.  A definition  *)
(* marked "mutant" is no part of the model: it is a fault the definition    *)
(* after it could have, put in its place to see a property catch it.        *)

Live(f) == f \in Probes /\ \E i \in 1 .. attached : AttachList[i] = f
CanRead(field) == field \notin Unread
Known(k) == ops[k] # None
TypeOfMsg(m) == TypeOf[KeyOf[m]]

IsUnset(e, s) == e.stamp[s] = Unset
Stamp(e, s, w) == [e EXCEPT !.stamp[s] = w]
StampAll(e, S, w) ==
  [e EXCEPT !.stamp = [s \in Stamps |-> IF s \in S THEN w ELSE e.stamp[s]]]
StampFirst(e, s, w) == IF IsUnset(e, s) THEN Stamp(e, s, w) ELSE e

NewEntry(m) ==
  [key |-> KeyOf[m], op_type |-> TypeOfMsg(m), aged |-> FALSE,
   stamp |-> [s \in Stamps |-> IF s = "enqueue" THEN m ELSE Unset],
   peer1 |-> None, peer2 |-> None, sent |-> None,
   recv1 |-> None, recv2 |-> None,
   delays |-> 0, total |-> 0, captured |-> 0, unavailable |-> FALSE]

NeverARetry(k) == FALSE   \* mutant

\* A young entry under the same key is a request still in flight, and the
\* message a resend of it; an aged one is taken for an orphan.
IsRetry(k) == Known(k) /\ ~ops[k].aged

uprobe_enqueue_op(m) ==
  LET k == KeyOf[m]
      track == /\ TypeOf[k] \in Tracked /\ CanRead("enqueue.key")
               /\ ~IsRetry(k)
  IN /\ ops' = IF ~track THEN ops
               ELSE [ops EXCEPT ![k] = IF CanRead("enqueue.stamps")
                                         THEN NewEntry(m) ELSE None]
     /\ UNCHANGED <<ptid_opk, ctx_opk, ring>>

\* A message that is requeued is dequeued again.
Turn(m) == <<m, requeues>>

BindsAnyType(e) == IsUnset(e, "queue_transaction")   \* mutant

\* Only a replica's request is bound to the thread here: it goes straight to
\* queue_transactions, while a client request may never queue a transaction.
BindsThread(e) == e.op_type = "OSD_REPOP" /\ IsUnset(e, "queue_transaction")

uprobe_dequeue_op(t, m) ==
  LET k == KeyOf[m]
      hit == TypeOf[k] \in Tracked /\ CanRead("dequeue.key") /\ Known(k)
      bind == hit /\ CanRead("dequeue.pg") /\ BindsThread(ops[k])
  IN /\ ops' = IF hit THEN [ops EXCEPT ![k] = StampFirst(ops[k], "dequeue", Turn(m))]
                      ELSE ops
     /\ ptid_opk' = [ptid_opk EXCEPT ![t] = IF bind THEN k ELSE None]
     /\ UNCHANGED <<ctx_opk, ring>>

AtMost(i, n) == IF i < n THEN i ELSE n

\* The total is assigned, the number captured is added to.
capture_decoded_osd_ops(e, n) ==
  [e EXCEPT !.total = n, !.captured = e.captured + AtMost(n, MAX_DETAIL_OPS)]

uprobe_execute_ctx(m) ==
  LET k == KeyOf[m]
      e == Stamp(ops[k], "execute_ctx", m)
  IN /\ ops' = IF ~(CanRead("execute.key") /\ Known(k)) THEN ops
               ELSE [ops EXCEPT ![k] = IF CanRead("execute.ops")
                                   THEN capture_decoded_osd_ops(e, OpCount[m])
                                   ELSE e]
     /\ UNCHANGED <<ptid_opk, ctx_opk, ring>>

uprobe_submit_transaction(t, m) ==
  LET k == KeyOf[m]
      hit == CanRead("submit.key") /\ Known(k)
  IN /\ ops' = IF hit THEN [ops EXCEPT ![k] = Stamp(ops[k], "submit_transaction", m)]
                      ELSE ops
     /\ ptid_opk' = [ptid_opk EXCEPT ![t] = IF hit THEN k ELSE None]
     /\ UNCHANGED <<ctx_opk, ring>>

Keep(k) == UNCHANGED probeVars   \* mutant

Forget(k) ==
  /\ ops' = [ops EXCEPT ![k] = None]
  /\ UNCHANGED <<ptid_opk, ctx_opk, ring>>

uprobe_ec_submit_transaction(m) ==
  IF CanRead("ec.key") THEN Forget(KeyOf[m]) ELSE UNCHANGED probeVars

AnyTransaction(e) == TRUE   \* mutant

\* The first transaction for a request is the one that is timed.
FirstTransaction(e) ==
  \A s \in {"queue_transaction", "aio_submit", "kv_committed"} : IsUnset(e, s)

\* For any other transaction the binding is dropped, so that its TransContext
\* is not linked to the request.
uprobe_queue_transactions(t, x) ==
  LET k == ptid_opk[t]
      fresh == Known(k) /\ FirstTransaction(ops[k])
  IN \/ k = None /\ UNCHANGED probeVars
     \/ /\ k # None /\ fresh
        /\ ops' = [ops EXCEPT ![k] = Stamp(ops[k], "queue_transaction", x)]
        /\ UNCHANGED <<ptid_opk, ctx_opk, ring>>
     \/ /\ k # None /\ ~fresh
        /\ ptid_opk' = [ptid_opk EXCEPT ![t] = None]
        /\ UNCHANGED <<ops, ctx_opk, ring>>

CountLast(e, n) == [e EXCEPT !.total = n]   \* mutant

CountOps(e, n) == [e EXCEPT !.total = @ + n]

\* A replica's operations are those of its transactions.  They can be decoded
\* only from a transaction whose op list is one buffer.
uprobe_txc_add_transaction(t, n, buffers) ==
  LET k == ptid_opk[t]
      hit == /\ k # None /\ Known(k) /\ ops[k].op_type = "OSD_REPOP"
             /\ CanRead("txn.ops") /\ n > 0
      e == CountOps(ops[k], n)
      f == IF ~CanRead("txn.buffers") THEN e
           ELSE IF buffers # 1 THEN [e EXCEPT !.captured = 0, !.unavailable = TRUE]
           ELSE IF e.unavailable \/ ~CanRead("txn.carriage") THEN e
           ELSE [e EXCEPT !.captured = AtMost(@ + n, MAX_DETAIL_OPS)]
  IN /\ ops' = IF hit THEN [ops EXCEPT ![k] = f] ELSE ops
     /\ UNCHANGED <<ptid_opk, ctx_opk, ring>>

\* Hands the request over from the thread to the TransContext x.
uprobe_txc_calc_cost(t, x) ==
  LET k == ptid_opk[t]
      link == /\ k # None /\ Known(k) /\ CanRead("calc.ctx")
              /\ IsUnset(ops[k], "aio_submit") /\ IsUnset(ops[k], "kv_committed")
  IN /\ ptid_opk' = [ptid_opk EXCEPT ![t] = None]
     /\ ctx_opk' = IF link THEN [ctx_opk EXCEPT ![x] = k] ELSE ctx_opk
     /\ UNCHANGED <<ops, ring>>

\* mutant
StampsWithoutAio(state, pending) ==
  CASE state = "PREPARE" -> {"aio_submit"}
    [] state = "AIO_WAIT" -> {"aio_done"}
    [] state = "IO_DONE" -> {"kv_submit"}
    [] state = "KV_SUBMITTED" -> {"kv_committed"}

\* The stamps written on entry with a given state and pending aio count.
StateStamps(state, pending) ==
  CASE state = "PREPARE" -> {"aio_submit"} \cup (IF pending = 0 THEN {"aio_done"} ELSE {})
    [] state = "AIO_WAIT" -> {"aio_done"}
    [] state = "IO_DONE" -> {"kv_submit"}
    [] state = "KV_SUBMITTED" -> {"kv_committed"}

NeverEndsLink(state) == FALSE   \* mutant
EndsLink(state) == state = "KV_SUBMITTED"

uprobe_txc_state_proc(x, state, pending) ==
  LET k == ctx_opk[x]
      hit == k # None /\ CanRead("state.txc") /\ Known(k)
  IN /\ ops' = IF hit THEN [ops EXCEPT ![k] =
                         StampAll(ops[k], StateStamps(state, pending), x)]
               ELSE ops
     /\ ctx_opk' = IF hit /\ EndsLink(state)
                     THEN [ctx_opk EXCEPT ![x] = None] ELSE ctx_opk
     /\ UNCHANGED <<ptid_opk, ring>>

\* mutant: a third replica finds no slot
SlotsFull(e, p) == IF e.peer1 = None THEN [e EXCEPT !.peer1 = p]
                   ELSE IF e.peer2 = None THEN [e EXCEPT !.peer2 = p] ELSE e

\* There are two slots for peers: the first subop takes the first, every later
\* one the second, from the one before it.
TakeSlot(e, p) == IF e.peer1 = None THEN [e EXCEPT !.peer1 = p]
                                    ELSE [e EXCEPT !.peer2 = p]

\* One send stamp serves both slots.
uprobe_generate_subop(m, p) ==
  LET k == KeyOf[m]
  IN /\ ops' = IF CanRead("subop.key") /\ CanRead("subop.peer") /\ Known(k)
                 THEN [ops EXCEPT ![k] = [TakeSlot(ops[k], p) EXCEPT !.sent = p]]
                 ELSE ops
     /\ UNCHANGED <<ptid_opk, ctx_opk, ring>>

uprobe_do_repop_reply(m, p) ==
  LET k == KeyOf[m]
      e == CASE p = ops[k].peer1 -> [ops[k] EXCEPT !.recv1 = p]
             [] p # ops[k].peer1 /\ p = ops[k].peer2 -> [ops[k] EXCEPT !.recv2 = p]
             [] OTHER -> ops[k]
  IN ops' = IF CanRead("reply.key") /\ Known(k) THEN [ops EXCEPT ![k] = e] ELSE ops

AlwaysRoom(e) == TRUE   \* mutant
HasRoom(e) == e.delays < MAX_DELAYS

uprobe_mark_flag_point(m) ==
  LET k == KeyOf[m]
  IN /\ ops' = IF CanRead("delay.key") /\ Known(k) /\ HasRoom(ops[k])
                 THEN [ops EXCEPT ![k].delays = @ + 1] ELSE ops
     /\ UNCHANGED <<ptid_opk, ctx_opk, ring>>

\* A text that does not fit the record's 32 bytes is left out altogether.
uprobe_mark_flag_point_string(m, fits) ==
  IF CanRead("delay.string") /\ fits THEN uprobe_mark_flag_point(m)
                                     ELSE UNCHANGED probeVars

\* mutant: a full ring goes uncounted
EmitUncounted(k, m) ==
  /\ rb' = IF Len(rb) < RING_SIZE THEN Append(rb, Stamp(ops[k], "reply", m)) ELSE rb
  /\ ops' = [ops EXCEPT ![k] = None]
  /\ UNCHANGED <<ptid_opk, ctx_opk, rb_drops>>

\* mutant: on a full ring the handler returns before it deletes the entry
EmitKeeps(k, m) ==
  IF Len(rb) < RING_SIZE
    THEN /\ rb' = Append(rb, Stamp(ops[k], "reply", m))
         /\ ops' = [ops EXCEPT ![k] = None]
         /\ UNCHANGED <<ptid_opk, ctx_opk, rb_drops>>
    ELSE rb_drops' = rb_drops + 1 /\ UNCHANGED <<maps, rb>>

\* bpf_ringbuf_reserve fails when the ring is full; the entry goes either way.
Emit(k, m) ==
  /\ IF Len(rb) < RING_SIZE
       THEN rb' = Append(rb, Stamp(ops[k], "reply", m)) /\ UNCHANGED rb_drops
       ELSE rb_drops' = rb_drops + 1 /\ UNCHANGED rb
  /\ ops' = [ops EXCEPT ![k] = None]
  /\ UNCHANGED <<ptid_opk, ctx_opk>>

uprobe_log_op_stats(m) ==
  LET k == KeyOf[m]
  IN \/ CanRead("log.key") /\ Known(k) /\ Emit(k, m)
     \/ ~(CanRead("log.key") /\ Known(k)) /\ UNCHANGED probeVars

uprobe_repop_commit(m) ==
  LET k == KeyOf[m]
      hit == CanRead("repop.key") /\ Known(k)
  IN \/ hit /\ CanRead("repop.len") /\ Emit(k, m)
     \/ hit /\ ~CanRead("repop.len") /\ Forget(k)
     \/ ~hit /\ UNCHANGED probeVars

\* The function f is called: its handler runs if its probe is attached.
Fires(f, Handler) == IF Live(f) THEN Handler ELSE UNCHANGED probeVars

-----------------------------------------------------------------------------
(* Calls of the traced functions, in the order ceph-osd makes them.         *)

Work(t, pc) == worker[t].pc = pc
GoTo(t, pc) == worker' = [worker EXCEPT ![t].pc = pc]
Release(t) == worker' = [worker EXCEPT ![t] = IdleWorker]
SetStage(m, s) == stage' = [stage EXCEPT ![m] = s]
Held(m, t) == worker[t].msg = m
TxcsOf(k) == {x \in Txc : txc[x].owner \in Msg /\ KeyOf[txc[x].owner] = k}

\* OSD::enqueue_op.  A resend follows the message it repeats.
EnqueueOp(m) ==
  /\ stage[m] = "new" /\ Cardinality({n \in Msg : stage[n] # "new"}) < MaxMsgs
  /\ ResendOf[m] # None => stage[ResendOf[m]] # "new"
  /\ SetStage(m, "queued")
  /\ Fires("OSD::enqueue_op", uprobe_enqueue_op(m))
  /\ UNCHANGED <<printed, attached, worker, txc, pglog, waitfor, requeues>>

\* OSD::dequeue_op, under the pg lock: messages of one key run one at a time
\* and in order of arrival.
DequeueOp(t, m) ==
  /\ Work(t, "idle") /\ stage[m] = "queued"
  /\ \A u \in Thread : worker[u].msg \in Msg => KeyOf[worker[u].msg] # KeyOf[m]
  /\ ResendOf[m] # None => stage[ResendOf[m]] # "queued"
  /\ SetStage(m, "running")
  /\ worker' = [worker EXCEPT ![t] = [IdleWorker EXCEPT !.pc = "dequeued", !.msg = m]]
  /\ Fires("OSD::dequeue_op", uprobe_dequeue_op(t, m))
  /\ UNCHANGED <<printed, attached, txc, pglog, waitfor, requeues>>

\* The request must wait (for a scrub, a lock, a degraded object): it is
\* flagged delayed, with a literal or a string for a reason, and put aside.
DelayOp(t, m) ==
  /\ Work(t, "dequeued") /\ Held(m, t) /\ TypeOfMsg(m) \in Tracked
  /\ SetStage(m, "waiting") /\ Release(t)
  /\ \/ Fires("OpRequest::mark_flag_point", uprobe_mark_flag_point(m))
     \/ \E fits \in BOOLEAN : Fires("OpRequest::mark_flag_point_string",
                                   uprobe_mark_flag_point_string(m, fits))
  /\ UNCHANGED <<printed, attached, txc, pglog, waitfor, requeues>>

\* What a request waited for is there: it is queued again, not enqueued anew.
RequeueOp(m) ==
  /\ stage[m] = "waiting" /\ requeues < MaxRequeues
  /\ requeues' = requeues + 1
  /\ SetStage(m, "queued")
  /\ UNCHANGED <<probeVars, printed, attached, worker, txc, pglog, waitfor>>

\* The pg changes interval: a client write in progress starts over, and is
\* found in the pg log unless peering has taken it out.
IntervalChange(m) ==
  /\ stage[m] = "committing" /\ TypeOfMsg(m) = "OSD_OP" /\ requeues < MaxRequeues
  /\ requeues' = requeues + 1
  /\ SetStage(m, "queued")
  /\ pglog' \in {pglog, pglog \ {KeyOf[m]}}
  /\ waitfor' = [waitfor EXCEPT ![m] = {}]
  /\ UNCHANGED <<probeVars, printed, attached, worker, txc>>

\* An error, a duplicate answered from the pg log, a request the OSD may
\* discard, or a message of another type: no completion function is called.
FinishUnlogged(t, m) ==
  /\ worker[t].pc \in {"dequeued", "executed"} /\ Held(m, t)
  /\ SetStage(m, "done") /\ Release(t)
  /\ UNCHANGED <<probeVars, printed, attached, txc, pglog, waitfor, requeues>>

\* PrimaryLogPG::execute_ctx, reached unless the pg log already has the write.
ExecuteCtx(t, m) ==
  /\ Work(t, "dequeued") /\ Held(m, t) /\ TypeOfMsg(m) = "OSD_OP"
  /\ KeyOf[m] \notin pglog
  /\ ResendOf[m] # None => stage[ResendOf[m]] \in {"replied", "done"}
  /\ GoTo(t, "executed")
  /\ Fires("PrimaryLogPG::execute_ctx", uprobe_execute_ctx(m))
  /\ UNCHANGED <<printed, attached, stage, txc, pglog, waitfor, requeues>>

\* A read that succeeds is logged on the thread that executed it.
CompleteRead(t, m) ==
  /\ Work(t, "executed") /\ Held(m, t) /\ m \in Reads
  /\ SetStage(m, "replied") /\ Release(t)
  /\ Fires("PrimaryLogPG::log_op_stats", uprobe_log_op_stats(m))
  /\ UNCHANGED <<printed, attached, txc, pglog, waitfor, requeues>>

SubmitTransaction(t, m) ==
  /\ Work(t, "executed") /\ Held(m, t) /\ m \notin Reads \cup Erasure
  /\ pglog' = pglog \cup {KeyOf[m]}
  /\ GoTo(t, "submitted")
  /\ Fires("ReplicatedBackend::submit_transaction", uprobe_submit_transaction(t, m))
  /\ UNCHANGED <<printed, attached, stage, txc, waitfor, requeues>>

EcSubmitTransaction(t, m) ==
  /\ Work(t, "executed") /\ Held(m, t) /\ m \in Erasure \ Reads
  /\ pglog' = pglog \cup {KeyOf[m]}
  /\ SetStage(m, "committing") /\ Release(t)
  /\ Fires("ECBackend::submit_transaction", uprobe_ec_submit_transaction(m))
  /\ UNCHANGED <<printed, attached, txc, waitfor, requeues>>

\* ReplicatedBackend::generate_subop, once per peer.
GenerateSubop(t, m, p) ==
  /\ Work(t, "submitted") /\ Held(m, t) /\ p \notin waitfor[m]
  /\ waitfor' = [waitfor EXCEPT ![m] = @ \cup {p}]
  /\ Fires("ReplicatedBackend::generate_subop", uprobe_generate_subop(m, p))
  /\ UNCHANGED <<printed, attached, stage, worker, txc, pglog, requeues>>

\* BlueStore::queue_transactions, for a client write once its subops are out
\* and for a replica's request directly.
QueueTransactions(t, m, x, n) ==
  /\ txc[x].state = "free" /\ x \notin PgTxc /\ Held(m, t)
  /\ \/ Work(t, "submitted") /\ waitfor[m] = Peer
     \/ Work(t, "dequeued") /\ TypeOfMsg(m) = "OSD_REPOP"
  /\ worker' = [worker EXCEPT ![t] =
                  [pc |-> "queueing", msg |-> m, txc |-> x, txns |-> n]]
  /\ txc' = [txc EXCEPT ![x] = [owner |-> m, state |-> "PREPARE"]]
  /\ Fires("BlueStore::queue_transactions", uprobe_queue_transactions(t, x))
  /\ UNCHANGED <<printed, attached, stage, pglog, waitfor, requeues>>

\* The same for work of the pg itself (peering, trimming, recovery), on a
\* worker thread that is between two requests.
QueuePgWork(t, x, n) ==
  /\ txc[x].state = "free" /\ x \in PgTxc /\ Work(t, "idle")
  /\ worker' = [worker EXCEPT ![t] =
                  [pc |-> "queueing", msg |-> Background, txc |-> x, txns |-> n]]
  /\ txc' = [txc EXCEPT ![x] = [owner |-> Background, state |-> "PREPARE"]]
  /\ Fires("BlueStore::queue_transactions", uprobe_queue_transactions(t, x))
  /\ UNCHANGED <<printed, attached, stage, pglog, waitfor, requeues>>

\* BlueStore::_txc_add_transaction for each transaction (n operations in the
\* given number of buffers), then _txc_calc_cost, inside queue_transactions.
AddTransaction(t, n, buffers) ==
  /\ Work(t, "queueing") /\ worker[t].txns > 0
  /\ worker' = [worker EXCEPT ![t].txns = @ - 1]
  /\ Fires("BlueStore::_txc_add_transaction",
           uprobe_txc_add_transaction(t, n, buffers))
  /\ UNCHANGED <<printed, attached, stage, txc, pglog, waitfor, requeues>>

CalcCost(t) ==
  /\ Work(t, "queueing") /\ worker[t].txns = 0
  /\ GoTo(t, "costed")
  /\ Fires("BlueStore::_txc_calc_cost", uprobe_txc_calc_cost(t, worker[t].txc))
  /\ UNCHANGED <<printed, attached, stage, txc, pglog, waitfor, requeues>>

\* BlueStore::_txc_state_proc on entry in state s: first by the queueing
\* thread, then by the aio and kv_sync threads.  STATE_AIO_WAIT is entered
\* only when aios are pending.
StateProc(x, s, pending, next) ==
  /\ txc[x].state = s
  /\ txc' = [txc EXCEPT ![x].state = next]
  /\ Fires("BlueStore::_txc_state_proc", uprobe_txc_state_proc(x, s, pending))

PrepareTxc(t, pending) ==
  /\ Work(t, "costed")
  /\ StateProc(worker[t].txc, "PREPARE", pending,
               IF pending = 0 THEN "IO_DONE" ELSE "AIO_WAIT")
  /\ stage' = IF worker[t].msg \in Msg
                THEN [stage EXCEPT ![worker[t].msg] = "committing"] ELSE stage
  /\ Release(t)
  /\ UNCHANGED <<printed, attached, pglog, waitfor, requeues>>

AioDone(x) ==
  /\ StateProc(x, "AIO_WAIT", 1, "IO_DONE")
  /\ UNCHANGED <<printed, attached, stage, worker, pglog, waitfor, requeues>>

IoDone(x) ==
  /\ StateProc(x, "IO_DONE", 0, "KV_SUBMITTED")
  /\ UNCHANGED <<printed, attached, stage, worker, pglog, waitfor, requeues>>

KvSubmitted(x) ==
  /\ StateProc(x, "KV_SUBMITTED", 0, "FINISHED")
  /\ UNCHANGED <<printed, attached, stage, worker, pglog, waitfor, requeues>>

\* A peer's reply is a message of its own: the thread dequeues it (which only
\* drops the thread's binding), then ReplicatedBackend::do_repop_reply runs.
PeerReply(t, m, p) ==
  /\ Work(t, "idle") /\ p \in waitfor[m] /\ stage[m] = "committing"
  /\ waitfor' = [waitfor EXCEPT ![m] = @ \ {p}]
  /\ ptid_opk' = IF Live("OSD::dequeue_op")
                   THEN [ptid_opk EXCEPT ![t] = None] ELSE ptid_opk
  /\ IF Live("ReplicatedBackend::do_repop_reply")
       THEN uprobe_do_repop_reply(m, p) ELSE UNCHANGED ops
  /\ UNCHANGED <<ctx_opk, ring, printed, attached, stage, worker, txc, pglog,
                 requeues>>

\* A write is answered once its transaction, and the peers, have committed;
\* a pg's transactions commit in order, an earlier attempt's before its own.
Committed(m) ==
  /\ stage[m] = "committing" /\ waitfor[m] = {}
  /\ \A x \in TxcsOf(KeyOf[m]) : txc[x].state = "FINISHED"

CompleteWrite(m) ==
  /\ Committed(m) /\ TypeOfMsg(m) = "OSD_OP"
  /\ SetStage(m, "replied")
  /\ Fires("PrimaryLogPG::log_op_stats", uprobe_log_op_stats(m))
  /\ UNCHANGED <<printed, attached, worker, txc, pglog, waitfor, requeues>>

RepopCommit(m) ==
  /\ Committed(m) /\ TypeOfMsg(m) = "OSD_REPOP"
  /\ SetStage(m, "replied")
  /\ Fires("ReplicatedBackend::repop_commit", uprobe_repop_commit(m))
  /\ UNCHANGED <<printed, attached, worker, txc, pglog, waitfor, requeues>>

-----------------------------------------------------------------------------
(* The tracer's own steps, the kernel's, and time.                         *)

\* attach_probes for the next row; a function that cannot be attached is
\* skipped with a warning.
AttachNext ==
  /\ attached < Len(AttachList)
  /\ attached' = attached + 1
  /\ UNCHANGED <<probeVars, printed, osd>>

\* ring_buffer__consume hands the oldest event to handle_event.
Consume ==
  /\ rb # << >>
  /\ rb' = Tail(rb) /\ printed' = printed + 1
  /\ UNCHANGED <<maps, rb_drops, attached, osd>>

\* An LRU map drops an entry, in use or not.
EvictOp(k) ==
  /\ Evicts /\ Known(k)
  /\ ops' = [ops EXCEPT ![k] = None]
  /\ UNCHANGED <<ptid_opk, ctx_opk, ring, printed, attached, osd>>

EvictThread(t) ==
  /\ Evicts /\ ptid_opk[t] # None
  /\ ptid_opk' = [ptid_opk EXCEPT ![t] = None]
  /\ UNCHANGED <<ops, ctx_opk, ring, printed, attached, osd>>

EvictTxc(x) ==
  /\ Evicts /\ ctx_opk[x] # None
  /\ ctx_opk' = [ctx_opk EXCEPT ![x] = None]
  /\ UNCHANGED <<ops, ptid_opk, ring, printed, attached, osd>>

\* Five seconds have passed since the entry's enqueue stamp.
AgePasses(k) ==
  /\ MayAge /\ Known(k) /\ ~ops[k].aged
  /\ ops' = [ops EXCEPT ![k].aged = TRUE]
  /\ UNCHANGED <<ptid_opk, ctx_opk, ring, printed, attached, osd>>

RequestStep(m) ==
  EnqueueOp(m) \/ RequeueOp(m) \/ IntervalChange(m)
    \/ CompleteWrite(m) \/ RepopCommit(m)

ThreadStep(t, m) ==
  \/ DequeueOp(t, m) \/ DelayOp(t, m) \/ FinishUnlogged(t, m)
  \/ ExecuteCtx(t, m) \/ CompleteRead(t, m)
  \/ SubmitTransaction(t, m) \/ EcSubmitTransaction(t, m)
  \/ \E p \in Peer : GenerateSubop(t, m, p) \/ PeerReply(t, m, p)
  \/ \E x \in Txc, n \in 1 .. MaxTxns : QueueTransactions(t, m, x, n)

StoreStep(t) ==
  \/ \E x \in Txc, n \in 1 .. MaxTxns : QueuePgWork(t, x, n)
  \/ \E n \in TxnOps, buffers \in 1 .. 2 : AddTransaction(t, n, buffers)
  \/ CalcCost(t)
  \/ \E pending \in 0 .. 1 : PrepareTxc(t, pending)

TxcStep(x) == AioDone(x) \/ IoDone(x) \/ KvSubmitted(x)

EvictStep ==
  \/ \E k \in Key : EvictOp(k)
  \/ \E t \in Thread : EvictThread(t)
  \/ \E x \in Txc : EvictTxc(x)

Next ==
  \/ \E m \in Msg : RequestStep(m)
  \/ \E t \in Thread, m \in Msg : ThreadStep(t, m)
  \/ \E t \in Thread : StoreStep(t)
  \/ \E x \in Txc : TxcStep(x)
  \/ \E k \in Key : AgePasses(k)
  \/ AttachNext \/ Consume \/ EvictStep

Spec == Init /\ [][Next]_vars

-----------------------------------------------------------------------------
(* Properties                                                              *)

TrackedEntries == {ops[k] : k \in {j \in Key : Known(j)}}
Submitted == {rb[i] : i \in 1 .. Len(rb)}
IsWrite(e) == e.op_type = "OSD_REPOP" \/ ~IsUnset(e, "submit_transaction")

\* Every BlueStore stamp of a request of this type comes from a transaction
\* queued on that request's own behalf.
ChargedWithOwn(type) ==
  \A e \in TrackedEntries \cup Submitted : \A s \in TxcStamps :
    e.op_type = type /\ e.stamp[s] # Unset =>
      LET w == txc[e.stamp[s]].owner IN w \in Msg /\ KeyOf[w] = e.key

\* A client request is only ever charged with a transaction queued on its own
\* behalf, whatever else its thread, or a resend of it, does: the reason
\* uprobe_dequeue_op binds replica requests only (osdtrace.bpf.c:318-325).
ClientAttribution == ChargedWithOwn("OSD_OP")

\* So is a replica's request, which uprobe_dequeue_op binds to the thread
\* because it is taken to "go directly from do_repop to queue_transactions"
\* (osdtrace.bpf.c:318-325).
ReplicaAttribution == ChargedWithOwn("OSD_REPOP")

\* The BlueStore stages of one report all come from one TransContext, even
\* when a requeued request is executed twice: the guards on
\* queue_transaction_stamp and aio_submit_stamp in uprobe_queue_transactions
\* and uprobe_txc_calc_cost.
OneTransactionPerReport ==
  \A e \in TrackedEntries \cup Submitted : \A s, u \in TxcStamps :
    e.stamp[s] # Unset /\ e.stamp[u] # Unset => e.stamp[s] = e.stamp[u]

\* What is submitted to the ring has every stamp generate_op subtracts from
\* another: dequeue, for a client request execute_ctx, and for a write all of
\* BlueStore's.  A zero among them is the underflow the comments at
\* osdtrace.bpf.c:52-56 and 213-224 are about.
ReportsAreComplete ==
  \A e \in Submitted :
    /\ ~IsUnset(e, "dequeue")
    /\ e.op_type = "OSD_OP" => ~IsUnset(e, "execute_ctx")
    /\ IsWrite(e) => \A s \in TxcStamps : ~IsUnset(e, s)

Reports == Len(rb) + printed + rb_drops
LoggedReplies == {m \in Msg : stage[m] = "replied"
                     /\ ~(m \in Erasure /\ KeyOf[m] \in pglog)}

\* Every answered request is printed, is waiting in the ring, or is counted
\* in rb_drops: none is lost silently (osdtrace.bpf.c:82-87).
EveryReplyReported == Reports >= Cardinality(LoggedReplies)

\* No report is made of a request that was not answered, none is made twice.
NoReportWithoutReply == Reports <= Cardinality(LoggedReplies)

\* An entry ends with its request: when every message under a key is answered
\* none is left, dropped report or not, to pass for a request in flight when
\* the key comes again (osdtrace.bpf.c:213-237).
EntriesReleased ==
  \A k \in Key :
    LET S == {stage[m] : m \in {n \in Msg : KeyOf[n] = k}}
    IN S \subseteq {"new", "replied"} => ~Known(k)

\* A link from a TransContext to a request ends with the TransContext, so
\* ctx_opk does not fill with links nobody will follow (osdtrace.bpf.c:46-56).
LinksReleased ==
  \A x \in Txc : ctx_opk[x] # None => txc[x].state \notin {"free", "FINISHED"}

\* A step does not move the start of a tracked request's stages: dequeue and
\* queue_transaction keep the time of the first turn when a request that waited,
\* or was interrupted, is dequeued and queues a transaction again: what it waited
\* stays in the latencies reported (osdtrace.bpf.c:303, 434).
FirstAttemptKept ==
  [][\A k \in Key : \A s \in {"dequeue", "queue_transaction"} :
       /\ ops[k] # None /\ ops'[k] # None
       /\ ops'[k].stamp["enqueue"] = ops[k].stamp["enqueue"]
       /\ ops[k].stamp[s] # Unset
       => ops'[k].stamp[s] = ops[k].stamp[s]]_vars

\* The operations listed in a report are operations the request has, as many
\* as the record has room for.
ListsOwnOps(type) ==
  \A e \in Submitted :
    e.op_type = type => e.captured <= AtMost(e.total, MAX_DETAIL_OPS)

\* For a replica's request: "Replica ObjectStore::Transaction::OP_* names (up
\* to 8, with truncation count)" (doc/osdtrace.md:220), over all the
\* transactions queued together.
ReplicaOpsListed == ListsOwnOps("OSD_REPOP")

\* For a client's: "Decoded client CEPH_OSD_OP_* names (up to 8, with
\* truncation count)" (doc/osdtrace.md:219), however often it is executed.
ClientOpsListed == ListsOwnOps("OSD_OP")

ReplicatedWrites == {e \in Submitted :
                       e.op_type = "OSD_OP" /\ ~IsUnset(e, "submit_transaction")}

\* A report of a replicated write has the answers of two replicas, or of the
\* only one, each in the slot of the replica that gave it, however many replicas
\* there are and in whatever order they answer; the second slot is that of the
\* last one a subop was sent to, whose send the one stamp keeps
\* (uprobe_generate_subop, uprobe_do_repop_reply).  So that replica's wait is
\* counted from its own send.  "Eaxct time spent waiting on each peer OSD"
\* (doc/osdtrace.md:27) is more than that: the first replica's wait is counted
\* from the same send, and one between the two is not shown.
LastPeerTimed ==
  \A e \in ReplicatedWrites :
    /\ Peer # {} => e.peer1 \in Peer /\ e.recv1 = e.peer1
    /\ Peer \ {e.peer1} # {} =>
         e.peer2 \in Peer \ {e.peer1} /\ e.recv2 = e.peer2 /\ e.sent = e.peer2
=============================================================================
