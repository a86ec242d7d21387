# A verification development for cephtrace

cephtrace is three eBPF tracers for Ceph: `osdtrace` follows requests through a
running `ceph-osd`, `radostrace` through a librados client, and `kfstrace`
through the kernel client.  Each is a user-space program that attaches probes
and prints, and a BPF program whose probe handlers run in the kernel whenever a
traced function is called.  The handlers share maps and send finished records
to user space through a ring buffer.

The hard part of the program is not any single handler.  It is that dozens of
handlers, fired by many threads, in an order decided by somebody else's program,
write to shared records found through lossy maps, and that the numbers printed
are only right if every record was written by the request it is about.  That is
what this development is about.

## 1. Inventory

Paths are relative to `src/src/`; `PROJECT.json` lists the same components with
their status.

### 1.1 osdtrace, BPF side (`osdtrace.bpf.c`, `bpf_ceph_types.h`)

*State.* Three LRU hash maps: `ops`, from (pid, owner, tid) to the record of a
request (`struct op_v`: about twenty time stamps, peers, delay reasons, decoded
operations); `ptid_opk`, from a thread to the key of the request it works on;
`ctx_opk`, from a BlueStore `TransContext` to the key of the request it was
queued for.  A ring buffer `rb`, and a counter `rb_drops` of records that did not
fit.  `hprobes` holds the field locations user space computed from DWARF data.

*Operations.* One handler for each traced function: enqueue, dequeue, execute,
submit (replicated and erasure-coded), generate_subop, do_repop_reply,
queue_transactions, _txc_add_transaction, _txc_calc_cost, _txc_state_proc, the
two flag-point functions, log_op_stats and repop_commit in full mode;
log_op_stats_v2 in single mode; log_latency and log_latency_fn in BlueStore mode.

*Interaction.* A handler knows its request from its arguments, or through
`ptid_opk` (its thread) or `ctx_opk` (its TransContext).  The hand-over from
request to thread to TransContext is what attributes BlueStore's time to a
request.

*Hard behaviours.* A thread works for the pg between two requests; requests
wait, are requeued and executed again; clients resend under the same tid;
entries are evicted while in use; entries age; the ring fills up; a field may
have no DWARF location; probes are attached one by one to a running OSD.

*Correct when.* BlueStore's stages in a report belong to its own request and to
one transaction; a report has every stamp user space subtracts; a reply is
printed, waiting, or counted as dropped; no reply is reported twice; entries and
links end with what they describe; the operations and peers listed are the
request's own.

### 1.2 osdtrace, user space (`osdtrace.cc`)

*Target selection.* `discover_ceph_osd_processes`, `annotate_traceability`,
`resolve_requested_osd_ids`, `select_all_traceable_osds`,
`resolve_trace_targets` map `-a`, `-p`, `--id` and the default to a set of
processes and the path of their executable; `check_executable_deleted` refuses
processes that run a replaced image; `load_dwarf_data` imports a JSON file, takes
embedded data by build-id, or parses.  State: the process list with the builds
read, the chosen set and path, the parser's tables.  Hard: every scan of `/proc`
and every file is read at another moment, while processes exit and start and
packages are replaced, and one path names different files in different mount
namespaces.  Correct when the tables loaded describe the files probes are planted
in, and the selected processes map those files.

*Run loop.* `run_tracer` loads and attaches (`attach_probes` once per row of
`ATTACH_LIST`, `OSD::enqueue_op` last), then polls: `ring_buffer__consume`, the
timeout flag, a sleep.  `signal_handler` reports drops and exits.  State: the
links, `bootstamp`, the flag, the `osd_pid_to_id` cache.  Hard: the ring fills
while the printer works; the timeout is only looked at between two drains; a
process exits between selection and attaching.  Correct when every event is
printed once, in order, or counted as dropped, and the program stops when asked.

*Reporting.* `generate_op` turns a record into a report by subtracting stamps,
`handle_single` and `handle_bluestore` do the same in the other modes,
`print_lat_dist`/`print_srl` keep a histogram.  Correct when no subtraction goes
below zero and every value lands in the bucket that covers it.

### 1.3 radostrace (`radostrace.bpf.c`, `radostrace.cc`)

*State.* A plain hash `ops` of requests in flight keyed by (pid, client, tid), a
ring.  *Operations.* `uprobe_send_op` creates the record,
`uprobe_finish_op` sends and deletes it; user space attaches to librados,
librbd or an executable, drains, and at exit walks `ops` to report requests that
were never answered.  *Hard.* A request sent again; a full map; requests that
finish during the walk.  *Correct when* a request is reported once: as finished
or as hung, and only hung if it was.

### 1.4 kfstrace (`kfstrace.bpf.c`, `kfstrace.cc`)

*State.* Two plain hashes of pending OSD and MDS requests, two rings.
*Operations.* Handlers on sending and on dispatching replies; user space filters
by mode and prints.  *Hard.* An MDS request is answered twice (unsafe, then
safe); tids of different mounts collide; user space tells record kinds apart by
size.  *Correct when* a reply is matched with the request it answers.

### 1.5 DWARF resolution (`dwarf_parser.*`, `bpf_utils.h`)

*State.* Tables from function to address and field locations (`func2pc`,
`func2vf`), member offsets and type sizes, per module.  *Operations.* parsing with
libdw, export to and import from JSON, choice of embedded data by version.
`bpf_utils.h` follows a location (register, offset, dereferences) in the kernel.
*Correct when* following the location yields the field, and import undoes export.

### 1.6 Versions and libraries (`version_utils.*`, `utils.h`)

Package queries, scans of `/proc/<pid>/maps` and library directories, detection
of binaries deleted under a running process.  Stateless.

### 1.7 Tools, data, packaging, tests

`tools/*.py` post-process text output or DWARF files; `files/` is DWARF data;
`debian/`, `Makefile`, `tests/`: build and test scripts.  Stateless or not code.

## 2. Plan

Order of the modules, the most important behaviour first:

| | module | models | kind |
|---|---|---|---|
| A | `OsdProbes` (+ `MCOsdProbes`, `OsdProbesProofs`, `OsdReportsProofs`, `OsdStagesProofs`) | 1.1 in full mode with the OSD around it | **done** |
| B | `OsdTracer`, `EventChannel` (+ `MCOsdTracer`, `OsdTracerProofs`) | attach, drain loop, timeout, signal, pid cache; implements an abstract channel that delivers or counts every event; liveness of the stop | **done** |
| C | `RadosTrace` (+ `MCRadosTrace`, `RadosTraceProofs`) | 1.3 with the walk at exit | **done** |
| D | `KfsTrace` (+ `MCKfsTrace`, `KfsTraceProofs`) | 1.4: both kinds of requests, the two polls, timeout and signals | **done** |
| F | `FieldAccess` | paths to offsets, parameter locations by the calling convention, `fetch_var_member_addr` | **done**, pure operators |
| G | `TraceTargets` (+ `MCTraceTargets`, `TraceTargetsProofs`) | target selection, import, embedded data, live parse, export, where probes are planted; checked with F | **done** |
| E | `OpLatency` | `generate_op`, the filters of single and BlueStore mode, `print_srl` | planned |

B uses what A leaves in the ring as its input and nothing else of A.  C and D are
independent.  G extends F: its properties are about the fields the handlers read
in the processes selected.  E's operators take the stamps `ReportsAreComplete` (A)
promises.

Abstract specifications worth stating: for B a lossy counted channel; for C and D
a set of calls, each opened once and closed once.

Theorems: the type invariant and every safety invariant and action property that a
passing run of A, B, C, D and G checks is proved (3.5, 4.4, 5.5, 6.5, 7.3), and B's
refinement.  What stays with TLC is liveness (`TimeoutStops` of B, `Stops` of C and
D, `RingsDrained` of D), which needs fairness and `ENABLED`, and the recursive
operators of F.  Worth proving still: for E that guarded subtractions never wrap; for
A, what holds of a report once an interval change has made its write start over.

## 3. `OsdProbes`

### 3.1 State

| variable | code |
|---|---|
| `ops`, `ptid_opk`, `ctx_opk` | the LRU maps (`osdtrace.bpf.c:39-75`), total functions with `None` for absent |
| `rb`, `rb_drops` | the ring and its drop counter (77-87, 99-104) |
| `printed` | events `handle_event` has been given (`osdtrace.cc:823`) |
| `attached` | how many rows of `ATTACH_LIST` are attached (`osdtrace.cc:1588-1607`, 1672) |
| `stage`, `worker`, `txc`, `pglog`, `waitfor`, `requeues` | the traced OSD, external: the least the handlers rely on |

An `OpV` record carries what the properties tell apart: the key, the type, the
stamps, the two peer slots with the one send stamp, the number of delay reasons
and the two counters of decoded operations.  **A time stamp is abstracted to who
wrote it**: `Unset`, the message whose handling wrote it, the TransContext or the peer.  A
stage of a report is right exactly when its stamps have the right writer, so
attribution becomes a state predicate.  A request that waits is dequeued more than
once, so the dequeue stamp also names the turn (`Turn`: the message and how many
requeues came before): a second dequeue of one message writes another value.  Absolute time only matters to the
five-second test of `uprobe_enqueue_op`; it is the `aged` flag, set by
`AgePasses` at any moment.

### 3.2 Actions

A uprobe handler runs to completion on the thread that calls the traced function,
before the function does, so each action is one call: the OSD's step and the
whole handler, `Fires(f, handler)`, which is the handler when the probe of `f` is
attached.  Operators named `uprobe_*` are the handlers, one for each C function.
The conditions of a handler are those of the code, including the early returns
when a field has no location (`CanRead`): a run that puts fields in `Unread`
takes them.

The OSD's steps are what the handlers depend on and the code's comments describe:
messages are queued, dequeued under the pg lock (one at a time for one key), may
be delayed and requeued, may be answered without `log_op_stats` (errors,
duplicates found in the pg log, `FinishUnlogged`), are executed, write, wait for
peers and their own transaction, and reply.  An interval change makes a write in
progress start over, its entry still in the pg log or not.  `QueuePgWork` is what
worker threads do for the pg between requests.  A resend (`ResendOf`) is another
message under the same key.

`AttachNext` attaches one more row, `Consume` is user space taking an event, the
`Evict*` actions are LRU eviction of any entry at any time.

### 3.3 Properties

| property | says |
|---|---|
| `TypeOK` | types, and that delay reasons stay within the record |
| `ClientAttribution` | BlueStore's stamps of a client request come from a transaction queued for that request |
| `ReplicaAttribution` | the same for a replica's request: **violated**, see 3.6 |
| `OneTransactionPerReport` | the BlueStore stages of one report come from one TransContext, even if the request ran twice |
| `ReportsAreComplete` | every stamp `generate_op` needs is set in what is submitted |
| `EveryReplyReported` | no reply is lost silently: printed, in the ring, or counted |
| `NoReportWithoutReply` | not more reports than replies |
| `EntriesReleased` | no entry outlives the requests under its key |
| `LinksReleased` | no link outlives its TransContext |
| `FirstAttemptKept` | a step never moves dequeue or queue_transaction of a tracked request, however often it is dequeued and queues a transaction again |
| `ReplicaOpsListed`, `ClientOpsListed` | the operations listed are no more than the request has; the second is **violated** |
| `LastPeerTimed` | a report has two replicas' answers, each in its own slot, and the one send stamp is that of the second: of one replica the wait is exact (of the others not, see 3.6) |

### 3.4 Runs

All runs use `MCOsdProbes`, whose messages are eight kinds of request: a write, a
resend of it, another write, a read, an erasure-coded write, two replica writes
and a message of another type.  Threads, peers and TransContexts of a kind are
interchangeable and the handlers never compare them, so they are symmetric
(`Symmetric`); runs that must print a counterexample do without.

| run | bounds | asks |
|---|---|---|
| `osd_requests` | any 2 of 8 messages, 2 threads, 3 TransContexts (1 the pg's), 3 replicas, ring of 1, up to 2 transactions per call | interleavings of two requests, a resend racing its original, pg work in between, a full ring, transactions of one or two operations; more replicas than slots, answering in any order |
| `osd_requeue` | a write and a replica write, 2 requeues, probes attached one at a time | requests that wait or start over, and are dequeued and queue a transaction again; tracing that begins in mid-flight |
| `osd_disturbed` | any 2 of 5 messages, every eviction, entries age, three fields unreadable | `ClientAttribution` and `NoReportWithoutReply`: what still holds when the maps lose data (both proved, 3.5) |
| `osd_executed_twice`, `osd_replica_delayed` | one request | the two disagreements of 3.6 |

*Why the bounds are enough.* Every hazard listed involves at most two requests
(an original and its resend, or two requests on one thread) and one piece of pg
work: two threads and one TransContext for each of the three let all of them
interleave.  A ring of one report makes it full when the second completes.  Three
replicas are one more than a record has slots for: the second slot is filled twice,
and what the first one holds must stay.  `FirstAttemptKept` needs no resend (that is
`ReportsAreComplete`'s case, whose mutant drops the retry guard) but turns of one message:
two requeues let a write be delayed and then interrupted, so that it is dequeued
three times and queues two transactions.  `MAX_DETAIL_OPS = 2` with up to two transactions of
one or two operations, and `MAX_DELAYS = 1` with two delays, pass the limits of 8 and 5
in the code.  `MaxMsgs`, `MaxRequeues` and `MaxTxns` bound the environment only.

`ReportsAreComplete` is not asked where entries may be evicted or age: an evicted
and re-created, or replaced, entry lacks the stamps taken before.
`EveryReplyReported` and `EntriesReleased` are not asked where entries may be
evicted or fields be unreadable: then a reply is lost, by design, without trace.
`OneTransactionPerReport` is asked where a request is executed twice
(`osd_requeue`); that it also holds with a resend is proved (3.5).

*Deadlock* is not checked: an instance has finitely many requests and stops when
they are served.  There is no fairness in this module: its properties are safety
and action properties, liveness is the run loop's (section 4).

*Mutants.* A definition marked `\* mutant` is a fault that the definition it
precedes could have had (a dropped guard, a missing count, the enqueue probe
attached first, a third replica without a slot).  It is not part of the model.  For
each property of a passing run `PROJECT.json` names one that TLC finds violating it.

### 3.5 Proofs (`OsdProbesProofs`, `OsdReportsProofs`, `OsdStagesProofs`)

`TypeCorrect` proves `Spec => []TypeOK` with the inductive invariant `TypeInv`,
which adds that a thread inside `queue_transactions` has a TransContext.

`ClientAttributionHolds` proves `Spec => []ClientAttribution`, for any number of
threads, requests, resends, TransContexts and peers, evictions, ageing,
unreadable fields, late attachment and interval changes included.  It assumes
`ConstantAssumption` and that `BlueStore::_txc_calc_cost` could be attached: it is
that probe which ends a thread's binding, and without it a binding survives into
the pg's work.  The property is not inductive: an entry is charged through
`ctx_opk`, which was set from `ptid_opk`.  The invariant `IInv` follows the
hand-over back:

- `EntriesOwn`, `ReportsOwn`: the property itself, for entries and reports;
- `LinksOwn`: a TransContext linked to a client request was queued for it;
- `BindingsOwn`: a thread bound to a client request is between
  `submit_transaction` and `_txc_calc_cost` for that request;
- `QueueingOwns`: the TransContext a thread builds belongs to what it handles;
- `FreeUnowned`: a fresh TransContext has no owner, so no old stamp names it;
- `EntriesNamed`: an entry has its key and the type of its key;
- `TrackedLast`: nothing is tracked before all probes had their turn, which is why
  attaching `OSD::enqueue_op` last matters.

`BindingsOwn` is where the design decision at `osdtrace.bpf.c:318-325` shows: the
dequeue handler binds replica requests only.  `IInv` was also checked by TLC on the
three passing instances.  The proof has a lemma for each handler saying which
records it leaves (`RecordsKept`), frame lemmas for steps that charge nothing
(`Frame`, `ThreadFrame`, `MoveFrame`, `QuietFrame`) and for steps that charge one
record (`StampFrame`), and one lemma per group of actions.

*Records and reports* (`OsdReportsProofs`).  A first part follows one record through
the handlers: `StepContinues` says that a step either is an `OSD::enqueue_op` that
begins or drops a record, or leaves every record as it was at an earlier moment of
the same request (`Continues`), and that the ring loses its head or gains a report
made of a tracked record.  A second part, `OsdInv`, is the OSD's side alone: what a
thread holds is running and is the only one of its key, a TransContext belongs to
one thread and one request.  From these:

| theorem | property | needs |
|---|---|---|
| `ReplicaListing` | `ReplicaOpsListed` | nothing more |
| `FirstAttemptStays` | `FirstAttemptKept` | nothing more |
| `EntriesEnd` | `EntriesReleased` | `RepliesSeen` |
| `ReportsEarned` | `NoReportWithoutReply` | `EcSeen`, `EcOnce`, `AlikeByKey`, finitely many messages |
| `AnswersReported` | `EveryReplyReported` | `RepliesCounted`, `EcOnce`, `AlikeByKey`, `ResendsWrites`, finitely many messages |

`EntriesEnd` is also what covers a handler that returns half way because a field cannot
be read (`osdtrace.bpf.c:907`): it holds for any `Unread` but the keys of the two replies,
where the run that checks `EntriesReleased` reads every field.

The conditions are on the constants, and each is there because the property fails
without it.  `RepliesSeen`: the two functions that log a reply could be attached and
their keys be read; otherwise nothing ends a record.  `EcSeen`, `EcOnce`: the same for
the function that ends the tracking of an erasure-coded write, and such a write is not
resent; its resend would begin a record while the write is being committed.
`AlikeByKey`: a resend is a read if what it repeats is one.  `RepliesCounted`: records
begin and end where they can be read, tracing comes first and nothing is evicted.
`ResendsWrites`: of a read that is resent both are executed and answered, and the
record went with the first.  A write is safe because of the pg log: `WrittenOnce` says
that of a write and its resends at most one is past its submission, that its key
is in the log, and that what is about to be submitted is not.  `ArrivedTracked`
says that a request of which a message has arrived is tracked until one is answered;
`AnsweredReported` joins the two, and counting (`AnswersCountedStep`, `CountedStep`)
does the rest: each answer adds one to `Reports` and one to `LoggedReplies`.
With both theorems there is exactly one report for each answered request.

*Stages* (`OsdStagesProofs`).  `StagesComplete` (`ReportsAreComplete`),
`OneTransaction` (`OneTransactionPerReport`), `LinksEnd` (`LinksReleased`) and
`PeersShown` (`LastPeerTimed`) hold when the tracer is not disturbed.  `Calm` says
what that is:

- `Undisturbed`: every function is probed, every field can be read, nothing is
  evicted and no record gets so old that it is taken for an orphan;
- `AlikeByKey`, and `StartsClean`: no record begins while a message of its key is
  half-way, which is so if no message is resent, or if tracing comes first and each is
  resent at most once and no erasure-coded write is.  Outside it a report is
  incomplete in the code, see 3.7;
- `ReplicaCalm`: the pg has no work of its own, or a replica's request that waits is
  not taken up again, nor resent; otherwise the disagreement of 3.6 spoils it.

The instances `osd_requests` and `osd_requeue` are calm, one with a resend and pg work,
the other with late attachment, delays and interval changes.  The invariant
`StageInv` says for each record what it has seen of the OSD's work on its key:
`DequeueSeen`, `ExecuteSeen`, `QueueSeen` (a missing stamp means that no message of
the key is past that step), and `Charged`: its TransContext is its own, has
written exactly the stamps of the states it went through (`StampsAt`), and is bound
(`ptid_opk`) or linked (`ctx_opk`) to it until it is finished.  `BindInv` and
`LinkInv` say the converse of bindings and links, `Ready` that no record begins half-way,
and `Dead` names the one exception, a replica's request that waits for good while its
thread works for the pg.  There is a lemma for the effect of each handler
(`...Effect`) and one for each action (`...Stages`).

`PeersShown` also assumes that no write starts over (`Uninterrupted`: the second
attempt is sent to the same peers again and would take slots in use); the number of
replicas is any.  `PeersInv` relates the slots to the OSD's `waitfor`: while subops go
out the first slot holds a peer sent to, the second the last of the others with the
stamp of its send, and there is no answer (`SentRight`); while the write is committing,
a peer in a slot that has answered is marked in its slot (`HeardRight`).

TLC also checks `StageInv` on these instances and `PeersInv` on that of `osd_requests`.
No safety property of this module is left to TLC alone, and it states no
liveness.

### 3.6 Disagreements between the code and its documentation

- *Executed twice* (`osd_executed_twice`): `capture_decoded_osd_ops` assigns the
  total and adds to the number captured, so a write that is executed again is
  listed with operations it does not have.
- *A delayed replica request* (`osd_replica_delayed`): the dequeue handler binds
  the thread on the ground that replica requests go straight to
  `queue_transactions`; one that must wait leaves the binding to the next
  transaction the thread queues.

- *Waiting for each peer*: `doc/osdtrace.md:27` promises "Eaxct time spent waiting on
  each peer OSD for replication".  A record has one `sent_stamp`, written at every
  send (`osdtrace.bpf.c:691`), and `generate_op` subtracts it from both answers: the
  first replica's wait is counted from the last send, so it comes out too short (0, if
  it answered before that send).  With more than two replicas the second slot is the last
  one's and those in between are not shown.  No run is kept for it: `LastPeerTimed`
  states, and `PeersShown` proves, what is exact in spite of it, the wait for the
  replica the last subop was sent to.

### 3.7 Known limits of the design, seen while modelling

These are consequences the comments accept or do not discuss; no run is kept for
them.  A resend more
than five seconds after the original replaces the record of a request still in
flight, and a resend of a request that was answered with an error before it was
logged is executed under the old record, whose stages then mix two messages.
When probes are attached to a busy OSD, a resend may be tracked while its
untracked original completes, and reported without its earlier stages: the dequeue
stamp is 0 and `queue_lat` (`osdtrace.cc:748`) wraps around.  Late attachment and
resends are therefore in different runs (`StartsClean` in the proofs).  So may the third
of three messages of one read: the answer to the first takes the record the
second was to go on with, and the third begins another while the second is executed.
When a write starts over after an interval change, its peers are sent to again and take
slots that are in use.

## 4. `OsdTracer` and `EventChannel`

### 4.1 What is modelled

`EventChannel` is the promise: events are produced; each is delivered once, in
order, or counted as lost the moment it is produced.  `OsdTracer` is the process
that keeps it: `run_tracer` from the first row of `ATTACH_LIST` to its return, with
the traced processes around it.  From `OsdProbes` it takes one thing: which
functions' probes it takes for a process to submit an event (`Submits`).

| variable | code |
|---|---|
| `probe_mode`, `timeout`, `pids` | `-s`/`-b`/`-x`, `-t`, `target.pids`; chosen once |
| `pc` | where the main thread is: attaching, at the head of the loop, inside `ring_buffer__consume` with nothing (`drain`) or something (`drained`) handed over, about to sleep, in the final drain, leaving, over |
| `row`, `done`, `attached`, `links` | the loop over `ATTACH_LIST` and the loop of `attach_probes` over processes (`osdtrace.cc:1206-1221`, 1672-1684) |
| `timeout_occurred` | the flag set by the SIGALRM handler (691-695) |
| `cache` | the arrays `osds` and `pids` filled by `handle_event` (849-852) |
| `rb`, `rb_drops` | the ring and its counter; an event is its number in order of production |
| `handled`, `labels`, `reported` | events given to `handle_event`, the OSD id each was printed with, the number of drops reported |
| `started`, `alive`, `eventOf`, `mark` | the environment: processes, what was produced by whom, and how much of it when the alarm went off |

`attach_probe` attaches one row to one process and follows `attach_probes` in
giving the row up at the first process it cannot attach to.  `Consume` hands one
event to `handle_event`; `ring_buffer__consume` returns (`Return`, `LastReturn`)
only when it finds the ring empty.  Between the end of the final drain and the exit
the probes are still attached, so more events may arrive.  `signal_handler` may end the
program anywhere, `timeout_handler` may set the flag anywhere after the alarm is
armed.  `ProcessExits` and `ProcessStarts` are the OSDs': a process exits at any
time, an OSD may come back under another pid, and a pid is not used twice.

### 4.2 Properties

| property | says |
|---|---|
| `TypeOK` | types, and that the ring stays within its size |
| `Delivers` | the module implements `EventChannel` |
| `TimeoutLosesNothing` | what is in the ring when the tracer leaves was produced after the alarm |
| `TrackedCompletely` | a process whose `OSD::enqueue_op` is probed has every other probe that has an address, even if its neighbours exit while rows are attached |
| `LabelledRight` | events are printed under their own OSD's id, or none if it was gone |
| `CacheFits` | one cache entry for an OSD, however often it restarts |
| `NothingDiscarded` | no mode attaches a probe whose events `handle_event` throws away |
| `TimeoutStops` | a set timeout ends the program |
| `AliveTargetsTraced` | a selected process that lives is traced: **violated**, see 4.5 |

### 4.3 Runs

| run | bounds | asks |
|---|---|---|
| `osd_tracer` | three processes of two OSDs (one a restart), traced by their ids or as "every process"; modes `-s`, full with `-b`, `-s` with `-b`; ring of 2, 3 events; one function without an address; a timeout | all properties but the last |
| `osd_tracer_exit` | two processes, full mode | the disagreement of 4.5 |

*Bounds.* A ring of two and three events let the ring fill while a drain runs and
let events of both OSDs and of a restarted one mix.  Two selected processes are
enough for one to exit while the other's rows are attached.  `MaxEvents` also says
that bursts end, and `TimeoutStops` needs that: `ring_buffer__consume` returns
when it finds the ring empty, so a producer that never pauses and keeps up with
the printer would keep the loop from looking at the flag.

*Fairness.* The main thread is scheduled (`WF` on `MainStep`), and the alarm that
was armed goes off (`WF` on `timeout_handler`).  Nothing is assumed of the traced
processes or of signals.  Deadlock is not checked because the tracer ends.

### 4.4 Proofs (`OsdTracerProofs`)

For any number of processes and events, any ring size, set of modes and set of
missing functions, from `TracerAssumption` alone:

- `TracerDelivers`: `Spec => Delivers`, the refinement.  `EventInv` types the ring
  and the events; `Consume` maps to `Deliver`, `Submit` to `Produce` or `Lose`,
  every other action leaves the channel as it is (`OthersLeaveChannel`).
- `FinalDrainComplete`: `TimeoutLosesNothing`, with `TimeoutInv`, which relates the
  flag, the mark and the program counter.
- `LabelsRight`, `CacheBounded`, `AllPrinted`, from `AllInv`.  `RowInv` says that
  every row attached is one the mode asks for; with `Rows` (only the row of single
  mode is exact) it shows that an event submitted is one `handle_event` looks
  up and prints (`SubmitsHandled`).  `CacheInv` says that a cached id is the
  process's own, or none for a process that will not run again, which needs that
  pids are not reused.
- `TrackedByAllProbes`: `TrackedCompletely`.  `AttachInv` says that a row is attached
  to a prefix of the targets in the order of their pids (`PrefixInv`), and that a row
  already passed is attached to all of them or up to one that had exited and gets no
  later row either (`PassedInv`); that `OSD::enqueue_op` comes after all other full-mode rows is read
  off `ATTACH_LIST` (18 rows in four parts), the only place where the proof looks at
  the list itself.
- `TypeCorrect`: `TypeOK`.

`TimeoutStops` is liveness and stays with TLC.

### 4.5 Disagreement between the code and its documentation

*A target exits* (`osd_tracer_exit`): `attach_probes` returns at the first process
it cannot attach to.  If one of several targets exits between selection and
attaching, the ones after it get no probe at all of the rows that follow, and a row
that failed is not counted: OSDs that still run are not traced, though `-a` is
documented as tracing all of them.

### 4.6 Limits

On SIGINT there is no final drain: what is in the ring is lost, uncounted.  The
negative return of `ring_buffer__consume`, possible only if a callback returns one,
is left out: `handle_event` returns 0.

## 5. `RadosTrace`

### 5.1 What is modelled

The two probes of radostrace in the clients, its main thread, and the hash they
share.  A time stamp is the number of the send it was taken at, so a row is right
when it shows the last one.

| variable | code |
|---|---|
| `ops`, `rb` | the hash and the ring (`radostrace.bpf.c:12-22`) |
| `handler` | what a running handler has still to do, where it is split |
| `attached` | calls of `attach_uprobe` made (`radostrace.cc:981-984`) |
| `pc`, `cursor` | the main thread; `look` is between `get_next_key` and `lookup_elem` |
| `timeout_occurred`, `got_sigint`, `rows` | the flags and the rows printed |
| `stage`, `sends` | the clients, external |
| `excuse`, `standing` | history: why a request is not reported; what is in flight since the walk began |

`uprobe_send_op` is two steps, `Send` (the entry is emptied) and `SendStamped`;
`uprobe_finish_op` is two, `Finish` (submitted) and `FinishDeletes`: user space
reads the hash at any time.  The walk is two system calls for each key, and
`get_next_key` starts over when its key is gone, as the kernel's hash does.
`detach` does not appear: the skeleton has no links to destroy (5.4).

### 5.2 Properties

| property | says |
|---|---|
| `CompleteRowsRight` | a row with Complete=1 is of an answered request, shows its last send, and is printed once |
| `AnswersReported` | an answered request is printed or in the ring, or hash, ring or attaching excuse it |
| `EntriesReleased` | an entry ends with its request |
| `StopLosesNothing` | what was answered before the timeout or SIGINT is printed before the walk |
| `StandingReported` | what stays in flight during the walk is listed, whatever comes and goes around it |
| `Stops` | a timeout or SIGINT ends the program |
| `ListedOnce` | the walk lists a request once: **violated**, see 5.4 |

### 5.3 Runs

`rados_trace`: three requests, two of one client and one of another with the same
tid, through two of three libraries (one has no Objecter), each sent up to twice;
room for two entries and for one event.  Two entries make the hash fill with the
third request, and let one go while the walk stands on it and the other stays.
`rados_walk`: two requests through one library.

Fairness is that of the main thread only.  It is enough for `Stops` because
requests are finitely many: each one answered restarts the walk at most once.
Deadlock is not checked because the tracer ends.

### 5.4 Disagreement, and limits

*The walk races with finishing requests* (`rados_walk`): the comment before
`detach` says that it does not.  `attach_uprobe` keeps its `bpf_link` in a local
variable, so `detach` detaches nothing; the probes go on until the process ends.

`_send_op` is probed before `_finish_op`.  A request sent and answered in between
leaves its entry behind, takes one place of the hash for good, and is listed
as in flight at the end.  `EntriesReleased` excepts this case (`excuse` "no probe").  osdtrace attaches the first probe of a request last.

A full ring or a full hash loses requests without a count: there is nothing like
osdtrace's `rb_drops`, and the model's `excuse` is not known to the program.
`sent_stamp` is set before `pid`, so a row may be made between the two.  A resend
moves the stamp: latency is measured from the last send.

### 5.5 Proofs (`RadosTraceProofs`)

`StopComplete`: `Spec => []StopLosesNothing` for any requests, clients and
libraries, any size of hash and ring and any number of sends, from
`RadosAssumption`.  `StopInv` adds that past the loop the program has been
stopped, so an event submitted there is late (the flags are never reset), and the types
of ring and rows, which `Finish` and `lookup_elem` need.  The walk begins with an
empty ring; a client that answers while it goes on submits only late events.

`TypeCorrect`: `TypeOK`, from `TypeInv`, which adds that the hash is finite also when
requests are not.  `RadosAssumption` says of `Libraries` that its length is a natural
number, that is, that it is a list.

`EntriesEnd` (`EntriesReleased`), `CompleteRows` (`CompleteRowsRight`) and
`AnswersAccountedFor` (`AnswersReported`) rest on `Entry`, one request at a time: whose
entry it is, what stamp it has while a handler is half done, and why there is none.  A
row is right because the ring and the rows are (`AllRight`): once a request is
answered it is not sent again, so what was right when it was submitted stays right;
`Once` says that no request is in two of them.

`StandingListed`: `StandingReported`.  `WalkInv` says of a request that stands since
the walk began that its entry is there and has been listed once the cursor has passed
it.  `get_next_key` starts over from the front when the key at the cursor is gone, so
what is proved of it is that it skips no key that is there (`NextKeySkipsNone`).

`Stops` is liveness and stays with TLC.

## 6. `KfsTrace`

### 6.1 What is modelled

The four probes of kfstrace on the kernel client, `send_request` and
`osd_dispatch` for OSDs, `__prepare_send_request` and `mds_dispatch` for MDSs,
their two tables and two rings, and `main` from attaching to its return.

| variable | code |
|---|---|
| `pending` | `pending_requests` and `pending_mds_requests` (`kfstrace.bpf.c:169-192`), one function over keys that carry their kind |
| `rings` | `rb` and `mds_rb` |
| `running` | handlers between their two steps |
| `pc`, `attached`, `stop` | `main`: attaching, in one of the two polls with nothing or something handed over, over; the timeout and the flag of the signal handler |
| `rows` | what `handle_event` and `handle_mds_event` made of each event |
| `stage`, `sends`, `delivered` | the clients and the messages that came in, external |
| `excuse`, `overlapped`, `announced` | history: why a request is not reported, whose handlers ran at the same time, what the client was told |

A time stamp is the number of the send it was taken at, a latency is "fast" or
"slow" against the threshold of `-l`, or "zero", which `handle_mds_event` does not take
for an unsafe reply's. A handler that writes its entry twice, or
reads it and writes it back later, is two actions (`OsdFilled`, `MdsFilled`,
`UnsafeWritten`, `DispatchDeletes`), because another CPU may run a handler of the
same request in between. An unsafe reply writes its answer into the entry at once,
through the pointer of the lookup; what the second step writes back with `BPF_EXIST` is
that entry as it is by then, or the value the handler had read, and nothing when the
entry is gone (`WrittenBack`). A client sends again after a map change, a forward or a
reconnection; answers to earlier sends still come in; an MDS write gets an unsafe
and a safe reply; a request may be killed, which no probe sees.

### 6.2 Properties

| property | says |
|---|---|
| `AttemptsCounted` | an event counts every send from the one its latency starts with to the last one |
| `SendsReportedOnce` | no send is in two events, however late answers come |
| `UnsafeReplyKept` | the unsafe reply is in the event of the safe one, also after a replay |
| `AnswersReported` | the send that was answered is reported, or table, ring or attaching excuse it |
| `EntriesReleased` | an entry ends with its request, however its handlers overlap |
| `RingsDrained` | neither ring starves the other, as long as each is found empty at times |
| `Stops` | a timeout or signal ends the program |
| `OsdRowsShown` | a slow OSD request is shown: **violated**, see 6.4 |

The first four leave out requests whose handlers overlapped (`overlapped`): the
program takes no lock there, and a send counted while the entry is filled in is
lost. `EntriesReleased` does not leave them out, for it is what `BPF_EXIST` is
for.

### 6.3 Runs

`kfs_trace`: an MDS write of up to two sends, an MDS read of another client with
the same tid, and an OSD request of up to two sends; three sends in all; tables
and rings of one entry, so that every table and ring is found full; the read may
be killed. An unsafe reply is always fast and a final one slow, which is enough:
the filter compares one of them, and no property but `OsdRowsShown` is about it.
`kfs_osd_rows`: one OSD request.

Fairness is that of the main thread only (`WF` on `MainStep`): a poll returns
after 100 ms or when its ring is empty. Requests are finitely many, so bursts end:
`RingsDrained` shows that both rings are polled whatever is in them, not that a poll
returns from a ring that is refilled for ever, which `ring_buffer__poll` does not.
Deadlock is not checked because kfstrace ends.

### 6.4 Disagreement, and limits

*No OSD request is shown* (`kfs_osd_rows`): the probes' record of an OSD request
is shorter than the structure user space declares (`cls_name` has 8 bytes on one
side and 16 on the other), and `handle_event` rejects it by its size.

A killed request keeps its entry for good. The event of a replayed MDS request
shows the MDS of its first send, though `doc/kfstrace.md` says "Which MDS is
handling this operation". A signal that interrupts a poll leaves the loop without
a last drain. Not modelled: a client id that cannot be read becomes 0; a table
slot reused for another key under a handler's pointer; the exit status.

### 6.5 Proofs (`KfsTraceProofs`)

For any requests, sends, tables and ring sizes, from `KfsAssumption` (which also keeps
`None` out of the entries): `TypeCorrect` and, one for each invariant of the run,
`SendsCounted`, `UnsafeKept`, `AnswersAccountedFor`, `EntriesEnd` and `ReportedOnce`.

`Steps` reduces the actions to six, without the difference between the two kinds of
requests.  `RequestInv` is about one request.  `Tracked` holds of all, overlapped or
not, and gives `EntriesReleased`: an entry is there after the answer only for the
handler that is about to delete it, or for want of a probe.  `Quiet` holds as long as no
two handlers have overlapped: the entry counts the sends from its first to the
last (`Counting`), except while a send fills it in (`Opening`); what has been
reported ends before the entry begins (`Closed`); an answer has its entry until it
is submitted (`Ending`, `Covered`).

`ReportedOnce` says that no send is in two events and no event in two places.  The
second is about sequences, the ring and the rows together: `OrderInv` orders the
events of a request, the one submitted first being over before the other
begins, so no two are equal and their number is that of a set (`PlacesCounted`).

`RingsDrained` and `Stops` are liveness and stay with TLC.

## 7. `FieldAccess` and `TraceTargets`

### 7.1 `FieldAccess`

The way from a path such as `op->px->request->recv_stamp` to an address, in two
halves that share nothing but a table. User space, with the debug information of
one build: `translate_fields` makes an offset and a dereference of each member,
`resolve_member_offset` finds members through bases and anonymous unions,
`translate_param_location` takes a parameter's place from DWARF or, when DWARF has
none, `abi_param_location` computes it by classifying the parameters before it. In
the kernel: `fetch_var_member_addr` follows at most nine of the ten fields from a
register or a stack slot. `fill_map_hprobes` numbers what one half writes, `Reads`
what the other reads. The paths are four functions of `osd_probes`, those whose
shapes differ: a reference on the stack or in a register, shared pointers, a cast,
a declaration, a by-value parameter.

`FieldAddress` is the meaning of a path in C++, defined without DWARF's locations:
where the caller put the parameter, and every member through the objects in
memory. `RightFor` of `TraceTargets` is the set of pairs of builds <data, process>
for which the two agree on every field the handlers read. In the checked instance
it holds of each build with itself and of no two different ones; types are a
table, memory a function on addresses, so that two different paths read two
different addresses.

### 7.2 `TraceTargets`

| variable | code |
|---|---|
| `options`, `pc` | the command line; where `main` is |
| `seen`, `todo`, `build_id` | the list of `discover_ceph_osd_processes`, the scan's position, what `annotate_traceability` read |
| `pids`, `osd_path` | `TraceTarget` |
| `parser` | the tables of `DwarfParser`, by the build they are filled from |
| `planted` | in which file the probes of which process are |
| `json` | the exported file |
| `disk`, `image`, `started` | external: the package installed in each mount namespace, the one each process runs |
| `replaced` | history: a package was replaced since the look for old images began |

A file is <namespace, n-th package installed there>. Every scan of `/proc` is a
step for each process; `Exit`, `StartOsd` and `Replace` come in between at any
point until tracing begins. Attaching is a step for each process: row by row it is
`OsdTracer`'s.

| property | says |
|---|---|
| `AllReadOwnFields` | with `-a` every handler reads every field where the traced process keeps it |
| `OneTargetReadsOwnFields` | the same for the other modes, on processes of one namespace |
| `SelectedAreSeen` | a selected process that still runs maps the file its probes are in |
| `ExportedTogether` | version, build-id and tables of an exported file are of one build |

`osd_start`: a host with two packages and two containers with two and one, three
builds that differ by shifted members, five processes, of which one is not a
ceph-osd and one starts later, and seventeen command lines, one for each way of
selecting and of getting data and their combinations. Two processes of one
container and of two containers with equal and different builds are among the
selections. There is no fairness: the properties are safety. Deadlock is not
checked, for the start ends in tracing, an export or an error.

### 7.3 Proofs (`TraceTargetsProofs`)

For any processes, namespaces, packages, builds and options, from
`TargetAssumption`: `TypeCorrect`, `AllFieldsRight`, `OneTargetFieldsRight`,
`SelectedSeen` and `ExportRight`, that is every property of the run. The two about
fields assume that data of a build fits the build itself (`FieldAccess`, which TLC
checks for the three builds of the instance and no proof covers for every debug
information), and `OneTargetFieldsRight` also that a package version names one
build.

The invariant `Inv` follows a build-id from where it was read to where it is used:

- `ReadInv`: the build-id read for a process that still runs is that of its
  package or of one installed after; the processes past validation have been
  started, so one that is gone does not come back;
- `ChoiceInv`: with `-a` those selected were read as one build that is compiled
  in;
- `FreshInv`: the processes the look for old images has passed run what is
  installed. With `ReadInv` this pins the build: installed since it was started
  and not after;
- `PlantedInv`: probes are in what is installed, in files of the builds read;
- `DataInv`: the tables are those of the first process's file, if it was there
  when they were loaded; `attach_probes` begins with that process, so if it was
  not, there is nothing planted;
- `JsonInv`: what an export has gathered so far.

`Inv` was also checked by TLC on the instance of `osd_start`.

### 7.4 Limits, seen while modelling

A package replaced after the look for old images may be planted in with the data
of the one before (`replaced`). `-p` and `--id` compare paths only: containers
with different builds get the data of the first. A live parse opens the host's
file although its build-id was read through the process's root. `-i` with `-j` and
without the version check exports the host's version with other tables. An import
that lacks `member_offsets` keeps the defaults compiled into the probes.
`find_class_member` leaves out the offset of a base class, takes only members with a
location, and gives up at the first class without children, though another base may
have the member; no path of `osd_probes` meets any of these in the builds assumed, nor do
the parameters before `reqid` include an enumeration, a float or a small aggregate. The
offset of a parameter in memory below a register other than the frame's is ignored
by `fetch_var_member_addr`.

## 8. Not modelled, and why

Single and BlueStore mode handlers keep no state between calls; their filters
belong to E. Handlers that no row of `ATTACH_LIST` attaches (`do_write`,
`wctx_finish`, `log_subop_stats`) never run. An eviction between the lookup and
the write inside one handler is the kernel's: a handler is one step here. Text
formatting, object names and sizes are payload. libdw, libbpf, JSON and procfs are
external; so are the walk over DWARF entries and its caches. radostrace's choice
of libraries from `/proc/<pid>/maps` and its field paths are left out. Everything
in section 2 marked planned is not modelled yet.

## 9. Running

In this directory: `tlc -config OsdRequests.cfg MCOsdProbes.tla`, `tlc -config
OsdTracer.cfg MCOsdTracer.tla`, `tlc -config RadosTrace.cfg MCRadosTrace.tla`,
`tlc -config KfsTrace.cfg MCKfsTrace.tla`, `tlc -config OsdStart.cfg
MCTraceTargets.tla` (likewise the other configurations), `tlapm
OsdProbesProofs.tla`, and the same for `OsdReportsProofs`, `OsdStagesProofs`,
`OsdTracerProofs`, `RadosTraceProofs`, `KfsTraceProofs` and `TraceTargetsProofs`.
