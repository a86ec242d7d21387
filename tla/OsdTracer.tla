----------------------------- MODULE OsdTracer ------------------------------
(***************************************************************************)
(* The life of an osdtrace process: run_tracer attaches the probes, then   *)
(* drains the ring until a timeout or a signal ends it, while the traced   *)
(* processes fill the ring, and exit when they like.                       *)
(*                                                                         *)
(* What goes on inside the probe handlers is OsdProbes'; here a process    *)
(* whose probes are in place submits an event.  An event is its number,    *)
(* EventOf[e] says which process it comes from and of which kind it is.    *)
(***************************************************************************)
EXTENDS Naturals, Sequences, FiniteSets, FiniteSetsExt

CONSTANTS
  Pid,        \* process ids, never used twice
  Selections, \* values of target.pids; {} is every process of the executable
  Running,    \* processes that run when the tracer starts
  OsdOf,      \* OsdOf[p]: the OSD id on the command line of p
  Missing,    \* functions the DWARF data has no address for
  ProbeModes, \* values of probe_mode
  Timeouts,   \* BOOLEAN values: whether a timeout is set
  RING_SIZE,
  None,
  MaxEvents   \* bound: events produced

Unknown == "unknown"   \* the OSD id -1
AnyProcess == 0        \* process_id -1

Row(func, mode, exact) == [func |-> func, mode |-> mode, exact |-> exact]
Full(func) == Row(func, "FULL", FALSE)

FullModeFirst ==
  << "OSD::dequeue_op", "PrimaryLogPG::execute_ctx",
     "ReplicatedBackend::submit_transaction", "ECBackend::submit_transaction",
     "OpRequest::mark_flag_point_string", "OpRequest::mark_flag_point",
     "ReplicatedBackend::generate_subop", "ReplicatedBackend::do_repop_reply",
     "BlueStore::queue_transactions", "BlueStore::_txc_calc_cost",
     "BlueStore::_txc_state_proc", "BlueStore::_txc_add_transaction",
     "PrimaryLogPG::log_op_stats", "ReplicatedBackend::repop_commit" >>

RowsWith(functions) ==
  << Row("PrimaryLogPG::log_op_stats", "SINGLE", TRUE) >>
    \o [i \in 1 .. Len(functions) |-> Full(functions[i])]
    \o << Row("BlueStore::log_latency", "BLUESTORE", FALSE),
          Row("BlueStore::log_latency_fn", "BLUESTORE", FALSE) >>

EnqueueFirst == RowsWith(<< "OSD::enqueue_op" >> \o FullModeFirst)   \* mutant

ATTACH_LIST == RowsWith(Append(FullModeFirst, "OSD::enqueue_op"))

ASSUME TracerAssumption ==
  /\ Pid \subseteq Nat \ {AnyProcess} /\ Running \subseteq Pid
  /\ Selections \subseteq SUBSET Running
  /\ ProbeModes \subseteq SUBSET {"SINGLE", "FULL", "BLUESTORE"}
  /\ Timeouts \subseteq BOOLEAN /\ RING_SIZE \in Nat /\ MaxEvents \in Nat
  /\ None \notin Pid /\ \A p \in Pid : OsdOf[p] # Unknown

Event == 1 .. MaxEvents

VARIABLES
  probe_mode, timeout, pids,   \* options; pids is target.pids
  pc,        \* where the main thread is
  row, done, \* the row being attached, and the processes it is attached to
  attached,  \* rows attached
  links,     \* <<row, process>> pairs that are attached
  timeout_occurred,
  cache,     \* the arrays osds and pids: a sequence of [osd, pid]
  rb, rb_drops,
  handled, labels,  \* events printed, and the OSD ids printed with them
  reported,  \* the number of drops reported on the way out, or None
  started, alive,   \* processes that have run, and that still do
  eventOf,   \* eventOf[e]: the process and the kind of each event produced
  mark       \* events produced when the alarm went off, or None

options == <<probe_mode, timeout, pids>>
attaching == <<row, done, attached, links>>
ring == <<rb, rb_drops>>
output == <<cache, handled, labels, reported>>
env == <<started, alive, eventOf>>
vars == <<options, pc, attaching, timeout_occurred, ring, output, env, mark>>

\* "exited" after the final drain, "failed" with nothing attached, "killed" by
\* a signal.
PCs == {"attach", "loop", "drain", "drained", "sleep", "final", "leave",
        "exited", "failed", "killed"}
Over == pc \in {"exited", "failed", "killed"}

TypeOK ==
  /\ probe_mode \in ProbeModes /\ timeout \in BOOLEAN /\ pids \subseteq Pid
  /\ pc \in PCs
  /\ row \in 1 .. Len(ATTACH_LIST) + 1 /\ done \subseteq pids
  /\ attached \in 0 .. Len(ATTACH_LIST)
  /\ links \subseteq (1 .. Len(ATTACH_LIST)) \X (Pid \cup {AnyProcess})
  /\ timeout_occurred \in BOOLEAN
  /\ rb \in Seq(Event) /\ Len(rb) <= RING_SIZE /\ rb_drops \in Nat
  /\ handled \in Seq(Event) /\ Len(labels) = Len(handled)
  /\ reported \in Nat \cup {None}
  /\ alive \subseteq started /\ started \subseteq Pid
  /\ mark \in Nat \cup {None}

-----------------------------------------------------------------------------
(* Attaching                                                               *)

AnyRow(r) == ATTACH_LIST[r].mode \in probe_mode   \* mutant

Enabled(r) ==
  IF ATTACH_LIST[r].exact THEN probe_mode = {ATTACH_LIST[r].mode}
                          ELSE ATTACH_LIST[r].mode \in probe_mode

\* The first row from r on that is not skipped, or one past the last.
RowFrom(r) ==
  Min({i \in r .. Len(ATTACH_LIST) : Enabled(i)} \cup {Len(ATTACH_LIST) + 1})

Init ==
  /\ probe_mode \in ProbeModes /\ timeout \in Timeouts
  /\ pids \in Selections
  /\ pc = "attach" /\ row = RowFrom(1) /\ done = {} /\ attached = 0 /\ links = {}
  /\ timeout_occurred = FALSE
  /\ cache = << >> /\ rb = << >> /\ rb_drops = 0
  /\ handled = << >> /\ labels = << >> /\ reported = None
  /\ started = Running /\ alive = Running /\ eventOf = << >> /\ mark = None

NextRow == row' = RowFrom(row + 1) /\ done' = {}

\* attach_probe for one process, in the order of their ids, or for all of
\* them.  attach_probes gives the row up at the first that cannot be attached.
attach_probe ==
  /\ pc = "attach" /\ row <= Len(ATTACH_LIST)
  /\ LET p == IF pids = {} THEN AnyProcess ELSE Min(pids \ done)
         ok == /\ ATTACH_LIST[row].func \notin Missing
               /\ p = AnyProcess \/ p \in alive
     IN \/ /\ ok
           /\ links' = links \cup {<<row, p>>}
           /\ IF pids \subseteq done \cup {p}
                THEN NextRow /\ attached' = attached + 1
                ELSE done' = done \cup {p} /\ UNCHANGED <<row, attached>>
        \/ ~ok /\ NextRow /\ UNCHANGED <<links, attached>>
  /\ UNCHANGED <<options, pc, timeout_occurred, ring, output, env, mark>>

\* No row attached is an error; otherwise the ring is opened and the alarm set.
Start ==
  /\ pc = "attach" /\ row > Len(ATTACH_LIST)
  /\ pc' = IF attached = 0 THEN "failed" ELSE "loop"
  /\ UNCHANGED <<options, attaching, timeout_occurred, ring, output, env, mark>>

-----------------------------------------------------------------------------
(* The loop                                                                *)

LoopsForEver == TRUE   \* mutant
KeepsGoing == ~timeout_occurred \/ ~timeout

Loop ==
  /\ pc \in {"loop", "sleep"}
  /\ pc' = IF KeepsGoing THEN "drain" ELSE "final"
  /\ UNCHANGED <<options, attaching, timeout_occurred, ring, output, env, mark>>

exists(c, id) == \E i \in 1 .. Len(c) : c[i].osd = id

FirstCached(p) == IF cache = << >> THEN OsdOf[p] ELSE cache[1].osd   \* mutant

\* A cached id, else the one on the command line, which can be read while the
\* process lives.
osd_pid_to_id(p) ==
  LET hits == {i \in 1 .. Len(cache) : cache[i].pid = p}
  IN IF hits # {} THEN cache[Min(hits)].osd
     ELSE IF p \in alive THEN OsdOf[p] ELSE Unknown

CacheEvery(id, p) == Append(cache, [osd |-> id, pid |-> p])   \* mutant

CacheOnce(id, p) ==
  IF exists(cache, id) THEN cache ELSE Append(cache, [osd |-> id, pid |-> p])

\* Whether the process is looked up, and whether the event is then printed;
\* when it is not, the id -1 and the pid 0 go to the cache.
LooksUp(kind) == IF kind = "op" THEN probe_mode \cap {"SINGLE", "FULL"} # {}
                                ELSE "BLUESTORE" \in probe_mode
Prints(kind) == IF kind = "op" THEN probe_mode = {"SINGLE"} \/ "FULL" \in probe_mode
                               ELSE "BLUESTORE" \in probe_mode

handle_event(e) ==
  LET p == eventOf[e].pid
      known == LooksUp(eventOf[e].kind)
      id == IF known THEN osd_pid_to_id(p) ELSE Unknown
  IN /\ handled' = Append(handled, e) /\ labels' = Append(labels, id)
     /\ cache' = CacheOnce(id, IF known THEN p ELSE 0)

\* ring_buffer__consume hands over events until it finds the ring empty.
Consume ==
  /\ pc \in {"drain", "drained", "final"} /\ rb # << >>
  /\ handle_event(Head(rb))
  /\ rb' = Tail(rb)
  /\ pc' = IF pc = "drain" THEN "drained" ELSE pc
  /\ UNCHANGED <<options, attaching, timeout_occurred, rb_drops, reported, env, mark>>

\* It returns the number of events, and only none is followed by a sleep.
Return ==
  /\ pc \in {"drain", "drained"} /\ rb = << >>
  /\ pc' = IF pc = "drain" THEN "sleep" ELSE "loop"
  /\ UNCHANGED <<options, attaching, timeout_occurred, ring, output, env, mark>>

NoDrain == TRUE   \* mutant
DrainDone == rb = << >>

\* The end of the final drain.  The probes are still attached.
LastReturn ==
  /\ pc = "final" /\ DrainDone
  /\ pc' = "leave"
  /\ UNCHANGED <<options, attaching, timeout_occurred, ring, output, env, mark>>

\* Report the drops and leave.
Exit ==
  /\ pc = "leave"
  /\ pc' = "exited" /\ reported' = rb_drops
  /\ UNCHANGED <<options, attaching, timeout_occurred, ring, cache, handled,
                 labels, env, mark>>

MainStep ==
  attach_probe \/ Start \/ Loop \/ Consume \/ Return \/ LastReturn \/ Exit

\* SIGINT: the handler reports the drops and exits, wherever the thread is.
signal_handler ==
  /\ ~Over
  /\ pc' = "killed" /\ reported' = rb_drops
  /\ UNCHANGED <<options, attaching, timeout_occurred, ring, cache, handled,
                 labels, env, mark>>

timeout_handler ==
  /\ timeout /\ ~timeout_occurred /\ pc # "attach" /\ ~Over
  /\ timeout_occurred' = TRUE /\ mark' = Len(eventOf)
  /\ UNCHANGED <<options, pc, attaching, ring, output, env>>

-----------------------------------------------------------------------------
(* The traced processes                                                    *)

Linked(func, mode, p) ==
  \E r \in 1 .. Len(ATTACH_LIST) :
    /\ ATTACH_LIST[r].func = func /\ ATTACH_LIST[r].mode = mode
    /\ <<r, p>> \in links \/ <<r, AnyProcess>> \in links

\* Which probes it takes for a process to submit an event.
Submits(p, kind) ==
  IF kind = "op"
    THEN \/ Linked("PrimaryLogPG::log_op_stats", "SINGLE", p)
         \/ /\ Linked("OSD::enqueue_op", "FULL", p)
            /\ \/ Linked("PrimaryLogPG::log_op_stats", "FULL", p)
               \/ Linked("ReplicatedBackend::repop_commit", "FULL", p)
    ELSE \/ Linked("BlueStore::log_latency", "BLUESTORE", p)
         \/ Linked("BlueStore::log_latency_fn", "BLUESTORE", p)

NoLimit == TRUE   \* mutant
RingRoom == Len(rb) < RING_SIZE

NotCounted == rb_drops   \* mutant
count_rb_drop == rb_drops + 1

Submit(p, kind) ==
  /\ p \in alive /\ ~Over /\ Submits(p, kind)
  /\ Len(eventOf) < MaxEvents
  /\ eventOf' = Append(eventOf, [pid |-> p, kind |-> kind])
  /\ IF RingRoom
       THEN rb' = Append(rb, Len(eventOf) + 1) /\ UNCHANGED rb_drops
       ELSE rb_drops' = count_rb_drop /\ UNCHANGED rb
  /\ UNCHANGED <<options, pc, attaching, timeout_occurred, output, started, alive, mark>>

ProcessExits(p) ==
  /\ p \in alive /\ alive' = alive \ {p}
  /\ UNCHANGED <<options, pc, attaching, timeout_occurred, ring, output, started,
                 eventOf, mark>>

\* An OSD is started again, as a process of its own.
ProcessStarts(p) ==
  /\ p \notin started /\ \A q \in alive : OsdOf[q] # OsdOf[p]
  /\ started' = started \cup {p} /\ alive' = alive \cup {p}
  /\ UNCHANGED <<options, pc, attaching, timeout_occurred, ring, output, eventOf,
                 mark>>

Next ==
  \/ MainStep \/ signal_handler \/ timeout_handler
  \/ \E p \in Pid : \/ ProcessExits(p) \/ ProcessStarts(p)
                    \/ \E kind \in {"op", "bluestore"} : Submit(p, kind)

\* The main thread is scheduled and the alarm goes off.
Spec == Init /\ [][Next]_vars /\ WF_vars(MainStep) /\ WF_vars(timeout_handler)

-----------------------------------------------------------------------------
(* Properties                                                              *)

\* Every event is printed once, in order, or counted in rb_drops: what the
\* counting in the probes (osdtrace.bpf.c:82-87) and the drain loop
\* (osdtrace.cc:1718-1726) are for.
Channel == INSTANCE EventChannel WITH produced <- Len(eventOf), pending <- rb,
                                      delivered <- handled, lost <- rb_drops
Delivers == Channel!Spec

\* A timeout loses nothing: an event still in the ring when the tracer leaves
\* was produced after the alarm, the final drain (osdtrace.cc:1725) took the
\* others.
TimeoutLosesNothing ==
  pc = "exited" => \A i \in 1 .. Len(rb) : rb[i] > mark

\* A request is only tracked in a process all of whose probes are attached,
\* even if another process exits while they are: OSD::enqueue_op comes last
\* (osdtrace.cc:1603) and attach_probes visits processes in the same order
\* for every function.
TrackedCompletely ==
  \A p \in Pid : Linked("OSD::enqueue_op", "FULL", p) =>
    \A i \in 1 .. Len(FullModeFirst) :
      FullModeFirst[i] \in Missing \/ Linked(FullModeFirst[i], "FULL", p)

\* An event is printed under the id of the OSD it comes from, or under none
\* if the process was gone before its id was known, however ids were cached.
LabelledRight ==
  \A i \in 1 .. Len(handled) : LET p == eventOf[handled[i]].pid IN
    labels[i] = OsdOf[p] \/ (labels[i] = Unknown /\ p \notin alive)

\* The arrays osds and pids, written without a look at MAX_OSD, hold at most
\* one entry for each OSD, however often it restarts, and one for the unknown.
CacheFits ==
  \A i, j \in 1 .. Len(cache) : cache[i].osd = cache[j].osd => i = j

\* What is attached is also handled: no mode attaches a probe whose events
\* handle_event throws away.
NothingDiscarded ==
  \A i \in 1 .. Len(handled) : Prints(eventOf[handled[i]].kind)

\* A set timeout ends the tracer once the traced processes pause.
TimeoutStops == timeout_occurred ~> Over

\* "-a, --all  Trace ALL traceable ceph-osd processes on the host"
\* (doc/osdtrace.md:92): once attaching is over, each selected process that
\* is still running is traced.
AliveTargetsTraced ==
  pc \notin {"attach", "killed"} /\ "FULL" \in probe_mode =>
    \A p \in pids \cap alive : Linked("OSD::enqueue_op", "FULL", p)
=============================================================================
