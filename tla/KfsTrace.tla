------------------------------ MODULE KfsTrace ------------------------------
(***************************************************************************)
(* kfstrace: the probes on the kernel client's requests to OSDs and to     *)
(* MDSs, and the loop that polls their two rings.                          *)
(*                                                                         *)
(* A time stamp is the number of the send it was taken at; a latency is    *)
(* "fast" or "slow" against the threshold of -l, or "zero", less than one  *)
(* microsecond.  The handlers run on the CPUs the kernel client runs on,   *)
(* so each is split where another handler of the same request can come in  *)
(* between.                                                                *)
(***************************************************************************)
EXTENDS Naturals, Sequences, FiniteSets

CONSTANTS
  Req,            \* requests of all kernel clients
  KindOf,         \* "osd" or "mds"
  Writes,         \* the requests that get an unsafe reply first
  ClientOf, TidOf,\* client_id and tid; each kind is numbered by itself
  Mode,           \* -m: "osd", "mds" or "all"
  MAX_REQUESTS,   \* max_entries of pending_requests and pending_mds_requests
  RING_SIZE,
  None,
  MaxSends,       \* bound: how often a request is sent
  MaxCalls,       \* bound: calls of the send functions of all requests
  Killable,       \* bound: the requests that may be dropped
  UnsafeLatency, FinalLatency  \* bound: the latencies replies are given

Kinds == {"osd", "mds"}
KeyOf(r) == [kind |-> KindOf[r], client_id |-> ClientOf[r], tid |-> TidOf[r]]
Key == [kind : Kinds, client_id : {ClientOf[r] : r \in Req}, tid : {TidOf[r] : r \in Req}]

Latency == {"none", "zero", "fast", "slow"}

\* start_time or submit_time, attempts, and the first reply of an MDS.
Entry == [req : Req, first : Nat, attempts : Nat, unsafe : Latency]

\* A client does not use a number twice; None is no entry.
ASSUME KfsAssumption ==
  /\ KindOf \in [Req -> Kinds] /\ Mode \in {"osd", "mds", "all"} /\ Writes \subseteq Req /\ Killable \subseteq Req
  /\ \A r, s \in Req : KeyOf(r) = KeyOf(s) => r = s
  /\ MAX_REQUESTS \in Nat /\ RING_SIZE \in Nat /\ MaxCalls \in Nat /\ MaxSends \in [Req -> Nat]
  /\ UnsafeLatency \subseteq {"zero", "fast", "slow"}
  /\ FinalLatency \subseteq {"fast", "slow"}
  /\ None \notin Entry

VARIABLES
  pc,        \* where main is
  attached,  \* probes attached
  stop,      \* "timeout" when the -t seconds are over, "signal" when exiting is
             \* set; the first of them is enough
  pending,   \* both tables: an entry or None for each key
  rings,     \* rb and mds_rb
  rows,      \* what handle_event and handle_mds_event did with each event
  running,   \* handlers that are between their two steps, by the message or send
  stage, sends, delivered,  \* the clients: state, sends and messages received
  excuse,    \* why a request is not reported
  overlapped,\* requests two of whose handlers have overlapped
  announced  \* requests an unsafe reply has come for since their entry was made

main == <<pc, attached, stop>>
clients == <<stage, sends, delivered>>
ghosts == <<excuse, overlapped, announced>>
vars == <<main, pending, rings, rows, running, clients, ghosts>>

Message == [req : Req, n : Nat, type : {"reply", "unsafe", "safe", "forward"}]

\* The last field is the value an unsafe reply's handler has read.
Handler == [req : Req, n : Nat, type : {"send", "reply", "unsafe", "safe"},
            entry : Entry \cup {None}]
InStep(r, n, type, e) == [req |-> r, n |-> n, type |-> type, entry |-> e]

\* An entry as it was submitted; the last two fields are what the client knew:
\* the sends made, and whether an unsafe reply had come.
Event == [entry : Entry, latency : Latency, last : Nat, announced : BOOLEAN]

Probes ==
  (IF Mode \in {"osd", "all"} THEN << "send_request", "osd_dispatch" >> ELSE << >>)
  \o (IF Mode \in {"mds", "all"} THEN << "__prepare_send_request", "mds_dispatch" >>
      ELSE << >>)

Polled == (IF Mode \in {"osd", "all"} THEN {"osd"} ELSE {})
          \cup (IF Mode \in {"mds", "all"} THEN {"mds"} ELSE {})

TypeOK ==
  /\ pc \in {"attach", "osd", "osd more", "mds", "mds more", "exited"}
  /\ attached \in 0 .. Len(Probes) /\ stop \in {"no", "timeout", "signal"}
  /\ pending \in [Key -> Entry \cup {None}]
  /\ \A kind \in Kinds :
       Cardinality({k \in Key : k.kind = kind /\ pending[k] # None}) <= MAX_REQUESTS
  /\ rings \in [Kinds -> Seq(Event)] /\ \A kind \in Kinds : Len(rings[kind]) <= RING_SIZE
  /\ rows \in Seq([event : Event, shown : BOOLEAN])
  /\ running \subseteq Handler
  /\ stage \in [Req -> {"new", "flying", "unsafe", "done", "dropped"}]
  /\ sends \in [Req -> Nat] /\ delivered \subseteq Message
  /\ excuse \in [Req -> {"none", "no probe", "map full", "ring full"}]
  /\ overlapped \subseteq Req /\ announced \subseteq Req

Init ==
  /\ pc = "attach" /\ attached = 0 /\ stop = "no"
  /\ pending = [k \in Key |-> None]
  /\ rings = [kind \in Kinds |-> << >>] /\ rows = << >> /\ running = {}
  /\ stage = [r \in Req |-> "new"] /\ sends = [r \in Req |-> 0] /\ delivered = {}
  /\ excuse = [r \in Req |-> "none"] /\ overlapped = {} /\ announced = {}

-----------------------------------------------------------------------------
(* The probes                                                              *)

Probed(function) == pc # "exited" /\ \E i \in 1 .. attached : Probes[i] = function

DispatchFunction(r) == IF KindOf[r] = "osd" THEN "osd_dispatch" ELSE "mds_dispatch"

Present == {k \in Key : pending[k] # None}
NoLimit(kind) == TRUE   \* mutant
HasRoom(kind) == Cardinality({k \in Present : k.kind = kind}) < MAX_REQUESTS

InHandler(r) == \E h \in running : h.req = r
Overlap(r) == overlapped' = IF InHandler(r) THEN overlapped \cup {r} ELSE overlapped

Replaced(e, n) == [e EXCEPT !.first = n, !.attempts = 1, !.unsafe = "none"]   \* mutant
NotCounted(e, n) == e   \* mutant
Retried(e, n) == [e EXCEPT !.attempts = @ + 1]

\* initialize_kernel_trace_event and initialize_mds_trace_event.
Zeroed(r) == [req |-> r, first |-> 0, attempts |-> 0, unsafe |-> "none"]

\* A send the probe on function sees: a request that has an entry is sent again;
\* for another one an entry is made, if the table takes it.
Traced(r, function) ==
  \/ /\ ~Probed(function)
     /\ excuse' = [excuse EXCEPT ![r] = "no probe"]
     /\ UNCHANGED <<pending, running, overlapped, announced>>
  \/ /\ Probed(function) /\ KeyOf(r) \in Present
     /\ pending' = [pending EXCEPT ![KeyOf(r)] = Retried(@, sends[r] + 1)]
     /\ Overlap(r)
     /\ UNCHANGED <<running, excuse, announced>>
  \/ /\ Probed(function) /\ KeyOf(r) \notin Present /\ ~HasRoom(KindOf[r])
     /\ excuse' = [excuse EXCEPT ![r] = "map full"] /\ Overlap(r)
     /\ UNCHANGED <<pending, running, announced>>
  \/ /\ Probed(function) /\ KeyOf(r) \notin Present /\ HasRoom(KindOf[r])
     /\ pending' = [pending EXCEPT ![KeyOf(r)] = Zeroed(r)]
     /\ running' = running \cup {InStep(r, sends[r] + 1, "send", None)}
     /\ excuse' = [excuse EXCEPT ![r] = "none"] /\ Overlap(r)
     /\ announced' = announced \ {r}

\* A client sends a request again when the OSD map changes, when an MDS forwards
\* it or fails, or to replay what had only the unsafe reply.
Send(r) ==
  /\ pc # "exited" /\ stage[r] \notin {"done", "dropped"} /\ sends[r] < MaxSends[r]
  /\ ~\E h \in running : h.req = r /\ h.type = "send"
  /\ Cardinality({call \in Req \X (1 .. MaxCalls) : call[2] <= sends[call[1]]}) < MaxCalls
  /\ sends' = [sends EXCEPT ![r] = @ + 1]
  /\ stage' = [stage EXCEPT ![r] = IF @ = "new" THEN "flying" ELSE @]
  /\ UNCHANGED <<main, rings, rows, delivered>>

trace_send_request(r) == KindOf[r] = "osd" /\ Send(r) /\ Traced(r, "send_request")

trace_prepare_send_request(r) ==
  KindOf[r] = "mds" /\ Send(r) /\ Traced(r, "__prepare_send_request")

\* The rest of the two: the entry is filled in through the pointer, or what a
\* reply has deleted meanwhile.
Filled(h, kind) ==
  /\ pc # "exited" /\ h \in running /\ h.type = "send" /\ KindOf[h.req] = kind
  /\ running' = running \ {h}
  /\ pending' = [pending EXCEPT ![KeyOf(h.req)] =
                   IF @ = None THEN @ ELSE [@ EXCEPT !.first = h.n, !.attempts = 1]]
  /\ UNCHANGED <<main, rings, rows, clients, ghosts>>

OsdFilled(h) == Filled(h, "osd")
MdsFilled(h) == Filled(h, "mds")

Message_n(r, n, type) == [req |-> r, n |-> n, type |-> type]

\* A message for the n-th send of r comes in, and what the client makes of it:
\* only the answer to the latest send counts.  It comes after the send, a safe
\* reply after the unsafe one, and a forward instead of both.  One that finds
\* the request answered and no entry changes nothing and is left out.
Receive(r, n, type) ==
  LET m == Message_n(r, n, type) IN
    /\ pc # "exited" /\ n \in 1 .. sends[r] /\ m \notin delivered
    /\ stage[r] # "done" \/ KeyOf(r) \in Present
    /\ Message_n(r, n, "safe") \notin delivered /\ Message_n(r, n, "forward") \notin delivered
    /\ ~\E h \in running : h.req = r /\ h.n = n
    /\ type = "unsafe" => r \in Writes
    /\ type = "forward" => n < MaxSends[r] /\ Message_n(r, n, "unsafe") \notin delivered
    /\ delivered' = delivered \cup {m}
    /\ stage' = [stage EXCEPT ![r] =
                   IF n # sends[r] \/ @ \in {"done", "dropped"} THEN @
                   ELSE CASE type \in {"reply", "safe"} -> "done"
                          [] type = "unsafe" -> "unsafe"
                          [] OTHER -> @]
    /\ UNCHANGED <<main, rows, sends>>

NotCovered(r, n) ==
  IF n = sends[r] THEN [excuse EXCEPT ![r] = "no probe"] ELSE excuse

\* The dispatch function is not probed, or the table has nothing for the
\* message: it is not looked at.
Unknown(r, n, type) ==
  /\ \/ ~Probed(DispatchFunction(r)) /\ excuse' = NotCovered(r, n)
     \/ Probed(DispatchFunction(r)) /\ KeyOf(r) \notin Present /\ UNCHANGED excuse
  /\ UNCHANGED <<pending, rings, running, overlapped, announced>>

\* An answer that ends the request, until its entry is deleted: it is submitted,
\* or lost without a count when the ring is full.
Submit(r, n, type) ==
  LET ring == rings[KindOf[r]] IN
    /\ Probed(DispatchFunction(r)) /\ KeyOf(r) \in Present
    /\ running' = running \cup {InStep(r, n, type, None)}
    /\ \/ /\ Len(ring) < RING_SIZE /\ UNCHANGED excuse
          /\ \E latency \in FinalLatency :
               /\ pending[KeyOf(r)].unsafe = "slow" => latency = "slow"
               /\ rings' = [rings EXCEPT ![KindOf[r]] =
                    Append(ring, [entry |-> pending[KeyOf(r)], latency |-> latency,
                                  last |-> sends[r], announced |-> r \in announced])]
       \/ /\ Len(ring) = RING_SIZE /\ UNCHANGED rings
          /\ excuse' = [excuse EXCEPT ![r] = "ring full"]
    /\ Overlap(r) /\ UNCHANGED <<pending, announced>>

\* trace_osd_dispatch.  It does not ask for the type of the message: those that
\* are not replies carry no tid of a request.
trace_osd_dispatch(r, n) ==
  /\ KindOf[r] = "osd" /\ Receive(r, n, "reply")
  /\ Unknown(r, n, "reply") \/ Submit(r, n, "reply")

IsReply(type) == type # "forward"

\* An unsafe reply: the entry is written through the pointer, then once more as
\* a value of the table.
KeepPending(r, n) ==
  /\ Probed(DispatchFunction(r)) /\ KeyOf(r) \in Present
  /\ \E latency \in UnsafeLatency :
       LET e == [pending[KeyOf(r)] EXCEPT !.unsafe = latency] IN
         /\ pending' = [pending EXCEPT ![KeyOf(r)] = e]
         /\ running' = running \cup {InStep(r, n, "unsafe", e)}
  /\ announced' = announced \cup {r} /\ Overlap(r)
  /\ UNCHANGED <<rings, excuse>>

\* trace_mds_dispatch: only replies, and only the safe one ends the request.
\* What it takes for the safe flag of another message is not zero.
trace_mds_dispatch(r, n, type) ==
  /\ KindOf[r] = "mds" /\ Receive(r, n, type)
  /\ \/ Unknown(r, n, type)
     \/ /\ ~IsReply(type) /\ Probed(DispatchFunction(r)) /\ KeyOf(r) \in Present
        /\ UNCHANGED <<pending, rings, running, ghosts>>
     \/ IsReply(type) /\ type = "unsafe" /\ KeepPending(r, n)
     \/ IsReply(type) /\ type # "unsafe" /\ Submit(r, n, "safe")

WrittenAnyway(h) == {h.entry}   \* mutant

\* BPF_EXIST makes no entry of one that is gone.  Another handler may have
\* changed, or made anew, what this one read before.
WrittenBack(h) ==
  LET e == pending[KeyOf(h.req)] IN IF e = None THEN {None} ELSE {e, h.entry}

\* The rest of an unsafe reply.
UnsafeWritten(h) ==
  /\ pc # "exited" /\ h \in running /\ h.type = "unsafe"
  /\ running' = running \ {h}
  /\ \E e \in WrittenBack(h) : pending' = [pending EXCEPT ![KeyOf(h.req)] = e]
  /\ UNCHANGED <<main, rings, rows, clients, ghosts>>

SameTid(r) == {k \in Key : k.kind = KindOf[r] /\ k.tid = TidOf[r]}   \* mutant
NoneDeleted(r) == {}   \* mutant
Deleted(r) == {KeyOf(r)}

\* The rest of a final reply.
DispatchDeletes(h) ==
  /\ pc # "exited" /\ h \in running /\ h.type \in {"reply", "safe"}
  /\ running' = running \ {h}
  /\ pending' = [k \in Key |-> IF k \in Deleted(h.req) THEN None ELSE pending[k]]
  /\ UNCHANGED <<main, rings, rows, clients, ghosts>>

\* A request that is killed or times out in the client is dropped without a
\* call the probes see.
Drop(r) ==
  /\ pc # "exited" /\ r \in Killable /\ stage[r] \in {"flying", "unsafe"}
  /\ stage' = [stage EXCEPT ![r] = "dropped"]
  /\ UNCHANGED <<main, pending, rings, rows, running, sends, delivered, ghosts>>

-----------------------------------------------------------------------------
(* main                                                                    *)

Rest == <<pending, rings, rows, running, clients, ghosts>>

Attach ==
  /\ pc = "attach" /\ attached < Len(Probes) /\ attached' = attached + 1
  /\ UNCHANGED <<pc, stop, Rest>>

\* A probe that cannot be attached, or a ring that cannot be made, ends it.
AttachFails ==
  /\ pc = "attach" /\ pc' = "exited"
  /\ UNCHANGED <<attached, stop, Rest>>

NeverTimesOut == FALSE   \* mutant
TimeIsUp == stop = "timeout"

\* After the polls the time is looked at, then the while condition.
Again == IF TimeIsUp \/ stop = "signal" THEN "exited" ELSE "osd"
OneRing(kind) == Again   \* mutant
NextPoll(kind) == IF kind = "osd" THEN "mds" ELSE Again

Start ==
  /\ pc = "attach" /\ attached = Len(Probes)
  /\ pc' = IF stop = "signal" THEN "exited" ELSE "osd"
  /\ UNCHANGED <<attached, stop, Rest>>

Bytes(cls_op) == 169 + 3 * cls_op
cls_op == 8 + 32
cls_op_t == 16 + 32

\* Is the event printed?  The kernel's record of an OSD request is compared with
\* the declaration of user space (data_sz < sizeof(*event)), whose class names
\* are longer.
handle_event(event) == Bytes(cls_op) >= Bytes(cls_op_t) /\ event.latency = "slow"

\* The threshold is for the first reply, if there was one and it took time.
handle_mds_event(event) ==
  IF event.entry.unsafe \notin {"none", "zero"} THEN event.entry.unsafe = "slow"
  ELSE event.latency = "slow"

handle(kind) ==
  LET event == Head(rings[kind]) IN
    rows' = Append(rows, [event |-> event,
                          shown |-> IF kind = "osd" THEN handle_event(event)
                                    ELSE handle_mds_event(event)])

More(kind) == IF kind = "osd" THEN "osd more" ELSE "mds more"

\* ring_buffer__poll goes on until it finds the ring empty.
Poll(kind) ==
  /\ pc \in {kind, More(kind)} /\ kind \in Polled /\ rings[kind] # << >>
  /\ handle(kind)
  /\ rings' = [rings EXCEPT ![kind] = Tail(@)] /\ pc' = More(kind)
  /\ UNCHANGED <<attached, stop, pending, running, clients, ghosts>>

\* It found it empty, or waited 100 ms for nothing.  A ring that was not created
\* is not polled: its probes are not attached either, and it stays empty.
PollReturns(kind) ==
  /\ pc \in {kind, More(kind)} /\ rings[kind] = << >>
  /\ pc' = NextPoll(kind)
  /\ UNCHANGED <<attached, stop, Rest>>

MainStep ==
  \/ Attach \/ AttachFails \/ Start
  \/ \E kind \in Kinds : Poll(kind) \/ PollReturns(kind)

\* The -t seconds since the loop began are over.
TimePasses ==
  /\ pc \notin {"attach", "exited"} /\ stop = "no" /\ stop' = "timeout"
  /\ UNCHANGED <<pc, attached, Rest>>

\* SIGINT or SIGTERM: a poll that waits for events returns -EINTR, which leaves
\* the loop; one that is about to wait is not interrupted.
sig_handler ==
  /\ pc # "exited" /\ stop = "no" /\ stop' = "signal"
  /\ \/ UNCHANGED pc
     \/ /\ \E kind \in Polled : pc = kind /\ rings[kind] = << >>
        /\ pc' = "exited"
  /\ UNCHANGED <<attached, Rest>>

Next ==
  \/ MainStep \/ TimePasses \/ sig_handler
  \/ \E r \in Req : trace_send_request(r) \/ trace_prepare_send_request(r) \/ Drop(r)
  \/ \E r \in Req : \E n \in 1 .. MaxSends[r] : trace_osd_dispatch(r, n)
  \/ \E r \in Req : \E n \in 1 .. MaxSends[r], type \in {"unsafe", "safe", "forward"} :
       trace_mds_dispatch(r, n, type)
  \/ \E h \in running : OsdFilled(h) \/ MdsFilled(h) \/ UnsafeWritten(h) \/ DispatchDeletes(h)

Spec == Init /\ [][Next]_vars /\ WF_vars(MainStep)

-----------------------------------------------------------------------------
(* Properties                                                              *)

\* Events submitted, read or not.
Submitted ==
  {rows[i].event : i \in 1 .. Len(rows)}
  \cup UNION {{rings[kind][i] : i \in 1 .. Len(rings[kind])} : kind \in Kinds}

\* The sends an event is about.
SendsOf(event) == event.entry.first .. event.entry.first + event.entry.attempts - 1

\* An event counts every send from the one its latency starts with to the one
\* made last before it, however sends and late answers to earlier sends fall
\* (existing_info->attempts++ in trace_send_request and its twin).
AttemptsCounted ==
  \A event \in Submitted : event.entry.req \notin overlapped =>
    event.entry.first \in 1 .. event.last
    /\ event.entry.first + event.entry.attempts = event.last + 1

EventsOf(r) ==
  Cardinality({i \in 1 .. Len(rows) : rows[i].event.entry.req = r})
  + Cardinality({i \in 1 .. Len(rings[KindOf[r]]) : rings[KindOf[r]][i].entry.req = r})

\* No send is in two events: an answer to an earlier send closes the entry and
\* the answer that counts finds none, or one that a later send has opened.
SendsReportedOnce ==
  \A r \in Req \ overlapped :
    LET mine == {event \in Submitted : event.entry.req = r} IN
      /\ EventsOf(r) = Cardinality(mine)
      /\ \A e, f \in mine : e = f \/ SendsOf(e) \cap SendsOf(f) = {}

\* The unsafe reply that came is still known when the safe one is reported,
\* although the request may have been replayed in between
\* (trace_mds_dispatch, trace_prepare_send_request).
UnsafeReplyKept ==
  \A event \in Submitted : event.entry.req \notin overlapped =>
    (event.announced <=> event.entry.unsafe # "none")

\* The send that was answered is reported, or the table had no room when the
\* request was opened, the ring had none when it was answered, or the one or
\* the other was not probed yet.
AnswersReported ==
  \A r \in Req \ overlapped : stage[r] = "done" /\ excuse[r] = "none" =>
    \E event \in Submitted : event.entry.req = r /\ sends[r] \in SendsOf(event)

\* An entry, of which nothing evicts, ends with its request however its replies
\* overlap, unless the reply was not probed yet (bpf_map_update_elem with
\* BPF_EXIST, bpf_map_delete_elem).
EntriesReleased ==
  \A r \in Req : stage[r] = "done" /\ KeyOf(r) \in Present =>
    InHandler(r) \/ excuse[r] = "no probe"

\* Neither ring starves the other: what is in one is read, or kfstrace ends.
RingsDrained ==
  \A kind \in Polled : rings[kind] # << >> ~> rings[kind] = << >> \/ pc = "exited"

\* The timeout or a signal ends kfstrace, also while a poll waits.
Stops == stop # "no" ~> pc = "exited"

\* "OSD mode: Shows data requests to OSDs with latencies and operation details"
\* (kfstrace.cc:303): an OSD request above the threshold is shown.
OsdRowsShown ==
  \A i \in 1 .. Len(rows) :
    KindOf[rows[i].event.entry.req] = "osd" /\ rows[i].event.latency = "slow" =>
      rows[i].shown
=============================================================================
