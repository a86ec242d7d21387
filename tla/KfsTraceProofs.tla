--------------------------- MODULE KfsTraceProofs ---------------------------
(***************************************************************************)
(* Proofs about kfstrace: an event counts the sends it is about and knows  *)
(* the unsafe reply, no send is in two events, an answer is reported or    *)
(* accounted for, and entries end with their requests, for any number of   *)
(* requests, sends and CPUs.                                               *)
(***************************************************************************)
EXTENDS KfsTrace, FiniteSetTheorems, FunctionTheorems, SequenceTheorems, TLAPS

Row == [event : Event, shown : BOOLEAN]
Types == {"reply", "unsafe", "safe", "forward"}

PresentOf(kind) == {k \in Key : k.kind = kind /\ pending[k] # None}

Typed ==
  /\ pc \in {"attach", "osd", "osd more", "mds", "mds more", "exited"}
  /\ attached \in Nat /\ attached <= Len(Probes) /\ stop \in {"no", "timeout", "signal"}
  /\ pending \in [Key -> Entry \cup {None}]
  /\ rings \in [Kinds -> Seq(Event)] /\ \A kind \in Kinds : Len(rings[kind]) <= RING_SIZE
  /\ rows \in Seq(Row) /\ running \subseteq Handler
  /\ stage \in [Req -> {"new", "flying", "unsafe", "done", "dropped"}]
  /\ sends \in [Req -> Nat] /\ delivered \subseteq Message
  /\ excuse \in [Req -> {"none", "no probe", "map full", "ring full"}]
  /\ overlapped \subseteq Req /\ announced \subseteq Req

\* The tables are finite, also when there are requests without end.
Bounded ==
  \A kind \in Kinds :
    IsFiniteSet(PresentOf(kind)) /\ Cardinality(PresentOf(kind)) <= MAX_REQUESTS

TypeInv == Typed /\ Bounded

-----------------------------------------------------------------------------
(* The steps, without the difference between the two kinds of requests     *)

SendFunction(r) == IF KindOf[r] = "osd" THEN "send_request" ELSE "__prepare_send_request"

Sent(r) == Send(r) /\ Traced(r, SendFunction(r))

Dispatched(r, n, type) ==
  /\ Receive(r, n, type)
  /\ \/ Unknown(r, n, type)
     \/ type = "forward" /\ UNCHANGED <<pending, rings, running, ghosts>>
     \/ type = "unsafe" /\ KeepPending(r, n)
     \/ type \in {"reply", "safe"} /\ Submit(r, n, type)

Rewritten(h) ==
  \/ Filled(h, KindOf[h.req])
  \/ UnsafeWritten(h)
  \/ DispatchDeletes(h)

\* Steps of main and of the signals that leave the tables and the rings alone.
MainOnly ==
  /\ UNCHANGED Rest
  /\ attached' = attached \/ (attached < Len(Probes) /\ attached' = attached + 1)
  /\ pc' \in {"attach", "osd", "osd more", "mds", "mds more", "exited"}
  /\ stop' \in {"no", "timeout", "signal"}

\* KeyOf makes a key, which belongs to one request.
LEMMA KeyTyped == \A r \in Req : KeyOf(r) \in Key /\ KeyOf(r).kind = KindOf[r] /\ KindOf[r] \in Kinds
  BY KfsAssumption DEF KeyOf, Key, KfsAssumption

LEMMA KeysDiffer == \A r, s \in Req : r # s => KeyOf(r) # KeyOf(s)
  BY KfsAssumption DEF KfsAssumption

\* The number of probes (kfstrace.cc, the attach calls of the modes).
LEMMA ProbesTyped == Len(Probes) \in Nat
<1> DEFINE F == {"send_request", "osd_dispatch", "__prepare_send_request", "mds_dispatch"}
<1>1. << "send_request", "osd_dispatch" >> \in Seq(F)
  OBVIOUS
<1>2. << "__prepare_send_request", "mds_dispatch" >> \in Seq(F)
  OBVIOUS
<1>3. << >> \in Seq(F)
  OBVIOUS
<1> HIDE DEF F
<1>4. Probes \in Seq(F)
  BY <1>1, <1>2, <1>3, ConcatProperties, Zenon DEF Probes
<1> QED
  BY <1>4

\* Every step is one of these.
LEMMA Steps ==
  ASSUME Typed, [Next]_vars
  PROVE  \/ \E r \in Req : Sent(r)
         \/ \E r \in Req, n \in Nat, type \in Types : Dispatched(r, n, type)
         \/ \E h \in running : Rewritten(h)
         \/ \E r \in Req : Drop(r)
         \/ \E kind \in Kinds : Poll(kind)
         \/ MainOnly
<1>1. ASSUME NEW r \in Req, trace_send_request(r) \/ trace_prepare_send_request(r)
      PROVE  Sent(r)
  BY <1>1 DEF trace_send_request, trace_prepare_send_request, Sent, SendFunction
<1>2. ASSUME NEW r \in Req, NEW n \in 1 .. MaxSends[r], trace_osd_dispatch(r, n)
      PROVE  n \in Nat /\ Dispatched(r, n, "reply")
  <2>1. n \in Nat
    BY KfsAssumption DEF KfsAssumption
  <2>2. Receive(r, n, "reply") /\ (Unknown(r, n, "reply") \/ Submit(r, n, "reply"))
    BY <1>2 DEF trace_osd_dispatch
  <2> QED
    BY <2>1, <2>2 DEF Dispatched
<1>3. ASSUME NEW r \in Req, NEW n \in 1 .. MaxSends[r], NEW type \in {"unsafe", "safe", "forward"},
             trace_mds_dispatch(r, n, type)
      PROVE  n \in Nat /\ Dispatched(r, n, type)
  <2>1. n \in Nat
    BY KfsAssumption DEF KfsAssumption
  <2>2. /\ Receive(r, n, type)
        /\ \/ Unknown(r, n, type)
           \/ type = "forward" /\ UNCHANGED <<pending, rings, running, ghosts>>
           \/ type = "unsafe" /\ KeepPending(r, n)
           \/ type = "safe" /\ Submit(r, n, "safe")
    BY <1>3 DEF trace_mds_dispatch, IsReply
  <2> QED
    BY <2>1, <2>2 DEF Dispatched
<1>4. ASSUME NEW h \in running, OsdFilled(h) \/ MdsFilled(h) \/ UnsafeWritten(h) \/ DispatchDeletes(h)
      PROVE  Rewritten(h)
  BY <1>4 DEF OsdFilled, MdsFilled, Rewritten, Filled
<1>5. CASE Attach \/ AttachFails \/ Start \/ TimePasses \/ sig_handler \/ UNCHANGED vars
  <2>1. CASE Attach \/ AttachFails \/ Start
    BY <2>1 DEF Attach, AttachFails, Start, MainOnly, Typed
  <2>2. CASE TimePasses \/ sig_handler
    BY <2>2 DEF TimePasses, sig_handler, MainOnly, Typed
  <2>3. CASE UNCHANGED vars
    BY <2>3 DEF vars, main, MainOnly, Rest, Typed
  <2> QED
    BY <1>5, <2>1, <2>2, <2>3
<1>6. ASSUME NEW kind \in Kinds, PollReturns(kind)
      PROVE  MainOnly
  BY <1>6 DEF PollReturns, NextPoll, Again, MainOnly, Typed
<1> QED
  <2>1. CASE MainStep
    BY <1>5, <1>6, <2>1 DEF MainStep
  <2>2. CASE \E r \in Req : trace_send_request(r) \/ trace_prepare_send_request(r) \/ Drop(r)
    BY <1>1, <2>2
  <2>3. CASE \E r \in Req : \E n \in 1 .. MaxSends[r] : trace_osd_dispatch(r, n)
    BY <1>2, <2>3 DEF Types
  <2>4. CASE \E r \in Req : \E n \in 1 .. MaxSends[r], type \in {"unsafe", "safe", "forward"} :
               trace_mds_dispatch(r, n, type)
    BY <1>3, <2>4 DEF Types
  <2>5. CASE \E h \in running : OsdFilled(h) \/ MdsFilled(h) \/ UnsafeWritten(h) \/ DispatchDeletes(h)
    BY <1>4, <2>5
  <2> QED
    BY <1>5, <2>1, <2>2, <2>3, <2>4, <2>5 DEF Next

-----------------------------------------------------------------------------
(* Types                                                                   *)

\* The client's side of a message (Receive).
LEMMA ReceiveTyped ==
  ASSUME Typed, NEW r \in Req, NEW n \in Nat, NEW type \in Types, Receive(r, n, type)
  PROVE  /\ delivered' \subseteq Message
         /\ stage' \in [Req -> {"new", "flying", "unsafe", "done", "dropped"}]
         /\ sends' = sends /\ rows' = rows /\ UNCHANGED <<pc, attached, stop>>
<1>1. /\ delivered' = delivered \cup {Message_n(r, n, type)}
      /\ \E s : s \in {stage[r], "done", "unsafe"} /\ stage' = [stage EXCEPT ![r] = s]
      /\ sends' = sends /\ rows' = rows /\ UNCHANGED <<pc, attached, stop>>
  <2>1. stage' = [stage EXCEPT ![r] =
                   IF n # sends[r] \/ stage[r] \in {"done", "dropped"} THEN stage[r]
                   ELSE CASE type \in {"reply", "safe"} -> "done"
                          [] type = "unsafe" -> "unsafe"
                          [] OTHER -> stage[r]]
    BY DEF Receive
  <2>2. CASE n # sends[r] \/ stage[r] \in {"done", "dropped"}
    BY <2>1, <2>2 DEF Receive, main
  <2>3. CASE ~(n # sends[r] \/ stage[r] \in {"done", "dropped"}) /\ type \in {"reply", "safe"}
    BY <2>1, <2>3 DEF Receive, main
  <2>4. CASE ~(n # sends[r] \/ stage[r] \in {"done", "dropped"}) /\ type = "unsafe"
    BY <2>1, <2>4 DEF Receive, main
  <2>5. CASE ~(n # sends[r] \/ stage[r] \in {"done", "dropped"}) /\ type = "forward"
    BY <2>1, <2>5 DEF Receive, main
  <2> QED
    BY <2>2, <2>3, <2>4, <2>5 DEF Types
<1>2. Message_n(r, n, type) \in Message
  BY DEF Message_n, Message, Types
<1> QED
  BY <1>1, <1>2 DEF Typed

\* The event a final reply submits is a whole one.
LEMMA EventTyped ==
  ASSUME Typed, NEW r \in Req, NEW latency \in FinalLatency, KeyOf(r) \in Present
  PROVE  [entry |-> pending[KeyOf(r)], latency |-> latency,
          last |-> sends[r], announced |-> r \in announced] \in Event
<1>1. pending[KeyOf(r)] \in Entry /\ sends[r] \in Nat /\ latency \in Latency
  BY KeyTyped, KfsAssumption DEF Typed, Present, KfsAssumption, Latency
<1>2. (r \in announced) \in BOOLEAN
  OBVIOUS
<1> QED
  BY <1>1, <1>2 DEF Event

LEMMA SubmitTyped ==
  ASSUME Typed, NEW r \in Req, NEW n \in Nat, NEW type \in Types, Submit(r, n, type)
  PROVE  /\ rings' \in [Kinds -> Seq(Event)]
         /\ \A kind \in Kinds : Len(rings'[kind]) <= RING_SIZE
         /\ excuse' \in [Req -> {"none", "no probe", "map full", "ring full"}]
<1> DEFINE ring == rings[KindOf[r]]
<1>1. ring \in Seq(Event) /\ KindOf[r] \in Kinds
  BY KeyTyped DEF Typed
<1>2. CASE Len(ring) = RING_SIZE /\ rings' = rings /\ excuse' = [excuse EXCEPT ![r] = "ring full"]
  BY <1>2 DEF Typed
<1>3. ASSUME NEW latency \in FinalLatency, Len(ring) < RING_SIZE, excuse' = excuse,
             rings' = [rings EXCEPT ![KindOf[r]] =
               Append(ring, [entry |-> pending[KeyOf(r)], latency |-> latency,
                             last |-> sends[r], announced |-> r \in announced])]
      PROVE  /\ rings' \in [Kinds -> Seq(Event)]
             /\ \A kind \in Kinds : Len(rings'[kind]) <= RING_SIZE
             /\ excuse' \in [Req -> {"none", "no probe", "map full", "ring full"}]
  <2> DEFINE event == [entry |-> pending[KeyOf(r)], latency |-> latency,
                       last |-> sends[r], announced |-> r \in announced]
  <2>1. event \in Event
    BY EventTyped DEF Submit
  <2>2. rings' = [rings EXCEPT ![KindOf[r]] = Append(ring, event)]
    BY <1>3
  <2>3. RING_SIZE \in Nat /\ Len(ring) \in Nat
    BY <1>1, KfsAssumption DEF KfsAssumption
  <2> HIDE DEF event
  <2>4. Append(ring, event) \in Seq(Event) /\ Len(Append(ring, event)) = Len(ring) + 1
    BY <1>1, <2>1, AppendProperties
  <2> HIDE DEF ring
  <2>5. Len(Append(ring, event)) <= RING_SIZE
    BY <1>3, <2>3, <2>4
  <2> QED
    BY <1>1, <1>3, <2>2, <2>4, <2>5 DEF Typed
<1> QED
  BY <1>2, <1>3 DEF Submit

LEMMA TracedTyped ==
  ASSUME Typed, NEW r \in Req, Sent(r)
  PROVE  Typed'
<1>1. /\ sends' = [sends EXCEPT ![r] = @ + 1]
      /\ stage' = [stage EXCEPT ![r] = IF @ = "new" THEN "flying" ELSE @]
      /\ UNCHANGED <<pc, attached, stop, rings, rows, delivered>>
  BY DEF Sent, Send, main
<1>2. sends[r] \in Nat /\ KeyOf(r) \in Key
  BY KeyTyped DEF Typed
<1>3. Zeroed(r) \in Entry
  BY DEF Zeroed, Entry, Latency
<1>4. ASSUME KeyOf(r) \in Present  PROVE Retried(pending[KeyOf(r)], sends[r] + 1) \in Entry
  <2>1. pending[KeyOf(r)] \in Entry
    BY <1>2, <1>4 DEF Present, Typed
  <2> QED
    BY <2>1 DEF Retried, Entry
<1>5. pending' \in [Key -> Entry \cup {None}]
  BY <1>2, <1>3, <1>4 DEF Sent, Traced, Typed
<1>6. running' \subseteq Handler
  <2>1. InStep(r, sends[r] + 1, "send", None) \in Handler
    BY <1>2 DEF Handler, InStep
  <2>2. \/ running' = running
        \/ running' = running \cup {InStep(r, sends[r] + 1, "send", None)}
    BY DEF Sent, Traced
  <2> QED
    BY <2>1, <2>2 DEF Typed
<1>7. /\ excuse' \in [Req -> {"none", "no probe", "map full", "ring full"}]
      /\ overlapped' \subseteq Req /\ announced' \subseteq Req
  BY DEF Sent, Traced, Overlap, Typed
<1>8. sends' \in [Req -> Nat]
  <2>1. sends[r] + 1 \in Nat /\ sends \in [Req -> Nat]
    <3>1. sends \in [Req -> Nat]
      BY DEF Typed
    <3>2. \A n \in Nat : n + 1 \in Nat
      OBVIOUS
    <3> QED
      BY <1>2, <3>1, <3>2
  <2> QED
    BY <1>1, <2>1
<1>9. stage' \in [Req -> {"new", "flying", "unsafe", "done", "dropped"}]
  BY <1>1 DEF Typed
<1> QED
  BY <1>1, <1>5, <1>6, <1>7, <1>8, <1>9 DEF Typed

\* An unsafe reply is written into the entry, which its handler goes on to use.
LEMMA KeepPendingWrites ==
  ASSUME Typed, NEW r \in Req, NEW n \in Nat, KeepPending(r, n)
  PROVE  \E e \in Entry :
           /\ pending[KeyOf(r)] \in Entry /\ e.unsafe # "none"
           /\ e.req = pending[KeyOf(r)].req /\ e.first = pending[KeyOf(r)].first
           /\ e.attempts = pending[KeyOf(r)].attempts
           /\ pending' = [pending EXCEPT ![KeyOf(r)] = e]
           /\ running' = running \cup {InStep(r, n, "unsafe", e)}
<1>1. pending[KeyOf(r)] \in Entry
  BY KeyTyped DEF KeepPending, Present, Typed
<1>2. PICK latency \in UnsafeLatency :
        LET e == [pending[KeyOf(r)] EXCEPT !.unsafe = latency] IN
          /\ pending' = [pending EXCEPT ![KeyOf(r)] = e]
          /\ running' = running \cup {InStep(r, n, "unsafe", e)}
  BY DEF KeepPending
<1>3. latency \in Latency /\ latency # "none"
  BY KfsAssumption DEF KfsAssumption, Latency
<1> DEFINE e == [pending[KeyOf(r)] EXCEPT !.unsafe = latency]
<1>4. /\ e \in Entry /\ e.unsafe = latency /\ e.req = pending[KeyOf(r)].req
      /\ e.first = pending[KeyOf(r)].first /\ e.attempts = pending[KeyOf(r)].attempts
  BY <1>1, <1>3 DEF Entry
<1>5. /\ pending' = [pending EXCEPT ![KeyOf(r)] = e]
      /\ running' = running \cup {InStep(r, n, "unsafe", e)}
  BY <1>2
<1> HIDE DEF e
<1> QED
  BY <1>1, <1>3, <1>4, <1>5

LEMMA DispatchedTyped ==
  ASSUME Typed, NEW r \in Req, NEW n \in Nat, NEW type \in Types, Dispatched(r, n, type)
  PROVE  Typed'
<1>1. Receive(r, n, type)
  BY DEF Dispatched
<1>2. CASE Unknown(r, n, type)
  <2>1. /\ excuse' \in [Req -> {"none", "no probe", "map full", "ring full"}]
        /\ UNCHANGED <<pending, rings, running, overlapped, announced>>
    BY <1>2 DEF Unknown, NotCovered, Typed
  <2> QED
    BY <1>1, <2>1, ReceiveTyped DEF Typed
<1>3. CASE UNCHANGED <<pending, rings, running, ghosts>>
  BY <1>1, <1>3, ReceiveTyped DEF ghosts, Typed
<1>4. CASE KeepPending(r, n)
  <2>1. PICK e \in Entry : /\ running' = running \cup {InStep(r, n, "unsafe", e)}
                           /\ pending' = [pending EXCEPT ![KeyOf(r)] = e]
    BY <1>4, KeepPendingWrites
  <2>2. InStep(r, n, "unsafe", e) \in Handler
    BY DEF Handler, InStep
  <2>3. /\ running' \subseteq Handler /\ announced' \subseteq Req /\ overlapped' \subseteq Req
        /\ pending' \in [Key -> Entry \cup {None}]
        /\ UNCHANGED <<rings, excuse>>
    BY <1>4, <2>1, <2>2 DEF KeepPending, Overlap, Typed
  <2> QED
    BY <1>1, <2>3, ReceiveTyped DEF Typed
<1>5. CASE type \in {"reply", "safe"} /\ Submit(r, n, type)
  <2>1. InStep(r, n, type, None) \in Handler
    BY <1>5 DEF Handler, InStep
  <2>2. /\ running' \subseteq Handler /\ overlapped' \subseteq Req
        /\ UNCHANGED <<pending, announced>>
    BY <1>5, <2>1 DEF Submit, Overlap, Typed
  <2> QED
    BY <1>1, <1>5, <2>2, ReceiveTyped, SubmitTyped DEF Typed
<1> QED
  BY <1>2, <1>3, <1>4, <1>5 DEF Dispatched

LEMMA RewrittenTyped ==
  ASSUME Typed, NEW h \in running, Rewritten(h)
  PROVE  Typed'
<1>1. h \in Handler /\ h.req \in Req /\ h.n \in Nat /\ KeyOf(h.req) \in Key
  BY KeyTyped DEF Typed, Handler
<1>2. running' \subseteq Handler /\ UNCHANGED <<pc, attached, stop, rings, rows, clients, ghosts>>
  BY DEF Rewritten, Filled, UnsafeWritten, DispatchDeletes, Typed, main
<1>3. pending' \in [Key -> Entry \cup {None}]
  <2>1. pending[KeyOf(h.req)] \in Entry \cup {None}
    BY <1>1 DEF Typed
  <2>2. CASE Filled(h, KindOf[h.req])
    <3>1. pending[KeyOf(h.req)] # None =>
            [pending[KeyOf(h.req)] EXCEPT !.first = h.n, !.attempts = 1] \in Entry
      BY <1>1, <2>1 DEF Entry
    <3> QED
      BY <1>1, <2>1, <2>2, <3>1 DEF Filled, Typed
  <2>3. CASE UnsafeWritten(h)
    <3>1. PICK e \in WrittenBack(h) : pending' = [pending EXCEPT ![KeyOf(h.req)] = e]
      BY <2>3 DEF UnsafeWritten
    <3>2. e \in Entry \cup {None}
      BY <1>1, <2>1 DEF WrittenBack, Handler
    <3> QED
      BY <1>1, <3>1, <3>2 DEF Typed
  <2>4. CASE DispatchDeletes(h)
    BY <2>4 DEF DispatchDeletes, Typed
  <2> QED
    BY <2>2, <2>3, <2>4 DEF Rewritten
<1> QED
  BY <1>2, <1>3 DEF clients, ghosts, Typed

LEMMA PollTyped ==
  ASSUME Typed, NEW kind \in Kinds, Poll(kind)
  PROVE  Typed'
<1> DEFINE ring == rings[kind]
           shown == IF kind = "osd" THEN handle_event(Head(ring)) ELSE handle_mds_event(Head(ring))
<1>1. ring \in Seq(Event) /\ ring # << >>
  BY DEF Poll, Typed
<1>2. /\ rows' = Append(rows, [event |-> Head(ring), shown |-> shown])
      /\ rings' = [rings EXCEPT ![kind] = Tail(ring)]
      /\ pc' = More(kind) /\ UNCHANGED <<attached, stop, pending, running, clients, ghosts>>
  BY DEF Poll, handle
<1>3. shown \in BOOLEAN
  BY DEF handle_event, handle_mds_event
<1>4. Head(ring) \in Event /\ Tail(ring) \in Seq(Event) /\ Len(Tail(ring)) = Len(ring) - 1
      /\ Len(ring) \in Nat
  <2> HIDE DEF ring
  <2> QED
    BY <1>1, HeadTailProperties
<1> HIDE DEF ring, shown
<1>5. [event |-> Head(ring), shown |-> shown] \in Row
  BY <1>3, <1>4 DEF Row
<1>6. rows' \in Seq(Row)
  <2> DEFINE row == [event |-> Head(ring), shown |-> shown]
  <2>1. row \in Row /\ rows' = Append(rows, row) /\ rows \in Seq(Row)
    BY <1>2, <1>5 DEF Typed
  <2> HIDE DEF row
  <2> QED
    BY <2>1, AppendProperties
<1>7. \A k \in Kinds : Len(rings'[k]) <= RING_SIZE
  <2>1. RING_SIZE \in Nat /\ Len(ring) <= RING_SIZE
    BY KfsAssumption DEF KfsAssumption, Typed, ring
  <2>2. Len(Tail(ring)) <= RING_SIZE
    BY <1>4, <2>1
  <2> QED
    BY <1>2, <2>2 DEF Typed
<1>8. rings' \in [Kinds -> Seq(Event)]
  BY <1>2, <1>4 DEF Typed
<1>9. pc' \in {"osd more", "mds more"}
  BY <1>2 DEF More
<1> QED
  BY <1>2, <1>6, <1>7, <1>8, <1>9 DEF clients, ghosts, Typed

LEMMA TypedNext == Typed /\ [Next]_vars => Typed'
<1> SUFFICES ASSUME Typed, [Next]_vars  PROVE Typed'
  OBVIOUS
<1>1. ASSUME NEW r \in Req, Drop(r)  PROVE Typed'
  BY <1>1 DEF Drop, Typed, main, ghosts
<1>2. CASE MainOnly
  <2>1. attached' \in Nat /\ attached' <= Len(Probes)
    <3> DEFINE all == Len(Probes)
    <3>1. all \in Nat /\ attached \in Nat /\ attached <= all
          /\ (attached' = attached \/ (attached < all /\ attached' = attached + 1))
      BY <1>2, ProbesTyped DEF MainOnly, Typed
    <3> HIDE DEF all
    <3>2. attached' \in Nat /\ attached' <= all
      BY <3>1
    <3> QED
      BY <3>2 DEF all
  <2> QED
    BY <1>2, <2>1 DEF MainOnly, Rest, clients, ghosts, Typed
<1> QED
  BY <1>1, <1>2, Steps, TracedTyped, DispatchedTyped, RewrittenTyped, PollTyped

\* An entry is only made when the table has room (HasRoom); none is made twice.
LEMMA BoundedNext ==
  ASSUME Typed, Bounded, [Next]_vars
  PROVE  Bounded'
<1>1. ASSUME \A k \in Key : pending'[k] # None => pending[k] # None
      PROVE  Bounded'
  <2> SUFFICES ASSUME NEW kind \in Kinds
               PROVE  IsFiniteSet(PresentOf(kind)') /\ Cardinality(PresentOf(kind)') <= MAX_REQUESTS
    BY DEF Bounded
  <2>1. PresentOf(kind)' \in SUBSET PresentOf(kind)
    BY <1>1 DEF PresentOf
  <2>2. /\ IsFiniteSet(PresentOf(kind)') /\ IsFiniteSet(PresentOf(kind))
        /\ Cardinality(PresentOf(kind)') <= Cardinality(PresentOf(kind))
    BY <2>1, FS_Subset DEF Bounded
  <2>3. /\ Cardinality(PresentOf(kind)') \in Nat /\ Cardinality(PresentOf(kind)) \in Nat
        /\ Cardinality(PresentOf(kind)) <= MAX_REQUESTS /\ MAX_REQUESTS \in Nat
    BY <2>2, FS_CardinalityType, KfsAssumption DEF Bounded, KfsAssumption
  <2> DEFINE new == Cardinality(PresentOf(kind)')  old == Cardinality(PresentOf(kind))
  <2>4. new \in Nat /\ old \in Nat /\ new <= old /\ old <= MAX_REQUESTS /\ MAX_REQUESTS \in Nat
    BY <2>2, <2>3
  <2> HIDE DEF new, old
  <2>5. new <= MAX_REQUESTS
    BY <2>4
  <2> QED
    BY <2>2, <2>5 DEF new
<1>2. ASSUME NEW r \in Req, Sent(r)
      PROVE  Bounded'
  <2>1. KeyOf(r) \in Key /\ KeyOf(r).kind = KindOf[r] /\ KindOf[r] \in Kinds
    BY KeyTyped
  <2>2. ASSUME \/ pending' = pending
               \/ /\ KeyOf(r) \in Present
                  /\ pending' = [pending EXCEPT ![KeyOf(r)] = Retried(@, sends[r] + 1)]
        PROVE  Bounded'
    <3>1. \A k \in Key : pending'[k] # None => pending[k] # None
      BY <2>2 DEF Typed, Present
    <3> QED
      BY <1>1, <3>1
  <2>3. CASE /\ KeyOf(r) \notin Present /\ HasRoom(KindOf[r])
             /\ pending' = [pending EXCEPT ![KeyOf(r)] = Zeroed(r)]
    <3> SUFFICES ASSUME NEW kind \in Kinds
                 PROVE  /\ IsFiniteSet(PresentOf(kind)')
                        /\ Cardinality(PresentOf(kind)') <= MAX_REQUESTS
      BY DEF Bounded
    <3>1. Zeroed(r) # None
      <4>1. Zeroed(r) \in Entry
        BY DEF Zeroed, Entry, Latency
      <4> QED
        BY <4>1, KfsAssumption DEF KfsAssumption
    <3>2. \A k \in Key : pending'[k] # None <=> pending[k] # None \/ k = KeyOf(r)
      BY <2>1, <2>3, <3>1 DEF Typed
    <3>3. CASE kind # KindOf[r]
      <4>1. PresentOf(kind)' = PresentOf(kind)
        BY <2>1, <3>2, <3>3 DEF PresentOf
      <4> QED
        BY <4>1 DEF Bounded
    <3>4. CASE kind = KindOf[r]
      <4> DEFINE there == PresentOf(kind)
      <4>1. PresentOf(kind)' = there \cup {KeyOf(r)} /\ KeyOf(r) \notin there
        BY <2>1, <2>3, <3>2, <3>4 DEF PresentOf, Present
      <4>2. IsFiniteSet(there)
        BY DEF Bounded
      <4>3. {k \in Present : k.kind = kind} = there
        BY DEF Present, PresentOf
      <4>4. Cardinality(there) < MAX_REQUESTS /\ MAX_REQUESTS \in Nat
        BY <2>3, <3>4, <4>3, KfsAssumption DEF HasRoom, KfsAssumption
      <4> HIDE DEF there
      <4>5. /\ IsFiniteSet(there \cup {KeyOf(r)}) /\ Cardinality(there) \in Nat
            /\ Cardinality(there \cup {KeyOf(r)}) = Cardinality(there) + 1
        BY <4>1, <4>2, FS_AddElement, FS_CardinalityType
      <4> QED
        BY <4>1, <4>4, <4>5
    <3> QED
      BY <3>3, <3>4
  <2>4. \/ pending' = pending
        \/ /\ KeyOf(r) \in Present
           /\ pending' = [pending EXCEPT ![KeyOf(r)] = Retried(@, sends[r] + 1)]
        \/ /\ KeyOf(r) \notin Present /\ HasRoom(KindOf[r])
           /\ pending' = [pending EXCEPT ![KeyOf(r)] = Zeroed(r)]
    BY <1>2 DEF Sent, Traced
  <2> QED
    BY <2>2, <2>3, <2>4
<1>3. ASSUME NEW h \in running, Rewritten(h)
      PROVE  Bounded'
  <2>1. KeyOf(h.req) \in Key
    BY KeyTyped DEF Typed, Handler
  <2>2. \A k \in Key : pending'[k] # None => pending[k] # None
    <3>1. CASE Filled(h, KindOf[h.req])
      BY <2>1, <3>1 DEF Filled, Typed
    <3>2. CASE UnsafeWritten(h)
      BY <2>1, <3>2 DEF UnsafeWritten, WrittenBack, Typed
    <3>3. CASE DispatchDeletes(h)
      BY <3>3 DEF DispatchDeletes, Typed
    <3> QED
      BY <1>3, <3>1, <3>2, <3>3 DEF Rewritten
  <2> QED
    BY <1>1, <2>2
<1>4. ASSUME pending' = pending  PROVE Bounded'
  BY <1>1, <1>4
<1>5. ASSUME NEW r \in Req, NEW n \in Nat, NEW type \in Types, Dispatched(r, n, type)
      PROVE  \A k \in Key : pending'[k] # None => pending[k] # None
  <2>1. CASE KeepPending(r, n)
    <3>1. PICK e \in Entry : /\ pending[KeyOf(r)] \in Entry
                             /\ pending' = [pending EXCEPT ![KeyOf(r)] = e]
      BY <2>1, KeepPendingWrites
    <3> QED
      BY <3>1, KfsAssumption DEF KfsAssumption, Typed
  <2>2. CASE pending' = pending
    BY <2>2
  <2> QED
    BY <1>5, <2>1, <2>2 DEF Dispatched, Unknown, Submit
<1>6. ASSUME (\E r \in Req : Drop(r)) \/ (\E kind \in Kinds : Poll(kind)) \/ MainOnly
      PROVE  pending' = pending
  BY <1>6 DEF Drop, Poll, MainOnly, Rest
<1> QED
  BY <1>1, <1>2, <1>3, <1>4, <1>5, <1>6, Steps

LEMMA TypeInvInit == Init => TypeInv
<1> SUFFICES ASSUME Init  PROVE TypeInv
  OBVIOUS
<1>1. Typed
  <2>1. << >> \in Seq(Event) /\ Len(<< >>) = 0 /\ << >> \in Seq(Row)
    OBVIOUS
  <2>2. RING_SIZE \in Nat
    BY KfsAssumption DEF KfsAssumption
  <2>3. rings \in [Kinds -> Seq(Event)] /\ \A kind \in Kinds : Len(rings[kind]) <= RING_SIZE
    BY <2>1, <2>2 DEF Init
  <2>4. attached \in Nat /\ attached <= Len(Probes)
    BY ProbesTyped DEF Init
  <2> QED
    BY <2>1, <2>3, <2>4 DEF Init, Typed
<1>2. \A kind \in Kinds : PresentOf(kind) = {}
  BY DEF Init, PresentOf
<1>3. MAX_REQUESTS \in Nat /\ IsFiniteSet({}) /\ Cardinality({}) = 0
  BY FS_EmptySet, KfsAssumption DEF KfsAssumption
<1>4. Bounded
  BY <1>2, <1>3 DEF Bounded
<1> QED
  BY <1>1, <1>4 DEF TypeInv

LEMMA TypeInvNext == TypeInv /\ [Next]_vars => TypeInv'
  BY TypedNext, BoundedNext DEF TypeInv

\* The variables keep their types, and neither table holds more than it may
\* (trace_send_request and __prepare_send_request, bpf_map_update_elem).
THEOREM TypeCorrect == Spec => []TypeOK
<1>1. TypeInv => TypeOK
  <2> SUFFICES ASSUME TypeInv  PROVE TypeOK
    OBVIOUS
  <2>1. attached \in 0 .. Len(Probes)
    <3> DEFINE all == Len(Probes)
    <3>1. all \in Nat /\ attached \in Nat /\ attached <= all
      BY ProbesTyped DEF TypeInv, Typed
    <3> HIDE DEF all
    <3>2. attached \in 0 .. all
      BY <3>1
    <3> QED
      BY <3>2 DEF all
  <2>2. \A kind \in Kinds :
          Cardinality({k \in Key : k.kind = kind /\ pending[k] # None}) <= MAX_REQUESTS
    BY DEF TypeInv, Bounded, PresentOf
  <2> QED
    BY <2>1, <2>2 DEF TypeInv, Typed, TypeOK, Row
<1> QED
  BY <1>1, TypeInvInit, TypeInvNext, PTL DEF Spec

-----------------------------------------------------------------------------
(* What has been submitted                                                 *)

InRows == {rows[i].event : i \in 1 .. Len(rows)}
InRing(kind) == {rings[kind][i] : i \in 1 .. Len(rings[kind])}

\* The event a final reply to r submits (bpf_ringbuf_reserve and the copy).
NewEvent(r, latency) ==
  [entry |-> pending[KeyOf(r)], latency |-> latency,
   last |-> sends[r], announced |-> r \in announced]

LEMMA SubmittedIs == Submitted = InRows \cup UNION {InRing(kind) : kind \in Kinds}
  BY DEF Submitted, InRows, InRing

LEMMA AppendIndices ==
  ASSUME NEW S, NEW s \in Seq(S), NEW e \in S
  PROVE  /\ Len(s) \in Nat /\ Len(Append(s, e)) = Len(s) + 1
         /\ \A i \in 1 .. Len(s) : i \in 1 .. Len(Append(s, e)) /\ Append(s, e)[i] = s[i]
         /\ Len(s) + 1 \in 1 .. Len(Append(s, e)) /\ Append(s, e)[Len(s) + 1] = e
         /\ \A i \in 1 .. Len(Append(s, e)) : i \in 1 .. Len(s) \/ i = Len(s) + 1
<1>1. Len(s) \in Nat /\ Len(Append(s, e)) = Len(s) + 1
  BY AppendProperties
<1>2. /\ \A i \in 1 .. Len(s) : Append(s, e)[i] = s[i]
      /\ Append(s, e)[Len(s) + 1] = e
  BY AppendProperties
<1> DEFINE n == Len(s)
<1> HIDE DEF n
<1>3. n \in Nat => /\ \A i \in 1 .. n : i \in 1 .. n + 1
                   /\ n + 1 \in 1 .. n + 1
                   /\ \A i \in 1 .. n + 1 : i \in 1 .. n \/ i = n + 1
  OBVIOUS
<1> QED
  BY <1>1, <1>2, <1>3 DEF n

LEMMA TailIndices ==
  ASSUME NEW S, NEW s \in Seq(S), s # << >>
  PROVE  /\ Len(s) \in Nat \ {0} /\ Len(Tail(s)) = Len(s) - 1 /\ Head(s) = s[1]
         /\ 1 \in 1 .. Len(s) /\ Tail(s) \in Seq(S)
         /\ \A i \in 1 .. Len(Tail(s)) : i + 1 \in 1 .. Len(s) /\ Tail(s)[i] = s[i + 1]
         /\ \A i \in 1 .. Len(s) : i = 1 \/ (i - 1 \in 1 .. Len(Tail(s)) /\ Tail(s)[i - 1] = s[i])
<1>1. Len(s) \in Nat \ {0} /\ Len(Tail(s)) = Len(s) - 1 /\ Head(s) = s[1] /\ Tail(s) \in Seq(S)
  BY EmptySeq, HeadTailProperties
<1>2. \A i \in 1 .. Len(Tail(s)) : Tail(s)[i] = s[i + 1]
  BY HeadTailProperties
<1> DEFINE n == Len(s)
<1> HIDE DEF n
<1>3. n \in Nat \ {0} => /\ 1 \in 1 .. n /\ \A i \in 1 .. n - 1 : i + 1 \in 1 .. n
                         /\ \A i \in 1 .. n : i = 1 \/ (i - 1 \in 1 .. n - 1 /\ (i - 1) + 1 = i)
  OBVIOUS
<1> QED
  BY <1>1, <1>2, <1>3 DEF n

LEMMA ElementsAppend ==
  ASSUME NEW S, NEW s \in Seq(S), NEW e \in S
  PROVE  {Append(s, e)[i] : i \in 1 .. Len(Append(s, e))} = {s[i] : i \in 1 .. Len(s)} \cup {e}
<1> DEFINE t == Append(s, e)
<1>1. /\ \A i \in 1 .. Len(s) : i \in 1 .. Len(t) /\ t[i] = s[i]
      /\ Len(s) + 1 \in 1 .. Len(t) /\ t[Len(s) + 1] = e
      /\ \A i \in 1 .. Len(t) : i \in 1 .. Len(s) \/ i = Len(s) + 1
  BY AppendIndices
<1> HIDE DEF t
<1>2. ASSUME NEW i \in 1 .. Len(t)  PROVE t[i] \in {s[j] : j \in 1 .. Len(s)} \cup {e}
  BY <1>1
<1>3. ASSUME NEW i \in 1 .. Len(s)  PROVE s[i] \in {t[j] : j \in 1 .. Len(t)}
  BY <1>1
<1>4. e \in {t[j] : j \in 1 .. Len(t)}
  BY <1>1
<1>5. {t[i] : i \in 1 .. Len(t)} = {s[i] : i \in 1 .. Len(s)} \cup {e}
  BY <1>2, <1>3, <1>4
<1> QED
  BY <1>5 DEF t

LEMMA ElementsTail ==
  ASSUME NEW S, NEW s \in Seq(S), s # << >>
  PROVE  {s[i] : i \in 1 .. Len(s)} = {Tail(s)[i] : i \in 1 .. Len(Tail(s))} \cup {Head(s)}
<1> DEFINE t == Tail(s)  e == Head(s)
<1>1. /\ e = s[1] /\ 1 \in 1 .. Len(s)
      /\ \A i \in 1 .. Len(t) : i + 1 \in 1 .. Len(s) /\ t[i] = s[i + 1]
      /\ \A i \in 1 .. Len(s) : i = 1 \/ (i - 1 \in 1 .. Len(t) /\ t[i - 1] = s[i])
  BY TailIndices
<1> HIDE DEF t, e
<1>2. ASSUME NEW i \in 1 .. Len(s)  PROVE s[i] \in {t[j] : j \in 1 .. Len(t)} \cup {e}
  BY <1>1
<1>3. ASSUME NEW i \in 1 .. Len(t)  PROVE t[i] \in {s[j] : j \in 1 .. Len(s)}
  BY <1>1
<1>4. e \in {s[j] : j \in 1 .. Len(s)}
  BY <1>1
<1>5. {s[i] : i \in 1 .. Len(s)} = {t[i] : i \in 1 .. Len(t)} \cup {e}
  BY <1>2, <1>3, <1>4
<1> QED
  BY <1>5 DEF t, e

\* The row of an event that is read (handle_event, handle_mds_event).
LEMMA PollRow ==
  ASSUME Typed, NEW kind \in Kinds, Poll(kind)
  PROVE  \E row \in Row : row.event = Head(rings[kind]) /\ rows' = Append(rows, row)
<1> DEFINE ring == rings[kind]
<1>1. ring \in Seq(Event) /\ ring # << >>
  BY DEF Poll, Typed
<1> DEFINE shown == IF kind = "osd" THEN handle_event(Head(ring)) ELSE handle_mds_event(Head(ring))
           row == [event |-> Head(ring), shown |-> shown]
<1>2. shown \in BOOLEAN
  BY DEF handle_event, handle_mds_event
<1>3. Head(ring) \in Event
  <2> HIDE DEF ring
  <2> QED
    BY <1>1, HeadTailProperties
<1>4. row \in Row /\ row.event = Head(ring)
  BY <1>2, <1>3 DEF Row
<1>5. rows' = Append(rows, row)
  BY DEF Poll, handle
<1> QED
  BY <1>4, <1>5

\* Poll moves an event from the ring to the rows.
LEMMA PollKeepsEvents ==
  ASSUME Typed, NEW kind \in Kinds, Poll(kind)
  PROVE  Submitted' = Submitted
<1> DEFINE ring == rings[kind]
<1>1. /\ ring \in Seq(Event) /\ ring # << >> /\ rows \in Seq(Row)
      /\ rings' = [rings EXCEPT ![kind] = Tail(ring)] /\ rings \in [Kinds -> Seq(Event)]
  BY DEF Poll, Typed
<1>2. \E row \in Row : row.event = Head(ring) /\ rows' = Append(rows, row)
  BY PollRow
<1>3. InRows' = InRows \cup {Head(ring)}
  <2>1. PICK row \in Row : row.event = Head(ring) /\ rows' = Append(rows, row)
    BY <1>2
  <2> HIDE DEF ring
  <2>2. /\ \A i \in 1 .. Len(rows) : i \in 1 .. Len(rows') /\ rows'[i] = rows[i]
        /\ Len(rows) + 1 \in 1 .. Len(rows') /\ rows'[Len(rows) + 1] = row
        /\ \A i \in 1 .. Len(rows') : i \in 1 .. Len(rows) \/ i = Len(rows) + 1
    BY <1>1, <2>1, AppendIndices
  <2> QED
    BY <2>1, <2>2, Zenon DEF InRows
<1>4. InRing(kind) = InRing(kind)' \cup {Head(ring)}
  <2>1. rings'[kind] = Tail(ring)
    BY <1>1
  <2>2. InRing(kind) = {ring[i] : i \in 1 .. Len(ring)}
    BY DEF InRing
  <2>3. InRing(kind)' = {Tail(ring)[i] : i \in 1 .. Len(Tail(ring))}
    BY <2>1 DEF InRing
  <2> HIDE DEF ring
  <2>4. {ring[i] : i \in 1 .. Len(ring)} =
          {Tail(ring)[i] : i \in 1 .. Len(Tail(ring))} \cup {Head(ring)}
    BY <1>1, ElementsTail
  <2> QED
    BY <2>2, <2>3, <2>4
<1>5. \A k \in Kinds : k # kind => InRing(k)' = InRing(k)
  BY <1>1 DEF InRing
<1>6. Submitted' = InRows' \cup UNION {InRing(k)' : k \in Kinds}
  BY DEF Submitted, InRows, InRing
<1> HIDE DEF ring
<1> QED
  <2>1. ASSUME NEW e  PROVE e \in Submitted' <=> e \in Submitted
    <3>1. e \in Submitted' <=> e \in InRows' \/ \E k \in Kinds : e \in InRing(k)'
      BY <1>6, Zenon
    <3>2. e \in Submitted <=> e \in InRows \/ \E k \in Kinds : e \in InRing(k)
      BY SubmittedIs, Zenon
    <3> QED
      BY <1>3, <1>4, <1>5, <3>1, <3>2, Zenon
  <2> QED
    BY <2>1

\* Every other step leaves the rings and the rows alone.
LEMMA EventsKept ==
  ASSUME rings' = rings, rows' = rows
  PROVE  Submitted' = Submitted
  BY DEF Submitted

\* A final reply adds one event, or none when the ring is full.
LEMMA SubmitAdds ==
  ASSUME Typed, NEW r \in Req, NEW n \in Nat, NEW type \in Types, Submit(r, n, type), rows' = rows
  PROVE  \/ Submitted' = Submitted /\ rings' = rings /\ excuse' = [excuse EXCEPT ![r] = "ring full"]
         \/ /\ \E latency \in FinalLatency :
                 /\ NewEvent(r, latency) \in Event
                 /\ Submitted' = Submitted \cup {NewEvent(r, latency)}
                 /\ rings' = [rings EXCEPT ![KindOf[r]] = Append(@, NewEvent(r, latency))]
            /\ excuse' = excuse
<1>1. CASE rings' = rings /\ excuse' = [excuse EXCEPT ![r] = "ring full"]
  <2>1. Submitted' = Submitted
    BY <1>1, EventsKept
  <2> QED
    BY <1>1, <2>1
<1>2. ASSUME NEW latency \in FinalLatency, excuse' = excuse,
             rings' = [rings EXCEPT ![KindOf[r]] = Append(@, NewEvent(r, latency))]
      PROVE  NewEvent(r, latency) \in Event /\ Submitted' = Submitted \cup {NewEvent(r, latency)}
  <2> DEFINE kind == KindOf[r]  ring == rings[kind]  event == NewEvent(r, latency)
  <2>1. event \in Event
    BY EventTyped DEF Submit, NewEvent
  <2>2. kind \in Kinds /\ rings \in [Kinds -> Seq(Event)] /\ ring \in Seq(Event)
    BY KeyTyped DEF Typed
  <2>3. rings'[kind] = Append(ring, event) /\ \A k \in Kinds : k # kind => rings'[k] = rings[k]
    BY <1>2, <2>2
  <2>4. InRing(kind)' = InRing(kind) \cup {event}
    <3>1. InRing(kind) = {ring[i] : i \in 1 .. Len(ring)}
      BY DEF InRing
    <3>2. InRing(kind)' = {Append(ring, event)[i] : i \in 1 .. Len(Append(ring, event))}
      BY <2>3 DEF InRing
    <3>3. {Append(ring, event)[i] : i \in 1 .. Len(Append(ring, event))} =
            {ring[i] : i \in 1 .. Len(ring)} \cup {event}
      <4>1. ring \in Seq(Event) /\ event \in Event
        BY <2>1, <2>2
      <4>2. ASSUME NEW s \in Seq(Event), NEW e \in Event
            PROVE  {Append(s, e)[i] : i \in 1 .. Len(Append(s, e))} =
                     {s[i] : i \in 1 .. Len(s)} \cup {e}
        BY ElementsAppend
      <4> HIDE DEF ring, event
      <4> QED
        BY <4>1, <4>2
    <3> QED
      BY <3>1, <3>2, <3>3
  <2>5. \A k \in Kinds : k # kind => InRing(k)' = InRing(k)
    BY <2>3 DEF InRing
  <2>6. Submitted' = InRows \cup UNION {InRing(k)' : k \in Kinds}
    BY DEF Submitted, InRows, InRing
  <2> HIDE DEF kind, ring, event
  <2>7. ASSUME NEW e  PROVE e \in Submitted' <=> e \in Submitted \/ e = event
    <3>1. e \in Submitted' <=> e \in InRows \/ \E k \in Kinds : e \in InRing(k)'
      BY <2>6, Zenon
    <3>2. e \in Submitted <=> e \in InRows \/ \E k \in Kinds : e \in InRing(k)
      BY SubmittedIs, Zenon
    <3> QED
      BY <2>2, <2>4, <2>5, <3>1, <3>2, Zenon
  <2>8. Submitted' = Submitted \cup {event}
    BY <2>7
  <2> QED
    BY <2>1, <2>8 DEF event
<1> QED
  BY <1>1, <1>2 DEF Submit, NewEvent

LEMMA SubmittedTyped ==
  ASSUME Typed
  PROVE  Submitted \subseteq Event
<1>1. ASSUME NEW i \in 1 .. Len(rows)  PROVE rows[i].event \in Event
  <2>1. rows \in Seq(Row)
    BY DEF Typed
  <2>2. rows[i] \in Row
    BY <2>1, ElementOfSeq
  <2> QED
    BY <2>2 DEF Row
<1>2. ASSUME NEW kind \in Kinds, NEW i \in 1 .. Len(rings[kind])  PROVE rings[kind][i] \in Event
  <2>1. rings[kind] \in Seq(Event)
    BY DEF Typed
  <2> QED
    BY <2>1, ElementOfSeq
<1> QED
  BY <1>1, <1>2 DEF Submitted

-----------------------------------------------------------------------------
(* One request                                                             *)

HandlersOf(r) == {h \in running : h.req = r}
Mine(r) == {e \in Submitted : e.entry.req = r}
Handles(r, types) == \E h \in HandlersOf(r) : h.type \in types
Final == {"reply", "safe"}
SendProbed(r) == \E i \in 1 .. attached : Probes[i] = SendFunction(r)
Has(r) == pending[KeyOf(r)] # None
Latest(r) == \E e \in Mine(r) : e.last = sends[r]
Closed(r, n) == \A e \in Mine(r) : e.last < n

\* What holds of every request, however its handlers overlap: an entry was made
\* by a send that was probed, and stays after the answer only for the handler
\* that deletes it, or for want of a probe.
Tracked(r) ==
  /\ Has(r) => pending[KeyOf(r)].req = r /\ SendProbed(r)
  /\ Has(r) /\ stage[r] = "done" /\ excuse[r] # "no probe" => Handles(r, Final)
  /\ \A h \in HandlersOf(r) :
       /\ h.type = "send" => h.n = sends[r]
       /\ h.type = "unsafe" => h.entry \in Entry /\ h.entry.req = r
  /\ (stage[r] = "new") <=> (sends[r] = 0)
  /\ Has(r) => stage[r] # "new"

EventRight(e) ==
  /\ e.entry.first \in 1 .. e.last /\ e.entry.first + e.entry.attempts = e.last + 1
  /\ e.announced <=> e.entry.unsafe # "none"

EventInv(r) ==
  \A e \in Mine(r) : e.last <= sends[r] /\ (r \notin overlapped => EventRight(e))

\* What holds of a request as long as no two of its handlers have overlapped.
Opening(r) ==
  Handles(r, {"send"}) =>
    pending[KeyOf(r)] = Zeroed(r) /\ Closed(r, sends[r]) /\ r \notin announced

Ending(r) == Handles(r, Final) => Has(r) /\ (excuse[r] # "none" \/ Latest(r))

Counting(r) ==
  Has(r) /\ ~Handles(r, {"send"}) =>
    /\ pending[KeyOf(r)].first \in 1 .. sends[r]
    /\ pending[KeyOf(r)].first + pending[KeyOf(r)].attempts = sends[r] + 1
    /\ ~Handles(r, Final) => Closed(r, pending[KeyOf(r)].first)
    /\ r \in announced <=> pending[KeyOf(r)].unsafe # "none"

Covered(r) ==
  stage[r] # "new" /\ excuse[r] = "none" =>
    (Has(r) /\ stage[r] # "done" /\ ~Handles(r, Final)) \/ Latest(r)

Quiet(r) ==
  /\ \A g, h \in HandlersOf(r) : g = h
  /\ Handles(r, {"unsafe"}) => Has(r) /\ r \in announced
  /\ \A h \in HandlersOf(r) : h.type = "unsafe" => h.entry = pending[KeyOf(r)]
  /\ Opening(r) /\ Ending(r) /\ Counting(r) /\ Covered(r)

RequestInv(r) == Tracked(r) /\ EventInv(r) /\ (r \notin overlapped => Quiet(r))

\* A step that does nothing to a request.
Kept(s) ==
  /\ pending'[KeyOf(s)] = pending[KeyOf(s)]
  /\ HandlersOf(s)' = HandlersOf(s) /\ Mine(s)' = Mine(s)
  /\ stage'[s] = stage[s] /\ sends'[s] = sends[s] /\ excuse'[s] = excuse[s]
  /\ s \in overlapped' <=> s \in overlapped
  /\ s \in announced' <=> s \in announced

LEMMA ProbedStays ==
  ASSUME Typed, [Next]_vars, NEW r \in Req, SendProbed(r)
  PROVE  SendProbed(r)'
<1>1. attached' = attached \/ attached' = attached + 1
  BY Steps DEF Sent, Send, main, Dispatched, Receive, Rewritten, Filled, UnsafeWritten,
               DispatchDeletes, Drop, Poll, MainOnly
<1>2. attached \in Nat
  BY DEF Typed
<1>3. 1 .. attached \subseteq 1 .. attached'
  BY <1>1, <1>2
<1> QED
  BY <1>3 DEF SendProbed, SendFunction

LEMMA KeptKeeps ==
  ASSUME Typed, [Next]_vars, NEW s \in Req, RequestInv(s), Kept(s)
  PROVE  RequestInv(s)'
<1>1. SendProbed(s) => SendProbed(s)'
  BY ProbedStays
<1>2. /\ Has(s)' <=> Has(s)
      /\ \A types : Handles(s, types)' <=> Handles(s, types)
      /\ Latest(s)' <=> Latest(s)
      /\ \A n : Closed(s, n)' <=> Closed(s, n)
  BY DEF Kept, Has, Handles, Latest, Closed
<1>3. Tracked(s)'
  BY <1>1, <1>2 DEF RequestInv, Kept, Tracked
<1>4. EventInv(s)'
  BY DEF RequestInv, Kept, EventInv
<1>5. ASSUME s \notin overlapped'  PROVE Quiet(s)'
  <2>1. Quiet(s)
    BY <1>5 DEF RequestInv, Kept
  <2>2. /\ \A g, h \in HandlersOf(s)' : g = h
        /\ Handles(s, {"unsafe"})' => Has(s)' /\ s \in announced'
        /\ \A h \in HandlersOf(s)' : h.type = "unsafe" => h.entry = pending'[KeyOf(s)]
    BY <1>2, <2>1 DEF Quiet, Kept
  <2>3. Opening(s)'
    BY <1>2, <2>1 DEF Quiet, Kept, Opening, Zeroed
  <2>4. Ending(s)'
    BY <1>2, <2>1 DEF Quiet, Kept, Ending
  <2>5. Counting(s)'
    BY <1>2, <2>1 DEF Quiet, Kept, Counting
  <2>6. Covered(s)'
    BY <1>2, <2>1 DEF Quiet, Kept, Covered
  <2> QED
    BY <2>2, <2>3, <2>4, <2>5, <2>6 DEF Quiet
<1> QED
  BY <1>3, <1>4, <1>5 DEF RequestInv

-----------------------------------------------------------------------------
(* A step of the request itself                                            *)

\* Handlers overlap, or the request has no other one (Overlap).
LEMMA OverlapSeen ==
  ASSUME NEW r, Overlap(r), r \notin overlapped'
  PROVE  r \notin overlapped /\ HandlersOf(r) = {}
  BY DEF Overlap, InHandler, HandlersOf

\* trace_send_request and __prepare_send_request up to the entry.
LEMMA SentKeeps ==
  ASSUME Typed, [Next]_vars, NEW r \in Req, RequestInv(r), Sent(r)
  PROVE  RequestInv(r)'
<1> DEFINE n == sends[r]  H == HandlersOf(r)
<1>1. /\ KeyOf(r) \in Key /\ n \in Nat /\ n + 1 \in Nat /\ n < n + 1 /\ n + 1 # 0
      /\ pending \in [Key -> Entry \cup {None}]
  <2>1. KeyOf(r) \in Key /\ n \in Nat /\ pending \in [Key -> Entry \cup {None}]
    BY KeyTyped DEF Typed
  <2> QED
    BY <2>1
<1>2. /\ stage[r] \notin {"done", "dropped"} /\ stage'[r] # "new" /\ stage'[r] # "done"
      /\ sends'[r] = n + 1 /\ ~Handles(r, {"send"}) /\ pc # "exited"
      /\ \A h \in H : h.type # "send"
  BY DEF Sent, Send, Typed, Handles, HandlersOf
<1>3. Mine(r)' = Mine(r)
  <2>1. rings' = rings /\ rows' = rows
    BY DEF Sent, Send
  <2> QED
    BY <2>1, EventsKept DEF Mine
<1>4. /\ \A e \in Mine(r) : e.last \in Nat /\ e.last <= n
      /\ r \notin overlapped => \A e \in Mine(r) : EventRight(e)
  BY SubmittedTyped DEF Event, Mine, RequestInv, EventInv
<1>5. Probed(SendFunction(r)) <=> SendProbed(r)
  BY <1>2 DEF Probed, SendProbed
<1>6. (KeyOf(r) \in Present) <=> Has(r)
  BY <1>1 DEF Present, Has
<1>7. Tracked(r) /\ (r \notin overlapped => Quiet(r))
  BY DEF RequestInv
<1>8. SendProbed(r) => SendProbed(r)'
  BY ProbedStays
<1>9. ASSUME r \notin overlapped' => r \notin overlapped  PROVE EventInv(r)'
  <2>1. \A e \in Mine(r) : e.last <= n + 1
    BY <1>1, <1>4
  <2>2. \A e : EventRight(e)' <=> EventRight(e)
    BY DEF EventRight
  <2> QED
    BY <1>2, <1>3, <1>4, <1>9, <2>1, <2>2 DEF EventInv
<1>10. ASSUME HandlersOf(r)' = H
       PROVE  \A types : Handles(r, types)' <=> Handles(r, types)
  BY <1>10 DEF Handles
<1>11. CASE /\ ~Probed(SendFunction(r)) /\ excuse' = [excuse EXCEPT ![r] = "no probe"]
            /\ UNCHANGED <<pending, running, overlapped, announced>>
  <2>1. /\ ~Has(r) /\ ~Has(r)' /\ HandlersOf(r)' = H /\ excuse'[r] = "no probe"
        /\ overlapped' = overlapped
    BY <1>5, <1>7, <1>11 DEF Tracked, Has, HandlersOf, Typed
  <2>2. Tracked(r)'
    BY <1>1, <1>2, <1>7, <1>10, <2>1 DEF Tracked, Handles
  <2>3. ASSUME r \notin overlapped'  PROVE Quiet(r)'
    <3>1. Quiet(r)
      BY <1>7, <2>1, <2>3
    <3>2. ~Handles(r, {"unsafe"}) /\ ~Handles(r, Final)
      BY <2>1, <3>1 DEF Quiet, Ending
    <3>3. \A h \in H : h.type # "unsafe"
      BY <3>2 DEF Handles
    <3> QED
      BY <1>2, <1>10, <2>1, <3>1, <3>2, <3>3 DEF Quiet, Opening, Ending, Counting, Covered
  <2> QED
    BY <1>9, <2>1, <2>2, <2>3 DEF RequestInv
<1>12. CASE /\ Has(r) /\ pending' = [pending EXCEPT ![KeyOf(r)] = Retried(@, n + 1)]
            /\ Overlap(r) /\ UNCHANGED <<running, excuse, announced>>
  <2> DEFINE p == pending[KeyOf(r)]  q == pending'[KeyOf(r)]
  <2>1. p \in Entry /\ q = [p EXCEPT !.attempts = @ + 1]
    BY <1>1, <1>12 DEF Has, Retried
  <2>2. /\ q \in Entry /\ q.req = p.req /\ q.first = p.first /\ q.attempts = p.attempts + 1
        /\ q.unsafe = p.unsafe /\ p.first \in Nat /\ p.attempts \in Nat
    BY <2>1 DEF Entry
  <2>3. Has(r)'
    BY <2>2, KfsAssumption DEF Has, KfsAssumption
  <2>4. HandlersOf(r)' = H /\ excuse' = excuse /\ announced' = announced
    BY <1>12 DEF HandlersOf
  <2>5. Tracked(r)'
    <3>1. pending[KeyOf(r)].req = r /\ SendProbed(r)'
      BY <1>7, <1>8, <1>12 DEF Tracked
    <3> QED
      BY <1>1, <1>2, <1>7, <1>10, <2>2, <2>3, <2>4, <3>1 DEF Tracked, Handles
  <2>6. ASSUME r \notin overlapped'  PROVE Quiet(r)'
    <3>1. Quiet(r) /\ H = {}
      BY <1>7, <1>12, <2>6, OverlapSeen
    <3>2. \A types : ~Handles(r, types) /\ ~Handles(r, types)'
      BY <2>4, <3>1 DEF Handles
    <3>3. /\ p.first \in 1 .. n /\ p.first + p.attempts = n + 1 /\ Closed(r, p.first)
          /\ (r \in announced <=> p.unsafe # "none")
      BY <1>12, <3>1, <3>2 DEF Quiet, Counting
    <3>4. q.first \in 1 .. n + 1 /\ q.first + q.attempts = (n + 1) + 1
      BY <1>1, <2>2, <3>3
    <3>5. Closed(r, q.first)
      BY <2>2, <3>3
    <3>6. Counting(r)'
      <4>1. r \in announced' <=> q.unsafe # "none"
        BY <2>2, <2>4, <3>3
      <4> QED
        BY <1>2, <1>3, <3>4, <3>5, <4>1 DEF Counting, Closed
    <3> QED
      BY <1>2, <2>3, <2>4, <3>1, <3>2, <3>6 DEF Quiet, Opening, Ending, Covered
  <2>7. r \notin overlapped' => r \notin overlapped
    BY <1>12, OverlapSeen
  <2> QED
    BY <1>9, <2>5, <2>6, <2>7 DEF RequestInv
<1>13. CASE /\ ~Has(r) /\ excuse' = [excuse EXCEPT ![r] = "map full"] /\ Overlap(r)
            /\ UNCHANGED <<pending, running, announced>>
  <2>1. ~Has(r)' /\ HandlersOf(r)' = H /\ excuse'[r] = "map full"
    BY <1>13 DEF Has, HandlersOf, Typed
  <2>2. Tracked(r)'
    BY <1>1, <1>2, <1>7, <2>1 DEF Tracked, Handles
  <2>3. ASSUME r \notin overlapped'  PROVE Quiet(r)'
    <3>1. H = {}
      BY <1>13, <2>3, OverlapSeen
    <3>2. \A types : ~Handles(r, types)'
      BY <2>1, <3>1 DEF Handles
    <3> QED
      BY <2>1, <3>1, <3>2 DEF Quiet, Opening, Ending, Counting, Covered
  <2>4. r \notin overlapped' => r \notin overlapped
    BY <1>13, OverlapSeen
  <2> QED
    BY <1>9, <2>2, <2>3, <2>4 DEF RequestInv
<1>14. CASE /\ SendProbed(r) /\ pending' = [pending EXCEPT ![KeyOf(r)] = Zeroed(r)]
            /\ running' = running \cup {InStep(r, n + 1, "send", None)}
            /\ excuse' = [excuse EXCEPT ![r] = "none"] /\ Overlap(r)
            /\ announced' = announced \ {r}
  <2> DEFINE h == InStep(r, n + 1, "send", None)
  <2>1. pending'[KeyOf(r)] = Zeroed(r) /\ Zeroed(r).req = r /\ Zeroed(r) \in Entry
    BY <1>1, <1>14 DEF Zeroed, Entry, Latency
  <2>2. Has(r)'
    BY <2>1, KfsAssumption DEF Has, KfsAssumption
  <2>3. HandlersOf(r)' = H \cup {h} /\ h.type = "send" /\ h.n = n + 1
    BY <1>14 DEF HandlersOf, InStep
  <2>4. Tracked(r)'
    BY <1>1, <1>2, <1>7, <1>8, <1>14, <2>1, <2>2, <2>3 DEF Tracked, Handles
  <2>5. ASSUME r \notin overlapped'  PROVE Quiet(r)'
    <3>1. H = {}
      BY <1>14, <2>5, OverlapSeen
    <3>2. HandlersOf(r)' = {h}
      BY <2>3, <3>1
    <3>3. /\ \A types : Handles(r, types)' <=> h.type \in types
          /\ Handles(r, {"send"})' /\ ~Handles(r, {"unsafe"})' /\ ~Handles(r, Final)'
      BY <2>3, <3>2 DEF Handles, Final
    <3>4. Opening(r)'
      <4>1. Closed(r, n + 1)
        BY <1>1, <1>4 DEF Closed
      <4>2. r \notin announced'
        BY <1>14
      <4> QED
        BY <1>2, <1>3, <2>1, <4>1, <4>2 DEF Opening, Zeroed, Closed
    <3> QED
      BY <1>2, <2>2, <3>2, <3>3, <3>4 DEF Quiet, Ending, Counting, Covered
  <2>6. r \notin overlapped' => r \notin overlapped
    BY <1>14, OverlapSeen
  <2> QED
    BY <1>9, <2>4, <2>5, <2>6 DEF RequestInv
<1> QED
  BY <1>5, <1>6, <1>11, <1>12, <1>13, <1>14 DEF Sent, Traced

\* What the client makes of a message (Receive).
LEMMA ReceiveStage ==
  ASSUME Typed, NEW r \in Req, NEW n \in Nat, NEW type \in Types, Receive(r, n, type), Tracked(r)
  PROVE  /\ stage[r] # "new" /\ stage'[r] # "new" /\ sends[r] # 0
         /\ stage'[r] = "done" => stage[r] = "done" \/ n = sends[r]
         /\ type \in {"unsafe", "forward"} /\ stage'[r] = "done" => stage[r] = "done"
         /\ UNCHANGED <<sends, rows, pc>>
<1>1. n \in 1 .. sends[r] /\ sends[r] \in Nat
  BY DEF Receive, Typed
<1>2. sends[r] # 0
  BY <1>1
<1>3. stage[r] # "new"
  BY <1>2 DEF Tracked
<1>4. stage'[r] = IF n # sends[r] \/ stage[r] \in {"done", "dropped"} THEN stage[r]
                  ELSE CASE type \in {"reply", "safe"} -> "done"
                         [] type = "unsafe" -> "unsafe"
                         [] OTHER -> stage[r]
  BY DEF Receive, Typed
<1>5. /\ stage'[r] # "new" /\ stage'[r] = "done" => stage[r] = "done" \/ n = sends[r]
      /\ type \in {"unsafe", "forward"} /\ stage'[r] = "done" => stage[r] = "done"
  BY <1>3, <1>4 DEF Types
<1> QED
  BY <1>2, <1>3, <1>5 DEF Receive, main

\* Steps of a request that leave its entry, its handlers and its events alone.
LEMMA OnlyStage ==
  ASSUME Typed, [Next]_vars, NEW r \in Req, RequestInv(r),
         UNCHANGED <<sends, pending, running, rings, rows, overlapped, announced>>,
         stage[r] # "new", stage'[r] # "new",
         \/ excuse'[r] = "no probe"
         \/ excuse'[r] = excuse[r] /\ (Has(r) /\ stage'[r] = "done" => stage[r] = "done")
  PROVE  RequestInv(r)'
<1>1. HandlersOf(r)' = HandlersOf(r) /\ Mine(r)' = Mine(r)
  BY EventsKept DEF HandlersOf, Mine
<1>2. /\ Has(r)' <=> Has(r)
      /\ \A types : Handles(r, types)' <=> Handles(r, types)
      /\ Latest(r)' <=> Latest(r)
      /\ \A m : Closed(r, m)' <=> Closed(r, m)
  BY <1>1 DEF Has, Handles, Latest, Closed
<1>3. Tracked(r) /\ EventInv(r) /\ (r \notin overlapped => Quiet(r))
  BY DEF RequestInv
<1>4. Tracked(r)'
  <2>1. SendProbed(r) => SendProbed(r)'
    BY ProbedStays
  <2> QED
    BY <1>1, <1>2, <1>3, <2>1 DEF Tracked
<1>5. EventInv(r)'
  BY <1>1, <1>3 DEF EventInv, EventRight
<1>6. ASSUME r \notin overlapped'  PROVE Quiet(r)'
  <2>1. Quiet(r)
    BY <1>3, <1>6
  <2>2. Opening(r)' /\ Counting(r)'
    BY <1>1, <1>2, <2>1 DEF Quiet, Opening, Counting, Zeroed
  <2>3. Ending(r)' /\ Covered(r)'
    BY <1>1, <1>2, <2>1 DEF Quiet, Ending, Covered
  <2> QED
    BY <1>1, <1>2, <2>1, <2>2, <2>3 DEF Quiet
<1> QED
  BY <1>4, <1>5, <1>6 DEF RequestInv

\* trace_osd_dispatch and trace_mds_dispatch up to the submission.
LEMMA DispatchedKeeps ==
  ASSUME Typed, [Next]_vars, NEW r \in Req, NEW n \in Nat, NEW type \in Types,
         RequestInv(r), Dispatched(r, n, type)
  PROVE  RequestInv(r)'
<1> DEFINE H == HandlersOf(r)  p == pending[KeyOf(r)]
<1>1. Receive(r, n, type) /\ Tracked(r) /\ EventInv(r) /\ (r \notin overlapped => Quiet(r))
  BY DEF Dispatched, RequestInv
<1>2. /\ stage[r] # "new" /\ stage'[r] # "new"
      /\ stage'[r] = "done" => stage[r] = "done" \/ n = sends[r]
      /\ type \in {"unsafe", "forward"} /\ stage'[r] = "done" => stage[r] = "done"
      /\ UNCHANGED <<sends, rows, pc>>
  BY <1>1, ReceiveStage
<1>3. KeyOf(r) \in Key /\ (KeyOf(r) \in Present <=> Has(r)) /\ sends[r] \in Nat
  BY KeyTyped DEF Present, Has, Typed
<1>4. SendProbed(r) => SendProbed(r)'
  BY ProbedStays
<1>5. CASE Unknown(r, n, type)
  <2>1. /\ UNCHANGED <<pending, rings, running, overlapped, announced>>
        /\ \/ excuse' = NotCovered(r, n)
           \/ ~Has(r) /\ excuse' = excuse
    BY <1>3, <1>5 DEF Unknown
  <2>2. \/ excuse'[r] = "no probe"
        \/ excuse'[r] = excuse[r] /\ (Has(r) /\ stage'[r] = "done" => stage[r] = "done")
    BY <1>2, <2>1 DEF NotCovered, Typed
  <2> QED
    BY <1>2, <2>1, <2>2, OnlyStage
<1>6. CASE type = "forward" /\ UNCHANGED <<pending, rings, running, ghosts>>
  BY <1>2, <1>6, OnlyStage DEF ghosts
<1>7. CASE type = "unsafe" /\ KeepPending(r, n)
  <2>a. PICK q \in Entry :
          /\ p \in Entry /\ q.unsafe # "none"
          /\ q.req = p.req /\ q.first = p.first /\ q.attempts = p.attempts
          /\ pending' = [pending EXCEPT ![KeyOf(r)] = q]
          /\ running' = running \cup {InStep(r, n, "unsafe", q)}
    BY <1>7, KeepPendingWrites
  <2> DEFINE h == InStep(r, n, "unsafe", q)
  <2>1. /\ Has(r) /\ running' = running \cup {h} /\ announced' = announced \cup {r}
        /\ Overlap(r) /\ UNCHANGED <<rings, excuse>>
    BY <1>3, <1>7, <2>a DEF KeepPending
  <2>2. HandlersOf(r)' = H \cup {h} /\ h.type = "unsafe" /\ h.entry = q
    BY <2>1 DEF HandlersOf, InStep
  <2>3. /\ pending'[KeyOf(r)] = q /\ Has(r)' /\ Mine(r)' = Mine(r) /\ sends' = sends
    BY <1>2, <1>3, <2>1, <2>a, EventsKept, KfsAssumption DEF Has, Mine, Typed, KfsAssumption
  <2> HIDE DEF h
  <2>4. Tracked(r)'
    BY <1>1, <1>2, <1>4, <1>7, <2>a, <2>1, <2>2, <2>3 DEF Tracked, Handles, Final
  <2>5. r \notin overlapped' => r \notin overlapped /\ H = {}
    BY <2>1, OverlapSeen
  <2>6. EventInv(r)'
    BY <1>1, <2>3, <2>5 DEF EventInv, EventRight
  <2>7. ASSUME r \notin overlapped'  PROVE Quiet(r)'
    <3>1. Quiet(r) /\ HandlersOf(r)' = {h} /\ \A types : ~Handles(r, types)
      BY <1>1, <2>2, <2>5, <2>7 DEF Handles
    <3>2. /\ Handles(r, {"unsafe"})' /\ ~Handles(r, {"send"})' /\ ~Handles(r, Final)'
      BY <2>2, <3>1 DEF Handles, Final
    <3>3. Closed(r, p.first) /\ p.first \in 1 .. sends[r] /\ p.first + p.attempts = sends[r] + 1
      BY <2>1, <3>1 DEF Quiet, Counting
    <3>4. Counting(r)'
      BY <2>a, <2>1, <2>3, <3>2, <3>3 DEF Counting, Closed
    <3>5. Covered(r)'
      BY <1>2, <1>7, <2>1, <2>3, <3>1, <3>2 DEF Quiet, Covered, Latest
    <3> QED
      BY <2>1, <2>2, <2>3, <3>1, <3>2, <3>4, <3>5 DEF Quiet, Opening, Ending
  <2> QED
    BY <2>4, <2>6, <2>7 DEF RequestInv
<1>8. CASE type \in {"reply", "safe"} /\ Submit(r, n, type)
  <2> DEFINE h == InStep(r, n, type, None)
  <2>1. /\ Has(r) /\ running' = running \cup {h} /\ Overlap(r) /\ UNCHANGED <<pending, announced>>
    BY <1>3, <1>8 DEF Submit
  <2>2. HandlersOf(r)' = H \cup {h} /\ h.type \in Final /\ h.type \notin {"send", "unsafe"}
    BY <1>8, <2>1 DEF HandlersOf, Final, InStep
  <2>3. Has(r)' /\ pending'[KeyOf(r)] = p /\ sends' = sends /\ announced' = announced /\ p.req = r
    BY <1>1, <1>2, <2>1 DEF Has, Tracked
  <2>4. \/ Mine(r)' = Mine(r) /\ excuse'[r] = "ring full"
        \/ \E latency \in FinalLatency : Mine(r)' = Mine(r) \cup {NewEvent(r, latency)}
    <3>1. CASE Submitted' = Submitted /\ excuse' = [excuse EXCEPT ![r] = "ring full"]
      BY <3>1 DEF Mine, Typed
    <3>2. ASSUME NEW latency \in FinalLatency, Submitted' = Submitted \cup {NewEvent(r, latency)}
          PROVE  Mine(r)' = Mine(r) \cup {NewEvent(r, latency)}
      <4>1. NewEvent(r, latency).entry.req = r
        BY <2>3 DEF NewEvent
      <4> QED
        BY <3>2, <4>1 DEF Mine
    <3> QED
      BY <1>2, <1>8, <3>1, <3>2, SubmitAdds
  <2>5. Tracked(r)'
    BY <1>1, <1>2, <1>4, <2>2, <2>3 DEF Tracked, Handles, Has
  <2>6. r \notin overlapped' => r \notin overlapped /\ H = {}
    BY <2>1, OverlapSeen
  <2>7. ASSUME r \notin overlapped'
        PROVE  /\ Quiet(r) /\ HandlersOf(r)' = {h} /\ \A types : ~Handles(r, types)
               /\ p.first \in 1 .. sends[r] /\ p.first + p.attempts = sends[r] + 1
               /\ r \in announced <=> p.unsafe # "none"
    <3>1. Quiet(r) /\ HandlersOf(r)' = {h} /\ \A types : ~Handles(r, types)
      BY <1>1, <2>2, <2>6, <2>7 DEF Handles
    <3> QED
      BY <2>1, <3>1 DEF Quiet, Counting
  <2>8. ASSUME NEW latency \in FinalLatency
        PROVE  /\ NewEvent(r, latency).last = sends[r]
               /\ r \notin overlapped' => EventRight(NewEvent(r, latency))
    <3>1. /\ NewEvent(r, latency).last = sends[r] /\ NewEvent(r, latency).entry = p
          /\ NewEvent(r, latency).announced = (r \in announced)
      BY DEF NewEvent
    <3> QED
      BY <2>7, <3>1 DEF EventRight
  <2>9. EventInv(r)'
    <3>1. sends[r] <= sends[r]
      BY <1>3
    <3>2. \A e : EventRight(e)' <=> EventRight(e)
      BY DEF EventRight
    <3>3. ASSUME NEW e \in Mine(r)'
          PROVE  e.last <= sends[r] /\ (r \notin overlapped' => EventRight(e))
      <4>1. CASE e \in Mine(r)
        BY <1>1, <2>6, <4>1 DEF EventInv
      <4>2. CASE \E latency \in FinalLatency : e = NewEvent(r, latency)
        BY <2>8, <3>1, <4>2
      <4> QED
        BY <2>4, <3>3, <4>1, <4>2
    <3> QED
      BY <2>3, <3>2, <3>3 DEF EventInv
  <2>10. ASSUME r \notin overlapped'  PROVE Quiet(r)'
    <3>1. /\ Handles(r, Final)' /\ ~Handles(r, {"send"})' /\ ~Handles(r, {"unsafe"})'
          /\ \A g1, g2 \in HandlersOf(r)' : g1 = g2 /\ g1.type # "unsafe"
      BY <2>2, <2>7, <2>10 DEF Handles
    <3>2. excuse'[r] = "ring full" \/ Latest(r)'
      BY <2>3, <2>4, <2>8 DEF Latest
    <3>3. Counting(r)'
      BY <2>3, <2>7, <2>10, <3>1 DEF Counting
    <3> QED
      BY <2>3, <3>1, <3>2, <3>3 DEF Quiet, Opening, Ending, Covered
  <2> QED
    BY <2>5, <2>9, <2>10 DEF RequestInv
<1> QED
  BY <1>5, <1>6, <1>7, <1>8 DEF Dispatched

\* The second steps of the handlers: the entry is filled in, written back with
\* the unsafe reply, or deleted.
LEMMA RewrittenKeeps ==
  ASSUME Typed, [Next]_vars, NEW r \in Req, NEW h \in running, h.req = r, Rewritten(h),
         RequestInv(r)
  PROVE  RequestInv(r)'
<1> DEFINE H == HandlersOf(r)  p == pending[KeyOf(r)]  q == pending'[KeyOf(r)]
<1>1. /\ r \in Req /\ h.n \in Nat /\ h \in H /\ KeyOf(r) \in Key
      /\ pending \in [Key -> Entry \cup {None}] /\ sends[r] \in Nat
  BY KeyTyped DEF Typed, Handler, HandlersOf
<1>2. /\ running' = running \ {h}
      /\ UNCHANGED <<rings, rows, stage, sends, excuse, overlapped, announced>>
  BY DEF Rewritten, Filled, UnsafeWritten, DispatchDeletes, clients, ghosts
<1>3. HandlersOf(r)' = H \ {h}
  BY <1>2 DEF HandlersOf
<1>4. Mine(r)' = Mine(r)
  BY <1>2, EventsKept DEF Mine
<1>5. Tracked(r) /\ EventInv(r) /\ (r \notin overlapped => Quiet(r))
  BY DEF RequestInv
<1>6. SendProbed(r) => SendProbed(r)'
  BY <1>1, ProbedStays
<1>7. EventInv(r)'
  BY <1>2, <1>4, <1>5 DEF EventInv, EventRight
<1>8. /\ Latest(r)' <=> Latest(r)
      /\ \A n : Closed(r, n)' <=> Closed(r, n)
  BY <1>2, <1>4 DEF Latest, Closed
<1>9. ASSUME r \notin overlapped'
      PROVE  /\ Quiet(r) /\ H = {h} /\ HandlersOf(r)' = {}
             /\ \A types : (Handles(r, types) <=> h.type \in types) /\ ~Handles(r, types)'
  <2>1. Quiet(r)
    BY <1>2, <1>5, <1>9
  <2>2. H = {h}
    BY <1>1, <2>1 DEF Quiet
  <2> QED
    BY <1>3, <2>1, <2>2 DEF Handles
<1>10. CASE Filled(h, KindOf[h.req])
  <2>1. h.type = "send" /\ q = IF p = None THEN p ELSE [p EXCEPT !.first = h.n, !.attempts = 1]
    BY <1>1, <1>10 DEF Filled
  <2>2. p \in Entry \cup {None}
    BY <1>1
  <2>3. Has(r)' => Has(r)
    BY <2>1 DEF Has
  <2>4. Has(r)' => /\ p \in Entry /\ q.req = p.req /\ q.first = h.n /\ q.attempts = 1
                   /\ q.unsafe = p.unsafe
    BY <2>1, <2>2, <2>3 DEF Has, Entry
  <2>5. Handles(r, Final)' <=> Handles(r, Final)
    BY <1>3, <2>1 DEF Handles, Final
  <2>6. Tracked(r)'
    BY <1>2, <1>3, <1>5, <1>6, <2>3, <2>4, <2>5 DEF Tracked
  <2>7. ASSUME r \notin overlapped'  PROVE Quiet(r)'
    <3>1. /\ Handles(r, {"send"}) /\ p = Zeroed(r) /\ Closed(r, sends[r]) /\ r \notin announced
          /\ h.n = sends[r] /\ ~Handles(r, Final)
      BY <1>1, <1>5, <1>9, <2>1, <2>7 DEF Quiet, Opening, Tracked, Final
    <3>2. p \in Entry /\ p.unsafe = "none"
      BY <3>1, <1>1 DEF Zeroed, Entry, Latency
    <3>3. Has(r) /\ q = [p EXCEPT !.first = h.n, !.attempts = 1] /\ q \in Entry
      <4>1. p # None
        BY <3>2, KfsAssumption DEF KfsAssumption
      <4>2. q = [p EXCEPT !.first = h.n, !.attempts = 1]
        BY <2>1, <4>1
      <4>3. q \in Entry
        <5>1. [p EXCEPT !.first = h.n, !.attempts = 1] \in Entry
          BY <1>1, <3>2 DEF Entry
        <5> QED
          BY <4>2, <5>1
      <4> QED
        BY <4>1, <4>2, <4>3 DEF Has
    <3>4. Has(r)' /\ q.first = sends[r] /\ q.attempts = 1 /\ q.unsafe = "none"
      BY <2>4, <3>1, <3>2, <3>3, KfsAssumption DEF Has, KfsAssumption
    <3>5. sends[r] # 0
      BY <1>5, <3>3 DEF Tracked
    <3>6. q.first \in 1 .. sends[r] /\ q.first + q.attempts = sends[r] + 1
      BY <1>1, <3>4, <3>5
    <3>7. Counting(r)'
      BY <1>2, <1>4, <3>1, <3>4, <3>6 DEF Counting, Closed
    <3>8. Covered(r)'
      BY <1>2, <1>8, <1>9, <2>7, <3>1, <3>3, <3>4 DEF Quiet, Covered
    <3> QED
      BY <1>9, <2>7, <3>7, <3>8 DEF Quiet, Opening, Ending
  <2> QED
    BY <1>7, <2>6, <2>7 DEF RequestInv
<1>11. CASE UnsafeWritten(h)
  <2>1. h.type = "unsafe" /\ q \in WrittenBack(h)
    BY <1>1, <1>11 DEF UnsafeWritten
  <2>2. q = p \/ (Has(r) /\ q = h.entry)
    BY <2>1 DEF WrittenBack, Has
  <2>3. h.entry \in Entry /\ h.entry.req = r
    BY <1>1, <1>5, <2>1 DEF Tracked
  <2>4. /\ Has(r)' <=> Has(r)
        /\ Has(r) => q.req = r
    BY <1>5, <2>2, <2>3, KfsAssumption DEF Has, Tracked, KfsAssumption
  <2>5. Handles(r, Final)' <=> Handles(r, Final)
    BY <1>3, <2>1 DEF Handles, Final
  <2>6. Tracked(r)'
    BY <1>2, <1>3, <1>5, <1>6, <2>4, <2>5 DEF Tracked
  <2>7. ASSUME r \notin overlapped'  PROVE Quiet(r)'
    <3>1. /\ Has(r) /\ r \in announced /\ ~Handles(r, {"send"}) /\ ~Handles(r, Final)
          /\ q = p
      BY <1>1, <1>9, <2>1, <2>2, <2>7 DEF Quiet, Final
    <3>2. Counting(r)'
      BY <1>2, <1>4, <1>9, <2>4, <2>7, <3>1 DEF Quiet, Counting, Closed
    <3>3. Covered(r)'
      BY <1>2, <1>8, <1>9, <2>4, <2>7, <3>1 DEF Quiet, Covered
    <3> QED
      BY <1>9, <2>7, <3>2, <3>3 DEF Quiet, Opening, Ending
  <2> QED
    BY <1>7, <2>6, <2>7 DEF RequestInv
<1>12. CASE DispatchDeletes(h)
  <2>1. h.type \in Final /\ q = None
    BY <1>1, <1>12 DEF DispatchDeletes, Deleted, Final
  <2>2. ~Has(r)'
    BY <2>1 DEF Has
  <2>3. Tracked(r)'
    BY <1>2, <1>3, <1>5, <2>2 DEF Tracked
  <2>4. ASSUME r \notin overlapped'  PROVE Quiet(r)'
    <3>1. excuse[r] # "none" \/ Latest(r)
      BY <1>9, <2>1, <2>4 DEF Quiet, Ending
    <3> QED
      BY <1>2, <1>8, <1>9, <2>2, <2>4, <3>1 DEF Quiet, Opening, Ending, Counting, Covered
  <2> QED
    BY <1>7, <2>3, <2>4 DEF RequestInv
<1> QED
  BY <1>10, <1>11, <1>12 DEF Rewritten

\* A dropped request takes no step the probes see.
LEMMA DropKeeps ==
  ASSUME Typed, [Next]_vars, NEW r \in Req, RequestInv(r), Drop(r)
  PROVE  RequestInv(r)'
<1>1. /\ UNCHANGED <<sends, pending, running, rings, rows, overlapped, announced, excuse>>
      /\ stage[r] # "new" /\ stage'[r] = "dropped"
  BY DEF Drop, Typed, ghosts
<1> QED
  BY <1>1, OnlyStage

\* A step of one request is none of another: keys are not shared, and what a
\* reply submits is the entry of its own request.
LEMMA OthersKept ==
  ASSUME Typed, NEW r \in Req, NEW s \in Req, r # s, Tracked(r),
         \/ Sent(r) \/ Drop(r)
         \/ \E n \in Nat, type \in Types : Dispatched(r, n, type)
         \/ \E h \in running : h.req = r /\ Rewritten(h)
  PROVE  Kept(s)
<1>1. KeyOf(r) \in Key /\ KeyOf(s) \in Key /\ KeyOf(r) # KeyOf(s)
  BY KeyTyped, KeysDiffer
<1>2. CASE Sent(r)
  <2>1. pending'[KeyOf(s)] = pending[KeyOf(s)]
    BY <1>1, <1>2 DEF Sent, Traced, Typed
  <2>2. HandlersOf(s)' = HandlersOf(s)
    <3>1. \/ running' = running
          \/ \E h : h.req = r /\ running' = running \cup {h}
      <4>1. InStep(r, sends[r] + 1, "send", None).req = r
        BY DEF InStep
      <4> QED
        BY <1>2, <4>1, Zenon DEF Sent, Traced
    <3> QED
      BY <3>1 DEF HandlersOf
  <2>3. Mine(s)' = Mine(s)
    <3>1. rings' = rings /\ rows' = rows
      BY <1>2 DEF Sent, Send
    <3> QED
      BY <3>1, EventsKept DEF Mine
  <2>4. stage'[s] = stage[s] /\ sends'[s] = sends[s] /\ excuse'[s] = excuse[s]
    BY <1>2 DEF Sent, Send, Traced, Typed
  <2>5. /\ s \in overlapped' <=> s \in overlapped
        /\ s \in announced' <=> s \in announced
    BY <1>2 DEF Sent, Traced, Overlap
  <2> QED
    BY <2>1, <2>2, <2>3, <2>4, <2>5 DEF Kept
<1>3. CASE Drop(r)
  <2>1. Mine(s)' = Mine(s)
    BY <1>3, EventsKept DEF Drop, Mine
  <2> QED
    BY <1>3, <2>1 DEF Drop, Kept, HandlersOf, ghosts, Typed
<1>4. ASSUME NEW n \in Nat, NEW type \in Types, Dispatched(r, n, type)
      PROVE  Kept(s)
  <2>1. stage'[s] = stage[s] /\ sends' = sends /\ rows' = rows
    BY <1>4 DEF Dispatched, Receive, Typed
  <2>2. pending'[KeyOf(s)] = pending[KeyOf(s)] /\ excuse'[s] = excuse[s]
    BY <1>1, <1>4 DEF Dispatched, Unknown, NotCovered, KeepPending, Submit, ghosts, Typed
  <2>3. HandlersOf(s)' = HandlersOf(s)
    <3>1. \/ running' = running
          \/ \E h : h.req = r /\ running' = running \cup {h}
      <4>1. \A e : InStep(r, n, type, e).req = r
        BY DEF InStep
      <4>2. ASSUME KeepPending(r, n), type = "unsafe"
            PROVE  \E e : running' = running \cup {InStep(r, n, type, e)}
        BY <4>2 DEF KeepPending
      <4>3. ASSUME Submit(r, n, type)
            PROVE  running' = running \cup {InStep(r, n, type, None)}
        BY <4>3 DEF Submit
      <4> QED
        BY <1>4, <4>1, <4>2, <4>3 DEF Dispatched, Unknown
    <3> QED
      BY <3>1 DEF HandlersOf
  <2>4. /\ s \in overlapped' <=> s \in overlapped
        /\ s \in announced' <=> s \in announced
    BY <1>4 DEF Dispatched, Unknown, KeepPending, Submit, Overlap, ghosts
  <2>5. Mine(s)' = Mine(s)
    <3>1. CASE rings' = rings
      BY <2>1, <3>1, EventsKept DEF Mine
    <3>2. CASE Submit(r, n, type)
      <4>1. pending[KeyOf(r)].req = r
        BY <3>2 DEF Submit, Tracked, Has, Present
      <4>2. \/ Submitted' = Submitted
            \/ \E latency \in FinalLatency : Submitted' = Submitted \cup {NewEvent(r, latency)}
        BY <2>1, <3>2, SubmitAdds
      <4>3. \A latency : NewEvent(r, latency).entry.req = r
        BY <4>1 DEF NewEvent
      <4> QED
        BY <4>2, <4>3 DEF Mine
    <3> QED
      BY <1>4, <3>1, <3>2 DEF Dispatched, Unknown, KeepPending
  <2> QED
    BY <2>1, <2>2, <2>3, <2>4, <2>5 DEF Kept
<1>5. ASSUME NEW h \in running, h.req = r, Rewritten(h)
      PROVE  Kept(s)
  <2>1. /\ running' = running \ {h}
        /\ UNCHANGED <<rings, rows, stage, sends, excuse, overlapped, announced>>
    BY <1>5 DEF Rewritten, Filled, UnsafeWritten, DispatchDeletes, clients, ghosts
  <2>2. pending'[KeyOf(s)] = pending[KeyOf(s)]
    BY <1>1, <1>5 DEF Rewritten, Filled, UnsafeWritten, DispatchDeletes, Deleted, Typed
  <2>3. HandlersOf(s)' = HandlersOf(s)
    <3>1. \A g : g.req = s => (g \in running' <=> g \in running)
      BY <1>5, <2>1
    <3> QED
      BY <3>1 DEF HandlersOf
  <2>4. Mine(s)' = Mine(s)
    BY <2>1, EventsKept DEF Mine
  <2> QED
    BY <2>1, <2>2, <2>3, <2>4 DEF Kept
<1> QED
  BY <1>2, <1>3, <1>4, <1>5

\* Steps of main do nothing to a request.
LEMMA MainKeeps ==
  ASSUME Typed, NEW s \in Req, MainOnly \/ \E kind \in Kinds : Poll(kind)
  PROVE  Kept(s)
<1>1. UNCHANGED <<pending, running, clients, ghosts>>
  BY DEF MainOnly, Poll, Rest
<1>2. Submitted' = Submitted
  BY PollKeepsEvents, EventsKept DEF MainOnly, Rest
<1> QED
  BY <1>1, <1>2 DEF clients, ghosts, Kept, HandlersOf, Mine

RequestsInv == TypeInv /\ \A r \in Req : RequestInv(r)

LEMMA RequestsNext == RequestsInv /\ [Next]_vars => RequestsInv'
<1> SUFFICES ASSUME RequestsInv, [Next]_vars, NEW s \in Req
             PROVE  RequestInv(s)'
  BY TypeInvNext DEF RequestsInv
<1>1. Typed /\ RequestInv(s) /\ \A r \in Req : RequestInv(r) /\ Tracked(r)
  BY DEF RequestsInv, TypeInv, RequestInv
<1>2. Kept(s) => RequestInv(s)'
  BY <1>1, KeptKeeps
<1>3. ASSUME NEW r \in Req, Sent(r) \/ Drop(r)
      PROVE  RequestInv(s)'
  BY <1>1, <1>2, <1>3, SentKeeps, DropKeeps, OthersKept
<1>4. ASSUME NEW r \in Req, NEW n \in Nat, NEW type \in Types, Dispatched(r, n, type)
      PROVE  RequestInv(s)'
  BY <1>1, <1>2, <1>4, DispatchedKeeps, OthersKept
<1>5. ASSUME NEW h \in running, Rewritten(h)
      PROVE  RequestInv(s)'
  <2>1. h.req \in Req
    BY <1>1 DEF Typed, Handler
  <2> QED
    BY <1>1, <1>2, <1>5, <2>1, RewrittenKeeps, OthersKept
<1> QED
  BY <1>1, <1>2, <1>3, <1>4, <1>5, MainKeeps, Steps

LEMMA RequestsInit == Init => RequestsInv
<1> SUFFICES ASSUME Init, NEW r \in Req  PROVE RequestInv(r)
  BY TypeInvInit DEF RequestsInv
<1>1. ~Has(r) /\ HandlersOf(r) = {} /\ stage[r] = "new" /\ sends[r] = 0
  BY KeyTyped DEF Init, Has, HandlersOf
<1>2. Mine(r) = {}
  BY DEF Init, Mine, Submitted
<1> QED
  BY <1>1, <1>2 DEF RequestInv, Tracked, EventInv, Quiet, Handles, Opening, Ending, Counting, Covered

LEMMA Requests == Spec => []RequestsInv
  BY RequestsInit, RequestsNext, PTL DEF Spec

\* An event counts the sends from the one its latency starts with to the last,
\* whichever sends and late answers came in between (trace_send_request,
\* existing_info->attempts++).
THEOREM SendsCounted == Spec => []AttemptsCounted
<1>1. RequestsInv => AttemptsCounted
  <2> SUFFICES ASSUME RequestsInv, NEW e \in Submitted, e.entry.req \notin overlapped
               PROVE  EventRight(e)
    BY DEF AttemptsCounted, EventRight
  <2>1. e.entry.req \in Req
    BY SubmittedTyped DEF RequestsInv, TypeInv, Event, Entry
  <2> QED
    BY <2>1 DEF RequestsInv, RequestInv, EventInv, Mine
<1> QED
  BY <1>1, Requests, PTL

\* The unsafe reply an MDS gave is still known when the safe one is reported
\* (trace_mds_dispatch, trace_prepare_send_request).
THEOREM UnsafeKept == Spec => []UnsafeReplyKept
<1>1. RequestsInv => UnsafeReplyKept
  <2> SUFFICES ASSUME RequestsInv, NEW e \in Submitted, e.entry.req \notin overlapped
               PROVE  EventRight(e)
    BY DEF UnsafeReplyKept, EventRight
  <2>1. e.entry.req \in Req
    BY SubmittedTyped DEF RequestsInv, TypeInv, Event, Entry
  <2> QED
    BY <2>1 DEF RequestsInv, RequestInv, EventInv, Mine
<1> QED
  BY <1>1, Requests, PTL

\* The send that was answered is in an event, or a table, a ring or a probe that
\* was missing accounts for it (trace_osd_dispatch, trace_mds_dispatch).
THEOREM AnswersAccountedFor == Spec => []AnswersReported
<1>1. RequestsInv => AnswersReported
  <2> SUFFICES ASSUME RequestsInv, NEW r \in Req \ overlapped,
                      stage[r] = "done", excuse[r] = "none"
               PROVE  \E e \in Submitted : e.entry.req = r /\ sends[r] \in SendsOf(e)
    BY DEF AnswersReported
  <2>1. PICK e \in Mine(r) : e.last = sends[r]
    BY DEF RequestsInv, RequestInv, Quiet, Covered, Latest
  <2>2. e \in Submitted /\ e.entry.req = r /\ e \in Event
    BY SubmittedTyped DEF RequestsInv, TypeInv, Mine
  <2>3. e.entry.first \in 1 .. e.last /\ e.entry.first + e.entry.attempts = e.last + 1
    BY DEF RequestsInv, RequestInv, EventInv, EventRight
  <2>4. e.last \in Nat /\ e.entry.first \in Nat /\ e.entry.attempts \in Nat
    BY <2>2 DEF Event, Entry
  <2>5. e.last \in e.entry.first .. e.entry.first + e.entry.attempts - 1
    BY <2>3, <2>4
  <2> QED
    BY <2>1, <2>2, <2>5 DEF SendsOf
<1> QED
  BY <1>1, Requests, PTL

\* An entry ends with its request however its replies overlap, unless the reply
\* was not probed yet (bpf_map_update_elem with BPF_EXIST, bpf_map_delete_elem).
THEOREM EntriesEnd == Spec => []EntriesReleased
<1>1. RequestsInv => EntriesReleased
  <2> SUFFICES ASSUME RequestsInv, NEW r \in Req, stage[r] = "done", KeyOf(r) \in Present
               PROVE  InHandler(r) \/ excuse[r] = "no probe"
    BY DEF EntriesReleased
  <2>1. Has(r) /\ Tracked(r)
    BY DEF RequestsInv, RequestInv, Present, Has
  <2> QED
    BY <2>1 DEF Tracked, Handles, HandlersOf, InHandler
<1> QED
  BY <1>1, Requests, PTL

-----------------------------------------------------------------------------
(* The order of the events                                                 *)

\* Of two events of a request the one submitted first is over before the other
\* begins.
Before(o, e, f) == e.entry.req = f.entry.req /\ e.entry.req \notin o => e.last < f.entry.first

RowsOrdered == \A i, j \in 1 .. Len(rows) : i < j => Before(overlapped, rows[i].event, rows[j].event)

RingOrdered(kind) ==
  /\ \A i \in 1 .. Len(rings[kind]) : KindOf[rings[kind][i].entry.req] = kind
  /\ \A i, j \in 1 .. Len(rings[kind]) : i < j => Before(overlapped, rings[kind][i], rings[kind][j])
  /\ \A i \in 1 .. Len(rows), j \in 1 .. Len(rings[kind]) : Before(overlapped, rows[i].event, rings[kind][j])

OrderInv == RequestsInv /\ RowsOrdered /\ \A kind \in Kinds : RingOrdered(kind)

\* What has overlapped stays so.
LEMMA OverlappedStays ==
  ASSUME Typed, [Next]_vars
  PROVE  overlapped \subseteq overlapped' /\ \A e, f : Before(overlapped, e, f) => Before(overlapped', e, f)
<1>1. overlapped \subseteq overlapped'
  BY Steps DEF Sent, Traced, Dispatched, Unknown, KeepPending, Submit, Rewritten, Filled,
               UnsafeWritten, DispatchDeletes, Drop, Poll, MainOnly, Rest, Overlap, ghosts
<1> QED
  BY <1>1 DEF Before

LEMMA SubmitOrdered ==
  ASSUME OrderInv, [Next]_vars, NEW r \in Req, NEW n \in Nat, NEW type \in Types,
         Submit(r, n, type), rows' = rows
  PROVE  RowsOrdered' /\ \A kind \in Kinds : RingOrdered(kind)'
<1>1. Typed /\ RequestInv(r) /\ RowsOrdered /\ \A kind \in Kinds : RingOrdered(kind)
  BY DEF OrderInv, RequestsInv, TypeInv
<1>2. \A e, f : Before(overlapped, e, f) => Before(overlapped', e, f)
  BY <1>1, OverlappedStays
<1>3. RowsOrdered'
  BY <1>1, <1>2 DEF RowsOrdered
<1>4. ASSUME NEW kind \in Kinds, rings'[kind] = rings[kind]  PROVE RingOrdered(kind)'
  BY <1>1, <1>2, <1>4 DEF RingOrdered
<1>5. ASSUME NEW latency \in FinalLatency, NewEvent(r, latency) \in Event,
             rings' = [rings EXCEPT ![KindOf[r]] = Append(@, NewEvent(r, latency))]
      PROVE  \A kind \in Kinds : RingOrdered(kind)'
  <2> DEFINE k == KindOf[r]  ring == rings[k]  event == NewEvent(r, latency)
  <2>1. k \in Kinds /\ ring \in Seq(Event) /\ rings \in [Kinds -> Seq(Event)] /\ event \in Event
    BY <1>1, <1>5, KeyTyped DEF Typed
  <2>2. rings'[k] = Append(ring, event) /\ \A kind \in Kinds : kind # k => rings'[kind] = rings[kind]
    BY <1>5, <2>1
  <2>3. /\ Has(r) /\ Overlap(r) /\ pending[KeyOf(r)].req = r
        /\ event.entry = pending[KeyOf(r)]
    BY <1>1 DEF Submit, Has, Present, NewEvent, RequestInv, Tracked
  <2>4. ASSUME NEW e \in Submitted  PROVE Before(overlapped', e, event)
    <3>1. ASSUME e.entry.req = r, r \notin overlapped'  PROVE e.last < event.entry.first
      <4>1. r \notin overlapped /\ HandlersOf(r) = {} /\ Quiet(r)
        BY <1>1, <2>3, <3>1, OverlapSeen DEF RequestInv
      <4>2. Closed(r, pending[KeyOf(r)].first)
        BY <2>3, <4>1 DEF Quiet, Counting, Handles
      <4> QED
        BY <2>3, <3>1, <4>2 DEF Closed, Mine
    <3> QED
      BY <2>3, <3>1 DEF Before
  <2>5. /\ Len(ring) \in Nat /\ Len(rings'[k]) = Len(ring) + 1
        /\ \A i \in 1 .. Len(ring) : rings'[k][i] = ring[i] /\ ring[i] \in Submitted
        /\ rings'[k][Len(ring) + 1] = event
        /\ \A i \in 1 .. Len(rings'[k]) : i \in 1 .. Len(ring) \/ i = Len(ring) + 1
    <3>1. \A i \in 1 .. Len(ring) : ring[i] \in Submitted
      BY <2>1, SubmittedIs DEF InRing
    <3>2. ring \in Seq(Event) /\ event \in Event /\ rings'[k] = Append(ring, event)
      BY <2>1, <2>2
    <3>3. ASSUME NEW s \in Seq(Event), NEW e \in Event
          PROVE  /\ Len(s) \in Nat /\ Len(Append(s, e)) = Len(s) + 1
                 /\ \A i \in 1 .. Len(s) : Append(s, e)[i] = s[i]
                 /\ Append(s, e)[Len(s) + 1] = e
                 /\ \A i \in 1 .. Len(Append(s, e)) : i \in 1 .. Len(s) \/ i = Len(s) + 1
      BY AppendIndices
    <3> HIDE DEF ring, event, k
    <3> QED
      BY <3>1, <3>2, <3>3
  <2>6. \A i \in 1 .. Len(rows) : rows[i].event \in Submitted
    BY SubmittedIs DEF InRows
  <2>7. RingOrdered(k)
    BY <1>1, <2>1
  <2>8. KindOf[event.entry.req] = k
    BY <2>3
  <2> HIDE DEF event
  <2>9. \A i \in 1 .. Len(rings'[k]) : KindOf[rings'[k][i].entry.req] = k
    BY <2>5, <2>7, <2>8 DEF RingOrdered
  <2>10. ASSUME NEW i \in 1 .. Len(rings'[k]), NEW j \in 1 .. Len(rings'[k]), i < j
         PROVE  Before(overlapped', rings'[k][i], rings'[k][j])
    <3>1. i \in 1 .. Len(ring)
      BY <2>5, <2>10
    <3>2. CASE j \in 1 .. Len(ring)
      <4>1. Before(overlapped, ring[i], ring[j])
        BY <2>7, <2>10, <3>1, <3>2 DEF RingOrdered
      <4> QED
        BY <1>2, <2>5, <3>1, <3>2, <4>1
    <3>3. CASE j = Len(ring) + 1
      <4>1. rings'[k][i] = ring[i] /\ ring[i] \in Submitted /\ rings'[k][j] = event
        BY <2>5, <3>1, <3>3
      <4> QED
        BY <2>4, <4>1 DEF Before
    <3> QED
      BY <2>5, <3>2, <3>3
  <2>11. ASSUME NEW i \in 1 .. Len(rows), NEW j \in 1 .. Len(rings'[k])
         PROVE  Before(overlapped', rows[i].event, rings'[k][j])
    <3>1. CASE j \in 1 .. Len(ring)
      <4>1. Before(overlapped, rows[i].event, ring[j])
        BY <2>7, <3>1 DEF RingOrdered
      <4> QED
        BY <1>2, <2>5, <3>1, <4>1
    <3>2. CASE j = Len(ring) + 1
      BY <2>4, <2>5, <2>6, <3>2
    <3> QED
      BY <2>5, <3>1, <3>2
  <2>12. RingOrdered(k)'
    BY <2>9, <2>10, <2>11 DEF RingOrdered
  <2> QED
    BY <1>4, <2>2, <2>12
<1>6. CASE rings' = rings
  BY <1>3, <1>4, <1>6
<1> QED
  BY <1>1, <1>3, <1>5, <1>6, SubmitAdds

LEMMA PollOrdered ==
  ASSUME OrderInv, [Next]_vars, NEW kind \in Kinds, Poll(kind)
  PROVE  RowsOrdered' /\ \A k \in Kinds : RingOrdered(k)'
<1> DEFINE ring == rings[kind]  rest == Tail(ring)  n == Len(rows)
<1>1. Typed /\ RowsOrdered /\ \A k \in Kinds : RingOrdered(k)
  BY DEF OrderInv, RequestsInv, TypeInv
<1>2. \A e, f : Before(overlapped, e, f) => Before(overlapped', e, f)
  BY <1>1, OverlappedStays
<1>3. /\ ring \in Seq(Event) /\ ring # << >> /\ rows \in Seq(Row)
      /\ rings'[kind] = rest /\ \A k \in Kinds : k # kind => rings'[k] = rings[k]
  BY <1>1 DEF Poll, Typed
<1>4. /\ ring[1] = Head(ring) /\ 1 \in 1 .. Len(ring)
      /\ \A i \in 1 .. Len(rest) : i + 1 \in 1 .. Len(ring) /\ rest[i] = ring[i + 1]
  <2> HIDE DEF ring
  <2> QED
    BY <1>3, TailIndices
<1>5. PICK row \in Row : row.event = Head(ring) /\ rows' = Append(rows, row)
  BY <1>1, PollRow
<1>6. /\ n \in Nat /\ \A i \in 1 .. n : rows'[i] = rows[i]
      /\ rows'[n + 1].event = ring[1]
      /\ \A i \in 1 .. Len(rows') : i \in 1 .. n \/ i = n + 1
  <2> HIDE DEF ring
  <2>1. /\ Len(rows) \in Nat /\ \A i \in 1 .. Len(rows) : rows'[i] = rows[i]
        /\ rows'[Len(rows) + 1] = row
        /\ \A i \in 1 .. Len(rows') : i \in 1 .. Len(rows) \/ i = Len(rows) + 1
    BY <1>3, <1>5, AppendIndices
  <2> QED
    BY <1>4, <1>5, <2>1
<1>7. RingOrdered(kind)
  BY <1>1
<1>8. \A i \in 1 .. Len(rest) : i + 1 > 1
  <2>1. \A i \in Nat \ {0} : i + 1 > 1
    OBVIOUS
  <2>2. 1 .. Len(rest) \subseteq Nat \ {0}
    OBVIOUS
  <2> QED
    BY <2>1, <2>2
<1> HIDE DEF rest, n
<1>9. \A i \in 1 .. n : Before(overlapped, rows[i].event, ring[1])
  BY <1>4, <1>7 DEF RingOrdered, n
<1>10. RowsOrdered'
  <2> SUFFICES ASSUME NEW i \in 1 .. Len(rows'), NEW j \in 1 .. Len(rows'), i < j
               PROVE  Before(overlapped', rows'[i].event, rows'[j].event)
    BY DEF RowsOrdered
  <2>1. i \in 1 .. n
    BY <1>6
  <2>2. CASE j \in 1 .. n
    <3>1. Before(overlapped, rows[i].event, rows[j].event)
      BY <1>1, <2>1, <2>2 DEF RowsOrdered, n
    <3> QED
      BY <1>2, <1>6, <2>1, <2>2, <3>1
  <2>3. CASE j = n + 1
    BY <1>2, <1>6, <1>9, <2>1, <2>3
  <2> QED
    BY <1>6, <2>2, <2>3
<1>11. RingOrdered(kind)'
  <2>1. \A i \in 1 .. Len(rest) : KindOf[rest[i].entry.req] = kind
    BY <1>4, <1>7 DEF RingOrdered
  <2>2. ASSUME NEW i \in 1 .. Len(rest), NEW j \in 1 .. Len(rest), i < j
        PROVE  Before(overlapped', rest[i], rest[j])
    <3>1. i + 1 \in 1 .. Len(ring) /\ j + 1 \in 1 .. Len(ring) /\ i + 1 < j + 1
      BY <1>4, <2>2
    <3>2. Before(overlapped, ring[i + 1], ring[j + 1])
      BY <1>7, <3>1 DEF RingOrdered
    <3> QED
      BY <1>2, <1>4, <3>2
  <2>3. ASSUME NEW i \in 1 .. Len(rows'), NEW j \in 1 .. Len(rest)
        PROVE  Before(overlapped', rows'[i].event, rest[j])
    <3>1. CASE i \in 1 .. n
      <4>1. Before(overlapped, rows[i].event, ring[j + 1])
        BY <1>4, <1>7, <3>1 DEF RingOrdered, n
      <4> QED
        BY <1>2, <1>4, <1>6, <3>1, <4>1
    <3>2. CASE i = n + 1
      <4>1. Before(overlapped, ring[1], ring[j + 1])
        BY <1>4, <1>7, <1>8 DEF RingOrdered
      <4> QED
        BY <1>2, <1>4, <1>6, <3>2, <4>1
    <3> QED
      BY <1>6, <3>1, <3>2
  <2> QED
    BY <1>3, <2>1, <2>2, <2>3 DEF RingOrdered
<1>12. ASSUME NEW k \in Kinds, k # kind  PROVE RingOrdered(k)'
  <2>1. RingOrdered(k) /\ rings'[k] = rings[k]
    BY <1>1, <1>3, <1>12
  <2>2. ASSUME NEW i \in 1 .. Len(rows'), NEW j \in 1 .. Len(rings[k])
        PROVE  Before(overlapped', rows'[i].event, rings[k][j])
    <3>1. CASE i \in 1 .. n
      <4>1. Before(overlapped, rows[i].event, rings[k][j])
        BY <2>1, <3>1 DEF RingOrdered, n
      <4> QED
        BY <1>2, <1>6, <3>1, <4>1
    <3>2. CASE i = n + 1
      <4>1. KindOf[ring[1].entry.req] = kind /\ KindOf[rings[k][j].entry.req] = k
        BY <1>4, <1>7, <2>1 DEF RingOrdered
      <4> QED
        BY <1>6, <1>12, <3>2, <4>1 DEF Before
    <3> QED
      BY <1>6, <3>1, <3>2
  <2> QED
    BY <1>2, <2>1, <2>2 DEF RingOrdered
<1> QED
  BY <1>10, <1>11, <1>12

LEMMA OrderNext == OrderInv /\ [Next]_vars => OrderInv'
<1> SUFFICES ASSUME OrderInv, [Next]_vars
             PROVE  RowsOrdered' /\ \A kind \in Kinds : RingOrdered(kind)'
  BY RequestsNext DEF OrderInv
<1>1. Typed /\ RowsOrdered /\ \A kind \in Kinds : RingOrdered(kind)
  BY DEF OrderInv, RequestsInv, TypeInv
<1>2. ASSUME rings' = rings, rows' = rows
      PROVE  RowsOrdered' /\ \A kind \in Kinds : RingOrdered(kind)'
  <2>1. \A e, f : Before(overlapped, e, f) => Before(overlapped', e, f)
    BY <1>1, OverlappedStays
  <2> QED
    BY <1>1, <1>2, <2>1 DEF RowsOrdered, RingOrdered
<1>3. CASE \/ \E r \in Req : Sent(r) \/ Drop(r)
           \/ \E h \in running : Rewritten(h)
           \/ MainOnly
  <2>1. rings' = rings /\ rows' = rows
    BY <1>3 DEF Sent, Send, Drop, Rewritten, Filled, UnsafeWritten, DispatchDeletes, MainOnly, Rest
  <2> QED
    BY <1>2, <2>1
<1>4. ASSUME NEW r \in Req, NEW n \in Nat, NEW type \in Types, Dispatched(r, n, type)
      PROVE  RowsOrdered' /\ \A kind \in Kinds : RingOrdered(kind)'
  <2>1. rows' = rows
    BY <1>4 DEF Dispatched, Receive
  <2>2. rings' = rings \/ Submit(r, n, type)
    BY <1>4 DEF Dispatched, Unknown, KeepPending
  <2> QED
    BY <1>2, <2>1, <2>2, SubmitOrdered
<1> QED
  BY <1>1, <1>3, <1>4, PollOrdered, Steps

LEMMA OrderInit == Init => OrderInv
<1> SUFFICES ASSUME Init  PROVE RowsOrdered /\ \A kind \in Kinds : RingOrdered(kind)
  BY RequestsInit DEF OrderInv
<1>1. rows = << >> /\ \A kind \in Kinds : rings[kind] = << >>
  BY DEF Init
<1> QED
  BY <1>1 DEF RowsOrdered, RingOrdered

-----------------------------------------------------------------------------
(* No send is in two events                                                *)

\* Events in order are two events, and no send is in both.
LEMMA OrderedApart ==
  ASSUME RequestsInv, NEW r \in Req, r \notin overlapped, NEW e \in Mine(r), NEW f \in Mine(r),
         Before(overlapped, e, f)
  PROVE  e # f /\ SendsOf(e) \cap SendsOf(f) = {}
<1>1. /\ e \in Event /\ f \in Event /\ e.entry.req = r /\ f.entry.req = r
      /\ EventRight(e) /\ EventRight(f)
  BY SubmittedTyped DEF RequestsInv, TypeInv, RequestInv, EventInv, Mine
<1>2. /\ e.entry.first \in Nat /\ e.entry.attempts \in Nat /\ e.last \in Nat
      /\ f.entry.first \in Nat /\ f.entry.attempts \in Nat /\ f.last \in Nat
  BY <1>1 DEF Event, Entry
<1>3. e.last < f.entry.first
  BY <1>1 DEF Before
<1>4. e.entry.first + e.entry.attempts = e.last + 1 /\ e.entry.first <= e.last
      /\ f.entry.first <= f.last
  BY <1>1, <1>2 DEF EventRight
<1>5. e # f
  BY <1>2, <1>3, <1>4
<1>6. SendsOf(e) \cap SendsOf(f) = {}
  <2> SUFFICES ASSUME NEW n \in SendsOf(e), n \in SendsOf(f)  PROVE FALSE
    OBVIOUS
  <2>1. n \in e.entry.first .. e.entry.first + e.entry.attempts - 1
    BY DEF SendsOf
  <2>2. n <= e.last /\ n \in Int
    BY <1>2, <1>4, <2>1
  <2>3. n \in f.entry.first .. f.entry.first + f.entry.attempts - 1
    BY DEF SendsOf
  <2>4. f.entry.first <= n
    BY <1>2, <2>2, <2>3
  <2> QED
    BY <1>2, <1>3, <2>2, <2>4
<1> QED
  BY <1>5, <1>6

\* As many places of a sequence as values in them, when no two are alike.
LEMMA PlacesCounted ==
  ASSUME NEW n \in Nat, NEW I \in SUBSET (1 .. n), NEW s,
         \A i, j \in I : i < j => s[i] # s[j]
  PROVE  /\ IsFiniteSet(I) /\ IsFiniteSet({s[i] : i \in I})
         /\ Cardinality({s[i] : i \in I}) = Cardinality(I)
<1> DEFINE T == {s[i] : i \in I}  g == [i \in I |-> s[i]]
<1>1. IsFiniteSet(I)
  <2>1. IsFiniteSet(1 .. n)
    BY FS_Interval
  <2> QED
    BY <2>1, FS_Subset
<1>2. g \in [I -> T] /\ \A t \in T : \E i \in I : g[i] = t
  OBVIOUS
<1>3. \A i, j \in I : g[i] = g[j] => i = j
  <2> SUFFICES ASSUME NEW i \in I, NEW j \in I, i # j  PROVE s[i] # s[j]
    OBVIOUS
  <2>1. i \in Int /\ j \in Int
    OBVIOUS
  <2>2. i < j \/ j < i
    BY <2>1
  <2> QED
    BY <2>2
<1> HIDE DEF T, g
<1>4. g \in Bijection(I, T)
  BY <1>2, <1>3 DEF Bijection, Injection, Surjection, IsInjective
<1>5. ExistsBijection(I, T)
  BY <1>4 DEF ExistsBijection
<1>6. IsFiniteSet(T) /\ Cardinality(T) = Cardinality(I)
  BY <1>1, <1>5, FS_Bijection
<1> QED
  BY <1>1, <1>6 DEF T

\* A send is in one event at most, and an event is in one place
\* (bpf_map_delete_elem after the submission).
THEOREM ReportedOnce == Spec => []SendsReportedOnce
<1>1. OrderInv => SendsReportedOnce
  <2> SUFFICES ASSUME OrderInv, NEW r \in Req \ overlapped
               PROVE  /\ EventsOf(r) = Cardinality(Mine(r))
                      /\ \A e, f \in Mine(r) : e = f \/ SendsOf(e) \cap SendsOf(f) = {}
    BY DEF SendsReportedOnce, Mine
  <2> DEFINE kind == KindOf[r]  ring == rings[kind]
             I == {i \in 1 .. Len(rows) : rows[i].event.entry.req = r}
             J == {i \in 1 .. Len(ring) : ring[i].entry.req = r}
             A == {rows[i].event : i \in I}
             B == {ring[i] : i \in J}
  <2>1. /\ RequestsInv /\ Typed /\ RowsOrdered /\ kind \in Kinds
        /\ \A k \in Kinds : RingOrdered(k)
    BY KeyTyped DEF OrderInv, RequestsInv, TypeInv
  <2>2. Len(rows) \in Nat /\ Len(ring) \in Nat
    <3>1. rows \in Seq(Row) /\ ring \in Seq(Event)
      BY <2>1 DEF Typed
    <3> HIDE DEF ring
    <3> QED
      BY <3>1
  <2>3. A \subseteq Mine(r) /\ B \subseteq Mine(r)
    BY <2>1, SubmittedIs DEF Mine, InRows, InRing
  <2>4. Mine(r) = A \cup B
    <3>1. ASSUME NEW e \in Mine(r)  PROVE e \in A \cup B
      <4>1. e.entry.req = r /\ e \in Submitted
        BY DEF Mine
      <4>2. CASE e \in InRows
        BY <4>1, <4>2 DEF InRows
      <4>3. ASSUME NEW k \in Kinds, e \in InRing(k)  PROVE e \in B
        <5>1. PICK i \in 1 .. Len(rings[k]) : e = rings[k][i]
          BY <4>3 DEF InRing
        <5>2. k = kind
          BY <2>1, <4>1, <5>1 DEF RingOrdered
        <5> QED
          BY <4>1, <5>1, <5>2
      <4> QED
        BY <4>1, <4>2, <4>3, SubmittedIs
    <3> QED
      BY <2>3, <3>1
  <2>5. \A i, j \in I : i < j => Before(overlapped, rows[i].event, rows[j].event)
    BY <2>1 DEF RowsOrdered
  <2>6. /\ \A i, j \in J : i < j => Before(overlapped, ring[i], ring[j])
        /\ \A i \in I, j \in J : Before(overlapped, rows[i].event, ring[j])
    BY <2>1 DEF RingOrdered
  <2>7. \A i \in I : rows[i].event \in Mine(r)
    BY <2>3
  <2>8. \A i \in J : ring[i] \in Mine(r)
    BY <2>3
  <2>9. \A e, f \in Mine(r) : Before(overlapped, e, f) => e # f /\ SendsOf(e) \cap SendsOf(f) = {}
    BY <2>1, OrderedApart
  <2>10. I \in SUBSET (1 .. Len(rows)) /\ J \in SUBSET (1 .. Len(ring))
    OBVIOUS
  <2>11. EventsOf(r) = Cardinality(I) + Cardinality(J)
    BY DEF EventsOf
  <2>12. IsFiniteSet(I) /\ IsFiniteSet(A) /\ Cardinality(A) = Cardinality(I)
    <3> DEFINE s == [i \in I |-> rows[i].event]
    <3>1. \A i, j \in I : i < j => s[i] # s[j]
      BY <2>5, <2>7, <2>9
    <3>2. A = {s[i] : i \in I}
      OBVIOUS
    <3> HIDE DEF s, I, A
    <3>3. /\ IsFiniteSet(I) /\ IsFiniteSet({s[i] : i \in I})
          /\ Cardinality({s[i] : i \in I}) = Cardinality(I)
      BY <2>2, <2>10, <3>1, PlacesCounted
    <3> QED
      BY <3>2, <3>3
  <2>13. IsFiniteSet(J) /\ IsFiniteSet(B) /\ Cardinality(B) = Cardinality(J)
    <3>1. \A i, j \in J : i < j => ring[i] # ring[j]
      BY <2>6, <2>8, <2>9
    <3> HIDE DEF J, ring
    <3> QED
      BY <2>2, <2>10, <3>1, PlacesCounted
  <2>14. A \cap B = {}
    BY <2>6, <2>7, <2>8, <2>9
  <2>15. \A e, f \in Mine(r) : e = f \/ SendsOf(e) \cap SendsOf(f) = {}
    <3> SUFFICES ASSUME NEW e \in Mine(r), NEW f \in Mine(r), e # f
                 PROVE  SendsOf(e) \cap SendsOf(f) = {}
      OBVIOUS
    <3>1. Before(overlapped, e, f) \/ Before(overlapped, f, e)
      <4>1. CASE e \in A /\ f \in A
        <5>1. PICK i \in I, j \in I : e = rows[i].event /\ f = rows[j].event
          BY <4>1
        <5>2. i < j \/ j < i
          <6>1. i \in Int /\ j \in Int /\ i # j
            BY <5>1
          <6> QED
            BY <6>1
        <5> QED
          BY <2>5, <5>1, <5>2
      <4>2. CASE e \in B /\ f \in B
        <5>1. PICK i \in J, j \in J : e = ring[i] /\ f = ring[j]
          BY <4>2
        <5>2. i < j \/ j < i
          <6>1. i \in Int /\ j \in Int /\ i # j
            BY <5>1
          <6> QED
            BY <6>1
        <5> QED
          BY <2>6, <5>1, <5>2
      <4>3. \A x \in A, y \in B : Before(overlapped, x, y)
        BY <2>6
      <4> QED
        BY <2>4, <4>1, <4>2, <4>3
    <3> QED
      BY <2>9, <3>1
  <2> HIDE DEF A, B, I, J
  <2>16. Cardinality(Mine(r)) = Cardinality(A) + Cardinality(B)
    <3>1. Cardinality(A \cup B) = Cardinality(A) + Cardinality(B) - Cardinality(A \cap B)
      BY <2>12, <2>13, FS_Union
    <3>2. Cardinality(A \cap B) = 0
      BY <2>14, FS_EmptySet
    <3>3. Cardinality(A) \in Nat /\ Cardinality(B) \in Nat
      BY <2>12, <2>13, FS_CardinalityType
    <3> QED
      BY <2>4, <3>1, <3>2, <3>3
  <2> QED
    BY <2>11, <2>12, <2>13, <2>15, <2>16
<1> QED
  BY <1>1, OrderInit, OrderNext, PTL DEF Spec
=============================================================================
