--------------------------- MODULE OsdTracerProofs ---------------------------
(***************************************************************************)
(* Proofs that osdtrace's probes, ring and drain loop implement the        *)
(* counted lossy channel of EventChannel, that a timeout loses nothing,    *)
(* that what is printed is labelled right, and that a process is tracked   *)
(* by all probes or by none, whatever the number of processes and events.  *)
(***************************************************************************)
EXTENDS OsdTracer, SequenceTheorems, WellFoundedInduction, TLAPS

\* The events are numbered in order of production.
Produced == [pid : Pid, kind : {"op", "bluestore"}]
EventInv == eventOf \in Seq(Produced) /\ rb \in Seq(Event)

\* The part of the state the channel is made of.
ChannelVars == <<Len(eventOf), rb, handled, rb_drops>>

LEMMA EventInvInit == Init => EventInv
  BY EmptySeq DEF Init, EventInv

LEMMA SubmitsOne ==
  ASSUME EventInv, NEW p \in Pid, NEW kind \in {"op", "bluestore"}, Submit(p, kind)
  PROVE  /\ eventOf' = Append(eventOf, [pid |-> p, kind |-> kind])
         /\ eventOf' \in Seq(Produced)
         /\ Len(eventOf) \in Nat /\ Len(eventOf)' = Len(eventOf) + 1
         /\ Len(eventOf) + 1 \in Event
         /\ handled' = handled
         /\ \/ rb' = Append(rb, Len(eventOf) + 1) /\ rb_drops' = rb_drops
            \/ rb' = rb /\ rb_drops' = rb_drops + 1
<1>1. eventOf' = Append(eventOf, [pid |-> p, kind |-> kind])
  BY DEF Submit
<1>2. eventOf \in Seq(Produced) /\ [pid |-> p, kind |-> kind] \in Produced
  BY DEF EventInv, Produced
<1>3. eventOf' \in Seq(Produced) /\ Len(eventOf') = Len(eventOf) + 1
  BY <1>1, <1>2
<1>4. Len(eventOf) \in Nat
  BY <1>2
<1>5. Len(eventOf) + 1 \in Event
  BY <1>4, TracerAssumption DEF Submit, Event, TracerAssumption
<1>6. handled' = handled
  BY DEF Submit, output
<1>7. \/ rb' = Append(rb, Len(eventOf) + 1) /\ rb_drops' = rb_drops
      \/ rb' = rb /\ rb_drops' = rb_drops + 1
  BY DEF Submit, count_rb_drop
<1> QED
  BY <1>1, <1>3, <1>4, <1>5, <1>6, <1>7

\* Only Consume and Submit touch the channel.
LEMMA OthersLeaveChannel ==
  ASSUME \/ attach_probe \/ Start \/ Loop \/ Return \/ LastReturn \/ Exit
         \/ signal_handler \/ timeout_handler
         \/ \E p \in Pid : ProcessExits(p) \/ ProcessStarts(p)
         \/ UNCHANGED vars
  PROVE  eventOf' = eventOf /\ rb' = rb /\ handled' = handled /\ rb_drops' = rb_drops
<1>1. CASE attach_probe
  BY <1>1 DEF attach_probe, ring, output, env
<1>2. CASE Start \/ Loop \/ Return \/ LastReturn
  BY <1>2 DEF Start, Loop, Return, LastReturn, ring, output, env
<1>3. CASE Exit \/ signal_handler \/ timeout_handler
  BY <1>3 DEF Exit, signal_handler, timeout_handler, ring, output, env
<1>4. CASE \E p \in Pid : ProcessExits(p) \/ ProcessStarts(p)
  BY <1>4 DEF ProcessExits, ProcessStarts, ring, output
<1>5. CASE UNCHANGED vars
  BY <1>5 DEF vars, ring, output, env
<1> QED
  BY <1>1, <1>2, <1>3, <1>4, <1>5

LEMMA Cases ==
  ASSUME [Next]_vars
  PROVE  \/ Consume
         \/ \E p \in Pid, kind \in {"op", "bluestore"} : Submit(p, kind)
         \/ \/ attach_probe \/ Start \/ Loop \/ Return \/ LastReturn \/ Exit
            \/ signal_handler \/ timeout_handler
            \/ \E p \in Pid : ProcessExits(p) \/ ProcessStarts(p)
            \/ UNCHANGED vars
  BY DEF Next, MainStep

LEMMA EventInvNext == EventInv /\ [Next]_vars => EventInv'
<1> SUFFICES ASSUME EventInv, [Next]_vars  PROVE EventInv'
  OBVIOUS
<1>1. CASE Consume
  <2>1. rb # << >> /\ rb' = Tail(rb) /\ eventOf' = eventOf
    BY <1>1 DEF Consume, env
  <2> QED
    BY <2>1 DEF EventInv
<1>2. CASE \E p \in Pid, kind \in {"op", "bluestore"} : Submit(p, kind)
  <2>1. PICK p \in Pid, kind \in {"op", "bluestore"} : Submit(p, kind)
    BY <1>2
  <2>2. /\ eventOf' \in Seq(Produced) /\ Len(eventOf) + 1 \in Event
        /\ rb' = Append(rb, Len(eventOf) + 1) \/ rb' = rb
    BY <2>1, SubmitsOne
  <2> QED
    BY <2>2 DEF EventInv
<1>3. CASE \/ attach_probe \/ Start \/ Loop \/ Return \/ LastReturn \/ Exit
           \/ signal_handler \/ timeout_handler
           \/ \E p \in Pid : ProcessExits(p) \/ ProcessStarts(p)
           \/ UNCHANGED vars
  BY <1>3, OthersLeaveChannel DEF EventInv
<1> QED
  BY <1>1, <1>2, <1>3, Cases

-----------------------------------------------------------------------------
(* The refinement                                                          *)

LEMMA StepRefines == EventInv /\ [Next]_vars => [Channel!Next]_ChannelVars
<1> SUFFICES ASSUME EventInv, [Next]_vars  PROVE [Channel!Next]_ChannelVars
  OBVIOUS
<1>1. CASE Consume
  <2>1. /\ rb # << >> /\ rb' = Tail(rb) /\ rb_drops' = rb_drops
        /\ handled' = Append(handled, Head(rb)) /\ eventOf' = eventOf
    BY <1>1 DEF Consume, handle_event, env
  <2>2. Channel!Deliver
    BY <2>1 DEF Channel!Deliver
  <2> QED
    BY <2>2 DEF Channel!Next
<1>2. CASE \E p \in Pid, kind \in {"op", "bluestore"} : Submit(p, kind)
  <2>1. PICK p \in Pid, kind \in {"op", "bluestore"} : Submit(p, kind)
    BY <1>2
  <2> DEFINE e == Len(eventOf) + 1
  <2>2. /\ Len(eventOf)' = e /\ e \in Event /\ handled' = handled
        /\ \/ rb' = Append(rb, e) /\ rb_drops' = rb_drops
           \/ rb' = rb /\ rb_drops' = rb_drops + 1
    BY <2>1, SubmitsOne
  <2>3. CASE rb' = Append(rb, e) /\ rb_drops' = rb_drops
    <3>1. Channel!Produce(e)
      BY <2>2, <2>3 DEF Channel!Produce
    <3> QED
      BY <2>2, <3>1 DEF Channel!Next
  <2>4. CASE rb' = rb /\ rb_drops' = rb_drops + 1
    <3>1. Channel!Lose
      BY <2>2, <2>4 DEF Channel!Lose
    <3> QED
      BY <3>1 DEF Channel!Next
  <2> QED
    BY <2>2, <2>3, <2>4
<1>3. CASE \/ attach_probe \/ Start \/ Loop \/ Return \/ LastReturn \/ Exit
           \/ signal_handler \/ timeout_handler
           \/ \E p \in Pid : ProcessExits(p) \/ ProcessStarts(p)
           \/ UNCHANGED vars
  BY <1>3, OthersLeaveChannel DEF ChannelVars
<1> QED
  BY <1>1, <1>2, <1>3, Cases

\* osdtrace implements the channel: each event is printed once and in order, or
\* counted in rb_drops when it is produced (osdtrace.bpf.c:82-104,
\* osdtrace.cc:1718-1726).
THEOREM TracerDelivers == Spec => Delivers
<1>1. Init => Channel!Init
  BY EmptySeq DEF Init, Channel!Init
<1>2. EventInv /\ [Next]_vars => [Channel!Next]_Channel!channel
  BY StepRefines DEF ChannelVars, Channel!channel
<1> QED
  BY <1>1, <1>2, EventInvInit, EventInvNext, PTL DEF Spec, Delivers, Channel!Spec

-----------------------------------------------------------------------------
(* The final drain                                                         *)

\* mark is where the alarm cut the numbering of events; the main thread leaves
\* the loop with a timeout only after the alarm, and once the final drain is
\* over, what is in the ring is newer.
TimeoutInv ==
  /\ timeout_occurred => mark \in Nat /\ mark <= Len(eventOf)
  /\ pc \in {"final", "leave", "exited"} => timeout_occurred
  /\ pc \in {"leave", "exited"} => \A i \in 1 .. Len(rb) : rb[i] > mark

LEMMA TimeoutInvNext == EventInv /\ TimeoutInv /\ [Next]_vars => TimeoutInv'
<1> SUFFICES ASSUME EventInv, TimeoutInv, [Next]_vars  PROVE TimeoutInv'
  OBVIOUS
<1>1. CASE Consume
  <2>1. /\ pc' \notin {"leave", "exited"} /\ (pc' = "final" => pc = "final")
        /\ UNCHANGED <<timeout_occurred, mark, eventOf>>
    BY <1>1 DEF Consume, env
  <2> QED
    BY <2>1 DEF TimeoutInv
<1>2. CASE \E p \in Pid, kind \in {"op", "bluestore"} : Submit(p, kind)
  <2>1. PICK p \in Pid, kind \in {"op", "bluestore"} : Submit(p, kind)
    BY <1>2
  <2>2. /\ Len(eventOf)' = Len(eventOf) + 1 /\ Len(eventOf) \in Nat
        /\ rb' = Append(rb, Len(eventOf) + 1) \/ rb' = rb
    BY <2>1, SubmitsOne
  <2>3. UNCHANGED <<pc, timeout_occurred, mark>>
    BY <2>1 DEF Submit
  <2>4. timeout_occurred => mark \in Nat /\ mark <= Len(eventOf)
    BY DEF TimeoutInv
  <2>5. ASSUME pc \in {"leave", "exited"}, NEW i \in 1 .. Len(rb')
        PROVE  rb'[i] > mark
    <3>1. mark \in Nat /\ mark <= Len(eventOf) /\ \A j \in 1 .. Len(rb) : rb[j] > mark
      BY <2>4, <2>5 DEF TimeoutInv
    <3>2. CASE rb' = rb
      BY <2>5, <3>1, <3>2
    <3>3. CASE rb' = Append(rb, Len(eventOf) + 1)
      <4>1. rb \in Seq(Event)
        BY DEF EventInv
      <4>2. CASE i \in 1 .. Len(rb)
        BY <3>1, <3>3, <4>1, <4>2
      <4>3. CASE i = Len(rb) + 1
        <5>1. rb'[i] = Len(eventOf) + 1
          BY <3>3, <4>1, <4>3
        <5> QED
          BY <2>2, <3>1, <5>1
      <4> QED
        BY <2>5, <3>3, <4>1, <4>2, <4>3
    <3> QED
      BY <2>2, <3>2, <3>3
  <2> QED
    BY <2>2, <2>3, <2>4, <2>5 DEF TimeoutInv
<1>3. CASE Loop
  <2>1. /\ pc' \in {"drain", "final"} /\ (pc' = "final" => timeout_occurred)
        /\ UNCHANGED <<timeout_occurred, mark, eventOf>>
    BY <1>3 DEF Loop, KeepsGoing, env
  <2> QED
    BY <2>1 DEF TimeoutInv
<1>4. CASE LastReturn
  <2>1. /\ pc = "final" /\ rb = << >> /\ rb' = rb
        /\ UNCHANGED <<timeout_occurred, mark, eventOf>>
    BY <1>4 DEF LastReturn, DrainDone, ring, env
  <2> QED
    BY <2>1 DEF TimeoutInv
<1>5. CASE Exit
  <2>1. pc = "leave" /\ UNCHANGED <<timeout_occurred, mark, eventOf, rb>>
    BY <1>5 DEF Exit, ring, env
  <2> QED
    BY <2>1 DEF TimeoutInv
<1>6. CASE signal_handler
  <2>1. pc' = "killed" /\ UNCHANGED <<timeout_occurred, mark, eventOf>>
    BY <1>6 DEF signal_handler, env
  <2> QED
    BY <2>1 DEF TimeoutInv
<1>7. CASE timeout_handler
  <2>1. /\ ~timeout_occurred /\ mark' = Len(eventOf)
        /\ UNCHANGED <<pc, eventOf>>
    BY <1>7 DEF timeout_handler, env
  <2> QED
    BY <2>1 DEF TimeoutInv, EventInv
<1>8. CASE attach_probe \/ Start \/ Return
  <2>1. /\ pc' \notin {"final", "leave", "exited"}
        /\ UNCHANGED <<timeout_occurred, mark, eventOf>>
    BY <1>8 DEF attach_probe, Start, Return, env
  <2> QED
    BY <2>1 DEF TimeoutInv
<1>9. CASE (\E p \in Pid : ProcessExits(p) \/ ProcessStarts(p)) \/ UNCHANGED vars
  <2>1. UNCHANGED <<pc, timeout_occurred, mark, eventOf, rb>>
    BY <1>9 DEF ProcessExits, ProcessStarts, ring, env, vars
  <2> QED
    BY <2>1 DEF TimeoutInv
<1> QED
  BY <1>1, <1>2, <1>3, <1>4, <1>5, <1>6, <1>7, <1>8, <1>9, Cases

\* An event that is still in the ring when the tracer leaves on a timeout was
\* produced after the alarm: the final drain (osdtrace.cc:1725) took the others.
THEOREM FinalDrainComplete == Spec => []TimeoutLosesNothing
<1>1. Init => TimeoutInv
  BY DEF Init, TimeoutInv
<1>2. TimeoutInv => TimeoutLosesNothing
  BY DEF TimeoutInv, TimeoutLosesNothing
<1> QED
  BY <1>1, <1>2, EventInvInit, EventInvNext, TimeoutInvNext, PTL DEF Spec

-----------------------------------------------------------------------------
(* What is attached is handled                                             *)

LEMMA MinIn ==
  ASSUME NEW S \in SUBSET Nat, S # {}
  PROVE  Min(S) \in S /\ \A y \in S : Min(S) <= y
<1> DEFINE less == {ss \in Nat \X Nat : ss[1] < ss[2]}
<1>1. PICK x \in S : \A y \in S : <<y, x>> \notin less
  BY NatLessThanWellFounded, WFMin DEF OpToRel
<1>2. ASSUME NEW y \in S  PROVE x <= y
  <2>1. x \in Nat /\ y \in Nat /\ <<y, x>> \notin less
    BY <1>1
  <2>2. <<y, x>> \in Nat \X Nat /\ <<y, x>>[1] = y /\ <<y, x>>[2] = x
    BY <2>1
  <2>3. ~ (y < x)
    BY <2>1, <2>2, Zenon
  <2> QED
    BY <2>1, <2>3
<1> QED
  BY <1>2 DEF Min

RowFunctions == {FullModeFirst[i] : i \in 1 .. 14}
               \cup {"OSD::enqueue_op", "PrimaryLogPG::log_op_stats",
                     "BlueStore::log_latency", "BlueStore::log_latency_fn"}
AttachEntry == [func : RowFunctions, mode : {"SINGLE", "FULL", "BLUESTORE"}, exact : BOOLEAN]

\* Only the row of single mode is exact, and it is.
LEMMA Rows ==
  /\ ATTACH_LIST \in Seq(AttachEntry)
  /\ \A r \in 1 .. Len(ATTACH_LIST) :
       ATTACH_LIST[r].mode = "SINGLE" => ATTACH_LIST[r].exact
<1> DEFINE functions == Append(FullModeFirst, "OSD::enqueue_op")
           single == Row("PrimaryLogPG::log_op_stats", "SINGLE", TRUE)
           full == [i \in 1 .. Len(functions) |-> Full(functions[i])]
           latency == Row("BlueStore::log_latency", "BLUESTORE", FALSE)
           latency_fn == Row("BlueStore::log_latency_fn", "BLUESTORE", FALSE)
           Good == {e \in AttachEntry : e.mode = "SINGLE" => e.exact}
<1>1. functions \in Seq(RowFunctions)
  <2>1. FullModeFirst \in Seq(RowFunctions)
    BY DEF FullModeFirst, RowFunctions
  <2> QED
    BY <2>1 DEF RowFunctions
<1>2. single \in Good /\ latency \in Good /\ latency_fn \in Good
  BY DEF Row, AttachEntry, RowFunctions
<1>3. full \in Seq(Good)
  <2>1. \A i \in 1 .. Len(functions) : Full(functions[i]) \in Good
    BY <1>1 DEF Full, Row, AttachEntry
  <2> HIDE DEF functions, Good
  <2> QED
    BY <1>1, <2>1
<1>4. ATTACH_LIST = << single >> \o full \o << latency, latency_fn >>
  BY DEF ATTACH_LIST, RowsWith
<1>5. ATTACH_LIST \in Seq(Good)
  <2> HIDE DEF single, full, latency, latency_fn, Good
  <2>1. << single >> \in Seq(Good) /\ << latency, latency_fn >> \in Seq(Good)
    BY <1>2
  <2> QED
    BY <1>3, <1>4, <2>1
<1> QED
  BY <1>5

RowNumbers == 1 .. Len(ATTACH_LIST)

\* The row being attached, and every row attached, is one for the probe mode.
RowInv ==
  /\ row \in 1 .. Len(ATTACH_LIST) + 1
  /\ row \in RowNumbers => Enabled(row)
  /\ \A l \in links : l[1] \in RowNumbers /\ Enabled(l[1])

LEMMA RowFromEnabled ==
  ASSUME NEW r \in Nat \ {0}
  PROVE  /\ RowFrom(r) \in 1 .. Len(ATTACH_LIST) + 1
         /\ RowFrom(r) \in RowNumbers => Enabled(RowFrom(r))
<1> DEFINE S == {i \in r .. Len(ATTACH_LIST) : Enabled(i)} \cup {Len(ATTACH_LIST) + 1}
<1>1. Len(ATTACH_LIST) \in Nat
  BY Rows
<1>2. S \in SUBSET Nat /\ S # {}
  BY <1>1
<1>3. Min(S) \in S
  BY <1>2, MinIn
<1>4. RowFrom(r) = Min(S)
  BY DEF RowFrom
<1> HIDE DEF S
<1>5. \A i \in S : i = Len(ATTACH_LIST) + 1 \/ (i \in r .. Len(ATTACH_LIST) /\ Enabled(i))
  BY DEF S
<1> QED
  BY <1>1, <1>3, <1>4, <1>5 DEF RowNumbers

LEMMA AttachKeepsRows == RowInv /\ attach_probe => RowInv'
<1> SUFFICES ASSUME RowInv, attach_probe  PROVE RowInv'
  OBVIOUS
<1>1. Len(ATTACH_LIST) \in Nat
  BY Rows
<1>2. row \in RowNumbers /\ Enabled(row) /\ probe_mode' = probe_mode
  BY <1>1 DEF attach_probe, options, RowInv, RowNumbers
<1>3. \/ row' = RowFrom(row + 1)
      \/ row' = row
  BY DEF attach_probe, NextRow
<1>4. \A l \in links' : l \in links \/ l[1] = row
  BY DEF attach_probe
<1>5. row + 1 \in Nat \ {0}
  BY <1>2 DEF RowNumbers
<1>6. /\ row' \in 1 .. Len(ATTACH_LIST) + 1
      /\ row' \in RowNumbers => Enabled(row')
  BY <1>2, <1>3, <1>5, RowFromEnabled DEF RowInv
<1>7. \A r : Enabled(r)' <=> Enabled(r)
  BY <1>2 DEF Enabled
<1>8. (row \in RowNumbers => Enabled(row))'
  BY <1>2, <1>6 DEF Enabled
<1>9. (\A l \in links : l[1] \in RowNumbers /\ Enabled(l[1]))'
  BY <1>2, <1>4, <1>7 DEF RowInv
<1> QED
  BY <1>6, <1>8, <1>9 DEF RowInv

LEMMA OthersKeepLinks ==
  ASSUME [Next]_vars, ~attach_probe
  PROVE  UNCHANGED <<probe_mode, row, links>>
<1>1. CASE Consume \/ Start \/ Loop \/ Return \/ LastReturn \/ Exit
  BY <1>1 DEF Consume, Start, Loop, Return, LastReturn, Exit, options, attaching
<1>2. CASE \E p \in Pid, kind \in {"op", "bluestore"} : Submit(p, kind)
  BY <1>2 DEF Submit, options, attaching
<1>3. CASE signal_handler \/ timeout_handler
  BY <1>3 DEF signal_handler, timeout_handler, options, attaching
<1>4. CASE (\E p \in Pid : ProcessExits(p) \/ ProcessStarts(p)) \/ UNCHANGED vars
  BY <1>4 DEF ProcessExits, ProcessStarts, vars, options, attaching
<1> QED
  BY <1>1, <1>2, <1>3, <1>4, Cases

LEMMA RowInvNext == RowInv /\ [Next]_vars => RowInv'
<1> SUFFICES ASSUME RowInv, [Next]_vars, ~attach_probe  PROVE RowInv'
  BY AttachKeepsRows
<1>1. UNCHANGED <<probe_mode, row, links>>
  BY OthersKeepLinks
<1> QED
  BY <1>1 DEF RowInv, Enabled

LEMMA RowInvInit == Init => RowInv
<1> SUFFICES ASSUME Init  PROVE RowInv
  OBVIOUS
<1>1. row = RowFrom(1) /\ links = {}
  BY DEF Init
<1> QED
  BY <1>1, RowFromEnabled DEF RowInv

Handles(kind) == LooksUp(kind) /\ Prints(kind)

\* The conditions of handle_event match those of ATTACH_LIST.
LEMMA SubmitsHandled ==
  ASSUME RowInv, NEW p \in Pid, NEW kind \in {"op", "bluestore"}, Submits(p, kind)
  PROVE  Handles(kind)
<1>1. ASSUME NEW func, NEW mode, Linked(func, mode, p)
      PROVE  mode \in probe_mode /\ (mode = "SINGLE" => probe_mode = {"SINGLE"})
  <2>1. PICK r \in 1 .. Len(ATTACH_LIST) :
          /\ ATTACH_LIST[r].mode = mode
          /\ <<r, p>> \in links \/ <<r, AnyProcess>> \in links
    BY <1>1 DEF Linked
  <2>2. Enabled(r)
    BY <2>1 DEF RowInv
  <2> QED
    BY <2>1, <2>2, Rows DEF Enabled
<1>2. CASE kind = "op"
  <2>1. probe_mode = {"SINGLE"} \/ "FULL" \in probe_mode
    BY <1>1, <1>2 DEF Submits
  <2> QED
    BY <1>2, <2>1 DEF Handles, LooksUp, Prints
<1>3. CASE kind = "bluestore"
  <2>1. "BLUESTORE" \in probe_mode
    BY <1>1, <1>3 DEF Submits
  <2> QED
    BY <1>3, <2>1 DEF Handles, LooksUp, Prints
<1> QED
  BY <1>2, <1>3

-----------------------------------------------------------------------------
(* What is printed                                                         *)

RightId(id, p) == id = OsdOf[p] \/ (id = Unknown /\ p \notin alive)
CacheEntry == [osd : {OsdOf[p] : p \in Pid} \cup {Unknown}, pid : Pid \cup {0}]

CacheInv ==
  /\ cache \in Seq(CacheEntry)
  /\ \A i \in 1 .. Len(cache) : cache[i].pid \in Pid =>
       cache[i].pid \in started /\ RightId(cache[i].osd, cache[i].pid)
  /\ CacheFits

PrintedInv ==
  /\ alive \subseteq started /\ started \subseteq Pid
  /\ \A e \in 1 .. Len(eventOf) :
       eventOf[e].pid \in started /\ Handles(eventOf[e].kind)
  /\ \A i \in 1 .. Len(rb) : rb[i] <= Len(eventOf)
  /\ handled \in Seq(Event) /\ labels \in Seq({OsdOf[p] : p \in Pid} \cup {Unknown})
  /\ Len(labels) = Len(handled)
  /\ \A i \in 1 .. Len(handled) : handled[i] <= Len(eventOf)
  /\ LabelledRight

LEMMA EventsProduced ==
  ASSUME EventInv, PrintedInv
  PROVE  /\ \A i \in 1 .. Len(rb) : rb[i] \in 1 .. Len(eventOf)
         /\ \A i \in 1 .. Len(handled) : handled[i] \in 1 .. Len(eventOf)
<1>1. /\ \A i \in 1 .. Len(rb) : rb[i] \in Event /\ rb[i] <= Len(eventOf)
      /\ \A i \in 1 .. Len(handled) : handled[i] \in Event /\ handled[i] <= Len(eventOf)
      /\ Len(eventOf) \in Nat
  BY DEF EventInv, PrintedInv
<1>2. \A e \in Event : e <= Len(eventOf) => e \in 1 .. Len(eventOf)
  BY <1>1 DEF Event
<1> QED
  BY <1>1, <1>2

LEMMA RightLabel ==
  ASSUME CacheInv, NEW p \in started, started \subseteq Pid
  PROVE  /\ osd_pid_to_id(p) \in {OsdOf[q] : q \in Pid} \cup {Unknown}
         /\ RightId(osd_pid_to_id(p), p)
<1> DEFINE hits == {i \in 1 .. Len(cache) : cache[i].pid = p}
<1>1. CASE hits = {}
  BY <1>1 DEF osd_pid_to_id, RightId
<1>2. CASE hits # {}
  <2>1. hits \in SUBSET Nat
    OBVIOUS
  <2>2. Min(hits) \in hits
    BY <1>2, <2>1, MinIn
  <2>3. osd_pid_to_id(p) = cache[Min(hits)].osd
    BY <1>2 DEF osd_pid_to_id
  <2>4. PICK i \in 1 .. Len(cache) : i = Min(hits) /\ cache[i].pid = p
    BY <2>2
  <2> HIDE DEF hits
  <2>5. cache[i] \in CacheEntry /\ RightId(cache[i].osd, p)
    BY <2>4 DEF CacheInv
  <2> QED
    BY <2>3, <2>4, <2>5 DEF CacheEntry
<1> QED
  BY <1>1, <1>2

\* One more entry for an OSD that has none.
LEMMA CacheGrows ==
  ASSUME CacheInv, NEW p \in started, started \subseteq Pid,
         NEW id \in {OsdOf[q] : q \in Pid} \cup {Unknown}, RightId(id, p),
         cache' = CacheOnce(id, p), UNCHANGED <<started, alive>>
  PROVE  CacheInv'
<1>1. CASE exists(cache, id)
  <2>1. cache' = cache
    BY <1>1 DEF CacheOnce
  <2> QED
    BY <2>1 DEF CacheInv, CacheFits, RightId
<1>2. CASE ~exists(cache, id)
  <2> DEFINE entry == [osd |-> id, pid |-> p]
  <2>1. cache' = Append(cache, entry) /\ cache \in Seq(CacheEntry) /\ entry \in CacheEntry
    BY <1>2 DEF CacheOnce, CacheInv, CacheEntry
  <2>2. entry.osd = id /\ entry.pid = p
    OBVIOUS
  <2> HIDE DEF entry
  <2>3. /\ cache' \in Seq(CacheEntry) /\ Len(cache') = Len(cache) + 1
        /\ cache'[Len(cache) + 1] = entry
        /\ \A i \in 1 .. Len(cache) : cache'[i] = cache[i]
    BY <2>1
  <2>4. \A i \in 1 .. Len(cache) : cache[i].osd # id
    BY <1>2 DEF exists
  <2>5. CacheFits'
    <3> SUFFICES ASSUME NEW i \in 1 .. Len(cache'), NEW j \in 1 .. Len(cache'),
                        cache'[i].osd = cache'[j].osd
                 PROVE  i = j
      BY DEF CacheFits
    <3>1. CASE i \in 1 .. Len(cache) /\ j \in 1 .. Len(cache)
      BY <2>3, <3>1 DEF CacheInv, CacheFits
    <3>2. CASE i = Len(cache) + 1 \/ j = Len(cache) + 1
      BY <2>1, <2>2, <2>3, <2>4, <3>2
    <3> QED
      BY <2>1, <2>3, <3>1, <3>2
  <2>6. ASSUME NEW i \in 1 .. Len(cache'), cache'[i].pid \in Pid
        PROVE  cache'[i].pid \in started /\ RightId(cache'[i].osd, cache'[i].pid)
    <3>1. CASE i \in 1 .. Len(cache)
      BY <2>3, <2>6, <3>1 DEF CacheInv
    <3>2. CASE i = Len(cache) + 1
      BY <2>2, <2>3, <3>2
    <3> QED
      BY <2>1, <2>3, <3>1, <3>2
  <2> QED
    BY <2>3, <2>5, <2>6 DEF CacheInv, RightId
<1> QED
  BY <1>1, <1>2

LEMMA ConsumePrints ==
  ASSUME EventInv, PrintedInv, CacheInv, Consume
  PROVE  PrintedInv' /\ CacheInv'
<1> DEFINE e == Head(rb)
           p == eventOf[e].pid
           id == osd_pid_to_id(p)
<1>1. rb # << >> /\ rb' = Tail(rb) /\ rb \in Seq(Event)
  BY DEF Consume, EventInv
<1>2. e \in Event /\ e <= Len(eventOf) /\ rb[1] = e
  BY <1>1 DEF PrintedInv
<1>3. e \in 1 .. Len(eventOf)
  BY <1>1, <1>2, EventsProduced
<1>4. p \in started /\ LooksUp(eventOf[e].kind) /\ started \subseteq Pid
  BY <1>3 DEF PrintedInv, Handles
<1>5. /\ UNCHANGED <<started, alive, eventOf, probe_mode>>
      /\ handled' = Append(handled, e) /\ labels' = Append(labels, id)
      /\ cache' = CacheOnce(id, p)
  BY <1>4 DEF Consume, handle_event, env, options
<1> HIDE DEF e, p
<1>6. id \in {OsdOf[q] : q \in Pid} \cup {Unknown} /\ RightId(id, p)
  BY <1>4, RightLabel
<1> HIDE DEF id
<1>7. CacheInv'
  BY <1>4, <1>5, <1>6, CacheGrows
<1>8. \A i \in 1 .. Len(rb') : rb'[i] <= Len(eventOf')
  BY <1>1, <1>5 DEF PrintedInv
<1>9. /\ handled' \in Seq(Event) /\ labels' \in Seq({OsdOf[q] : q \in Pid} \cup {Unknown})
      /\ Len(labels') = Len(handled')
      /\ \A i \in 1 .. Len(handled') : handled'[i] <= Len(eventOf')
  BY <1>2, <1>5, <1>6 DEF PrintedInv
<1>10. ASSUME NEW i \in 1 .. Len(handled')
       PROVE  RightId(labels'[i], eventOf'[handled'[i]].pid)
  <2>1. /\ handled \in Seq(Event) /\ labels \in Seq({OsdOf[q] : q \in Pid} \cup {Unknown})
        /\ Len(labels) = Len(handled)
    BY DEF PrintedInv
  <2>2. CASE i \in 1 .. Len(handled)
    <3>1. handled'[i] = handled[i] /\ labels'[i] = labels[i]
      BY <1>5, <2>1, <2>2
    <3> QED
      BY <1>5, <2>2, <3>1 DEF PrintedInv, LabelledRight, RightId
  <2>3. CASE i = Len(handled) + 1
    <3>1. handled'[i] = e /\ labels'[i] = id
      BY <1>5, <2>1, <2>3
    <3> QED
      BY <1>5, <1>6, <3>1 DEF p
  <2> QED
    BY <1>5, <2>1, <2>2, <2>3
<1>11. LabelledRight'
  BY <1>5, <1>10 DEF LabelledRight, RightId
<1>12. (\A d \in 1 .. Len(eventOf) :
         eventOf[d].pid \in started /\ Handles(eventOf[d].kind))'
  BY <1>5 DEF PrintedInv, Handles, LooksUp, Prints
<1> QED
  BY <1>5, <1>7, <1>8, <1>9, <1>11, <1>12 DEF PrintedInv

LEMMA SubmitPrints ==
  ASSUME EventInv, RowInv, PrintedInv, CacheInv,
         NEW p \in Pid, NEW kind \in {"op", "bluestore"}, Submit(p, kind)
  PROVE  PrintedInv' /\ CacheInv'
<1> DEFINE event == [pid |-> p, kind |-> kind]
<1>1. /\ UNCHANGED <<started, alive, cache, handled, labels, probe_mode>>
      /\ p \in alive /\ Submits(p, kind)
  BY DEF Submit, output, options
<1>2. /\ eventOf' = Append(eventOf, event) /\ Len(eventOf) \in Nat
      /\ Len(eventOf') = Len(eventOf) + 1
      /\ rb' = Append(rb, Len(eventOf) + 1) \/ rb' = rb
  BY SubmitsOne
<1>3. event.pid = p /\ event.kind = kind
  OBVIOUS
<1> HIDE DEF event
<1>4. /\ eventOf'[Len(eventOf) + 1] = event
      /\ \A d \in 1 .. Len(eventOf) : eventOf'[d] = eventOf[d]
  BY <1>2 DEF EventInv
<1>5. Handles(kind) /\ p \in started
  BY <1>1, SubmitsHandled DEF PrintedInv
<1>6. (\A d \in 1 .. Len(eventOf) :
        eventOf[d].pid \in started /\ Handles(eventOf[d].kind))'
  <2> SUFFICES ASSUME NEW d \in 1 .. Len(eventOf')
               PROVE  (eventOf[d].pid \in started /\ Handles(eventOf[d].kind))'
    OBVIOUS
  <2>1. CASE d \in 1 .. Len(eventOf)
    BY <1>1, <1>4, <2>1 DEF PrintedInv, Handles, LooksUp, Prints
  <2>2. CASE d = Len(eventOf) + 1
    BY <1>1, <1>3, <1>4, <1>5, <2>2 DEF Handles, LooksUp, Prints
  <2> QED
    BY <1>2, <2>1, <2>2
<1>7. \A i \in 1 .. Len(rb') : rb'[i] <= Len(eventOf')
  <2> SUFFICES ASSUME NEW i \in 1 .. Len(rb')  PROVE rb'[i] <= Len(eventOf) + 1
    BY <1>2
  <2>1. rb \in Seq(Event) /\ \A j \in 1 .. Len(rb) : rb[j] \in 1 .. Len(eventOf)
    BY EventsProduced DEF EventInv
  <2>2. CASE i \in 1 .. Len(rb)
    <3>1. rb'[i] = rb[i]
      BY <1>2, <2>1, <2>2
    <3> QED
      BY <1>2, <2>1, <2>2, <3>1
  <2>3. CASE rb' = Append(rb, Len(eventOf) + 1) /\ i = Len(rb) + 1
    BY <1>2, <2>1, <2>3
  <2> QED
    BY <1>2, <2>1, <2>2, <2>3
<1>8. /\ \A i \in 1 .. Len(handled') : handled'[i] <= Len(eventOf')
      /\ \A i \in 1 .. Len(handled) : handled[i] \in 1 .. Len(eventOf)
  <2>1. \A i \in 1 .. Len(handled) : handled[i] \in 1 .. Len(eventOf)
    BY EventsProduced
  <2> QED
    BY <1>1, <1>2, <2>1
<1>9. LabelledRight'
  BY <1>1, <1>4, <1>8 DEF PrintedInv, LabelledRight
<1>10. CacheInv'
  BY <1>1 DEF CacheInv, CacheFits, RightId
<1> QED
  BY <1>1, <1>6, <1>7, <1>8, <1>9, <1>10 DEF PrintedInv

LEMMA OthersPrint ==
  ASSUME EventInv, PrintedInv, CacheInv, [Next]_vars,
         UNCHANGED <<cache, handled, labels, eventOf, rb, probe_mode>>
  PROVE  PrintedInv' /\ CacheInv'
<1>1. \/ UNCHANGED <<started, alive>>
      \/ \E p \in Pid : /\ alive' = alive \ {p} /\ UNCHANGED started
      \/ \E p \in Pid : /\ p \notin started
                       /\ started' = started \cup {p} /\ alive' = alive \cup {p}
  <2>1. CASE Consume \/ \E p \in Pid, kind \in {"op", "bluestore"} : Submit(p, kind)
    BY <2>1 DEF Consume, Submit, env
  <2>2. CASE attach_probe \/ Start \/ Loop \/ Return \/ LastReturn \/ Exit
    BY <2>2 DEF attach_probe, Start, Loop, Return, LastReturn, Exit, env
  <2>3. CASE signal_handler \/ timeout_handler \/ UNCHANGED vars
    BY <2>3 DEF signal_handler, timeout_handler, vars, env
  <2>4. CASE \E p \in Pid : ProcessExits(p) \/ ProcessStarts(p)
    BY <2>4 DEF ProcessExits, ProcessStarts
  <2> QED
    BY <2>1, <2>2, <2>3, <2>4, Cases
<1>2. started \subseteq started' /\ alive' \subseteq started' /\ started' \subseteq Pid
  BY <1>1 DEF PrintedInv
<1>3. \A p \in started : p \in alive' => p \in alive
  BY <1>1
<1>4. CacheInv'
  BY <1>2, <1>3 DEF CacheInv, CacheFits, RightId
<1>5. \A i \in 1 .. Len(handled) : handled[i] \in 1 .. Len(eventOf)
  BY EventsProduced
<1>6. \A i \in 1 .. Len(handled) : eventOf[handled[i]].pid \in started
  BY <1>5 DEF PrintedInv
<1>7. LabelledRight'
  BY <1>3, <1>6 DEF PrintedInv, LabelledRight
<1> QED
  BY <1>2, <1>4, <1>7 DEF PrintedInv, Handles, LooksUp, Prints

AllInv == EventInv /\ RowInv /\ PrintedInv /\ CacheInv

LEMMA AllInvNext == AllInv /\ [Next]_vars => AllInv'
<1> SUFFICES ASSUME AllInv, [Next]_vars  PROVE PrintedInv' /\ CacheInv'
  BY EventInvNext, RowInvNext DEF AllInv
<1>1. CASE Consume
  BY <1>1, ConsumePrints DEF AllInv
<1>2. CASE \E p \in Pid, kind \in {"op", "bluestore"} : Submit(p, kind)
  BY <1>2, SubmitPrints DEF AllInv
<1>3. CASE ~Consume /\ ~(\E p \in Pid, kind \in {"op", "bluestore"} : Submit(p, kind))
  <2>1. \/ attach_probe \/ Start \/ Loop \/ Return \/ LastReturn \/ Exit
        \/ signal_handler \/ timeout_handler
        \/ \E p \in Pid : ProcessExits(p) \/ ProcessStarts(p)
        \/ UNCHANGED vars
    BY <1>3, Cases
  <2>2. UNCHANGED <<handled, eventOf, rb>>
    BY <2>1, OthersLeaveChannel
  <2>3. UNCHANGED <<cache, labels, probe_mode>>
    <3>1. CASE attach_probe \/ Start \/ Loop \/ Return \/ LastReturn
      BY <3>1 DEF attach_probe, Start, Loop, Return, LastReturn, output, options
    <3>2. CASE Exit \/ signal_handler \/ timeout_handler \/ UNCHANGED vars
      BY <3>2 DEF Exit, signal_handler, timeout_handler, vars, output, options
    <3>3. CASE \E p \in Pid : ProcessExits(p) \/ ProcessStarts(p)
      BY <3>3 DEF ProcessExits, ProcessStarts, output, options
    <3> QED
      BY <2>1, <3>1, <3>2, <3>3
  <2> QED
    BY <2>2, <2>3, OthersPrint DEF AllInv
<1> QED
  BY <1>1, <1>2, <1>3

LEMMA AllInvInit == Init => AllInv
<1> SUFFICES ASSUME Init  PROVE PrintedInv /\ CacheInv
  BY EventInvInit, RowInvInit DEF AllInv
<1>1. /\ cache = << >> /\ rb = << >> /\ handled = << >> /\ labels = << >>
      /\ eventOf = << >> /\ started = Running /\ alive = Running
  BY DEF Init
<1>2. Running \subseteq Pid
  BY TracerAssumption DEF TracerAssumption
<1> QED
  BY <1>1, <1>2 DEF PrintedInv, CacheInv, CacheFits, LabelledRight

LEMMA AlwaysAllInv == Spec => []AllInv
  BY AllInvInit, AllInvNext, PTL DEF Spec

\* Every event is printed under the id of the OSD it comes from, or under none
\* if that process was gone before its id was known (osd_pid_to_id,
\* osdtrace.cc:337-355), however often OSDs exit and are started again.
THEOREM LabelsRight == Spec => []LabelledRight
  BY AlwaysAllInv, PTL DEF AllInv, PrintedInv

\* The arrays osds and pids (osdtrace.cc:849-852), which are written without a
\* look at their size, hold at most one entry for each OSD and one for none.
THEOREM CacheBounded == Spec => []CacheFits
  BY AlwaysAllInv, PTL DEF AllInv, CacheInv

\* No combination of modes attaches a probe whose events handle_event throws
\* away (osdtrace.cc:1672-1676 and 828-846).
THEOREM AllPrinted == Spec => []NothingDiscarded
<1>1. AllInv => NothingDiscarded
  <2> SUFFICES ASSUME AllInv, NEW i \in 1 .. Len(handled)
               PROVE  Prints(eventOf[handled[i]].kind)
    BY DEF NothingDiscarded
  <2>1. handled[i] \in 1 .. Len(eventOf)
    BY EventsProduced DEF AllInv
  <2> QED
    BY <2>1 DEF AllInv, PrintedInv, Handles
<1> QED
  BY <1>1, AlwaysAllInv, PTL

-----------------------------------------------------------------------------
(* The order in which probes are attached                                  *)

\* A process that has exited stopped row r, and every row after it.
Stuck(r, p) ==
  \E q \in pids : /\ q <= p /\ q \notin alive
                 /\ \A s \in RowNumbers : s >= r => <<s, q>> \notin links

AttachedUpTo(r) ==
  IF pids = {} THEN <<r, AnyProcess>> \in links
  ELSE \A p \in pids : <<r, p>> \in links \/ Stuck(r, p)

\* Each row is attached to a prefix of the processes, which ends before the first
\* that was gone.  It is still gone when later rows are attached.
TargetsInv == pids \subseteq Pid /\ pids \subseteq started
LinksTyped == links \subseteq RowNumbers \X (Pid \cup {AnyProcess})
CountInv == attached \in Nat /\ attached < row
DoneInv ==
  /\ done \subseteq pids /\ (pids # {} => pids # done)
  /\ \A l \in links : l[1] <= row /\ (IF pids = {} THEN l[2] = AnyProcess ELSE l[2] \in pids)
  /\ \A p \in pids : p \in done <=> <<row, p>> \in links
PrefixInv ==
  \A r \in RowNumbers : \A p, q \in pids : <<r, p>> \in links /\ q <= p => <<r, q>> \in links
PassedInv ==
  \A r \in RowNumbers :
    r < row /\ Enabled(r) /\ ATTACH_LIST[r].func \notin Missing => AttachedUpTo(r)

AttachInv ==
  RowInv /\ TargetsInv /\ LinksTyped /\ CountInv /\ DoneInv /\ PrefixInv /\ PassedInv

\* The rows RowFrom skips are not for the probe mode.
LEMMA RowFromSkips ==
  ASSUME NEW r \in Nat \ {0}, r <= Len(ATTACH_LIST) + 1
  PROVE  /\ RowFrom(r) \in r .. Len(ATTACH_LIST) + 1
         /\ \A i \in RowNumbers : r <= i /\ i < RowFrom(r) => ~Enabled(i)
<1> DEFINE S == {i \in r .. Len(ATTACH_LIST) : Enabled(i)} \cup {Len(ATTACH_LIST) + 1}
<1>1. Len(ATTACH_LIST) \in Nat
  BY Rows
<1>2. S \in SUBSET Nat /\ S # {}
  BY <1>1
<1>3. Min(S) \in S /\ \A y \in S : Min(S) <= y
  BY <1>2, MinIn
<1>4. RowFrom(r) = Min(S)
  BY DEF RowFrom
<1>5. \A i \in S : i \in r .. Len(ATTACH_LIST) + 1
  BY <1>1
<1>6. \A i \in RowNumbers : r <= i /\ Enabled(i) => i \in S
  BY <1>1 DEF RowNumbers
<1> HIDE DEF S
<1>7. RowFrom(r) \in r .. Len(ATTACH_LIST) + 1
  BY <1>3, <1>4, <1>5
<1>8. ASSUME NEW i \in RowNumbers, r <= i, i < RowFrom(r)  PROVE ~Enabled(i)
  <2>1. RowFrom(r) \in Nat /\ i \in Nat
    BY <1>1, <1>7 DEF RowNumbers
  <2>2. i \notin S
    BY <1>3, <1>4, <1>8, <2>1
  <2> QED
    BY <1>6, <1>8, <2>2
<1> QED
  BY <1>7, <1>8

NextTarget == IF pids = {} THEN AnyProcess ELSE Min(pids \ done)

\* attach_probes visits the processes in the order of their ids.
LEMMA NextTargetIs ==
  ASSUME TargetsInv, DoneInv
  PROVE  IF pids = {} THEN NextTarget = AnyProcess
         ELSE NextTarget \in pids \ done /\ \A q \in pids \ done : NextTarget <= q
<1>1. pids \ done \in SUBSET Nat
  BY TracerAssumption DEF TargetsInv, TracerAssumption
<1>2. pids # {} => pids \ done # {}
  BY DEF DoneInv
<1> QED
  BY <1>1, <1>2, MinIn DEF NextTarget

RowOver == row' = RowFrom(row + 1) /\ done' = {}

LEMMA AttachCases ==
  ASSUME attach_probe, AttachInv
  PROVE  /\ row \in RowNumbers /\ UNCHANGED <<pids, probe_mode, alive, started>>
         /\ \/ /\ links' = links \cup {<<row, NextTarget>>}
               /\ RowOver /\ attached' = attached + 1 /\ pids \subseteq done \cup {NextTarget}
            \/ /\ links' = links \cup {<<row, NextTarget>>}
               /\ row' = row /\ done' = done \cup {NextTarget} /\ attached' = attached
               /\ ~(pids \subseteq done \cup {NextTarget})
            \/ /\ links' = links /\ RowOver /\ attached' = attached
               /\ \/ ATTACH_LIST[row].func \in Missing
                  \/ NextTarget # AnyProcess /\ NextTarget \notin alive
         /\ links' # links => NextTarget = AnyProcess \/ NextTarget \in alive
<1>1. row \in RowNumbers
  BY Rows DEF attach_probe, AttachInv, RowInv, RowNumbers
<1>2. UNCHANGED <<pids, probe_mode, alive, started>>
  BY DEF attach_probe, options, env
<1> QED
  BY <1>1, <1>2 DEF attach_probe, NextTarget, NextRow, RowOver

\* The next row is further on.
LEMMA RowOverSkips ==
  ASSUME AttachInv, row \in RowNumbers, RowOver
  PROVE  /\ row' \in Nat /\ row < row'
         /\ \A i \in RowNumbers : i < row' => i < row \/ i = row \/ ~Enabled(i)
<1>1. Len(ATTACH_LIST) \in Nat /\ row \in Nat /\ row <= Len(ATTACH_LIST)
  BY Rows DEF RowNumbers
<1>2. row + 1 \in Nat \ {0} /\ row + 1 <= Len(ATTACH_LIST) + 1
  BY <1>1
<1>3. /\ row' \in row + 1 .. Len(ATTACH_LIST) + 1
      /\ \A i \in RowNumbers : row + 1 <= i /\ i < row' => ~Enabled(i)
  BY <1>2, RowFromSkips DEF RowOver
<1>4. row' \in Nat /\ row < row'
  BY <1>1, <1>3
<1>5. \A i \in RowNumbers : i < row \/ i = row \/ row + 1 <= i
  BY <1>1 DEF RowNumbers
<1> QED
  BY <1>3, <1>4, <1>5

\* A row passed is not disturbed by a link to a living process, or to all, and a
\* process that has exited does not come back under its id.
LEMMA AttachedStays ==
  ASSUME AttachInv, NEW r \in RowNumbers, AttachedUpTo(r),
         pids' = pids, links \subseteq links',
         \A q \in pids : q \notin alive => q \notin alive',
         \A l \in links' \ links : l[2] \notin pids \/ l[2] \in alive
  PROVE  AttachedUpTo(r)'
<1>1. ASSUME NEW p \in pids, Stuck(r, p)  PROVE Stuck(r, p)'
  <2>1. PICK q \in pids : /\ q <= p /\ q \notin alive
                          /\ \A s \in RowNumbers : s >= r => <<s, q>> \notin links
    BY <1>1 DEF Stuck
  <2>2. ASSUME NEW s \in RowNumbers, s >= r  PROVE <<s, q>> \notin links'
    <3>1. <<s, q>> \notin links /\ <<s, q>>[2] = q
      BY <2>1, <2>2
    <3> QED
      BY <2>1, <3>1
  <2> QED
    BY <2>1, <2>2 DEF Stuck
<1> QED
  BY <1>1 DEF AttachedUpTo

\* One more process, the next of the row.
LEMMA LinkKeepsPrefix ==
  ASSUME AttachInv, row \in RowNumbers, pids' = pids,
         links' = links \cup {<<row, NextTarget>>}
  PROVE  /\ PrefixInv'
         /\ \A l \in links' : l[1] <= row
                            /\ (IF pids = {} THEN l[2] = AnyProcess ELSE l[2] \in pids)
         /\ \A p \in pids : p \in done \cup {NextTarget} <=> <<row, p>> \in links'
<1>1. row \in Nat /\ pids \subseteq Nat
  BY Rows, TracerAssumption DEF RowNumbers, AttachInv, TargetsInv, TracerAssumption
<1>2. IF pids = {} THEN NextTarget = AnyProcess
      ELSE NextTarget \in pids \ done /\ \A q \in pids \ done : NextTarget <= q
  BY NextTargetIs DEF AttachInv
<1>3. \A p \in pids : p \in done <=> <<row, p>> \in links
  BY DEF AttachInv, DoneInv
<1>4. ASSUME NEW l \in links'
      PROVE  l[1] <= row /\ (IF pids = {} THEN l[2] = AnyProcess ELSE l[2] \in pids)
  <2>1. CASE l \in links
    BY <2>1 DEF AttachInv, DoneInv
  <2>2. CASE l = <<row, NextTarget>>
    BY <1>1, <1>2, <2>2
  <2> QED
    BY <1>4, <2>1, <2>2
<1>5. ASSUME NEW p \in pids  PROVE p \in done \cup {NextTarget} <=> <<row, p>> \in links'
  BY <1>3
<1>6. ASSUME NEW r \in RowNumbers, NEW p \in pids, NEW q \in pids, <<r, p>> \in links', q <= p
      PROVE  <<r, q>> \in links'
  <2>1. CASE <<r, p>> \in links
    BY <1>6, <2>1 DEF AttachInv, PrefixInv
  <2>2. CASE r = row /\ p = NextTarget
    <3>1. q \in done \/ q = NextTarget
      BY <1>1, <1>2, <1>6, <2>2
    <3> QED
      BY <1>5, <2>2, <3>1
  <2> QED
    BY <1>6, <2>1, <2>2
<1> QED
  BY <1>4, <1>5, <1>6 DEF PrefixInv

\* The row just over is attached as AttachedUpTo says.
LEMMA RowIsAttached ==
  ASSUME AttachInv, NEW r \in RowNumbers, r = row, ATTACH_LIST[r].func \notin Missing,
         pids' = pids, alive' = alive,
         \/ links' = links \cup {<<r, NextTarget>>} /\ pids \subseteq done \cup {NextTarget}
         \/ links' = links /\ NextTarget # AnyProcess /\ NextTarget \notin alive
  PROVE  AttachedUpTo(r)'
<1>1. IF pids = {} THEN NextTarget = AnyProcess
      ELSE NextTarget \in pids \ done /\ \A q \in pids \ done : NextTarget <= q
  BY NextTargetIs DEF AttachInv
<1>2. \A p \in pids : p \in done <=> <<r, p>> \in links
  BY DEF AttachInv, DoneInv
<1>3. CASE links' = links \cup {<<r, NextTarget>>} /\ pids \subseteq done \cup {NextTarget}
  <2>1. <<r, NextTarget>> \in links' /\ links \subseteq links'
    BY <1>3
  <2>2. pids = {} => <<r, AnyProcess>> \in links'
    BY <1>1, <2>1
  <2>3. \A p \in pids : <<r, p>> \in links'
    BY <1>2, <1>3, <2>1
  <2> SUFFICES IF pids' = {} THEN <<r, AnyProcess>> \in links'
               ELSE \A p \in pids' : <<r, p>> \in links'
    BY DEF AttachedUpTo
  <2> QED
    BY <2>2, <2>3
<1>4. CASE links' = links /\ NextTarget # AnyProcess /\ NextTarget \notin alive
  <2>1. pids # {} /\ NextTarget \in pids /\ NextTarget \notin done
    BY <1>1, <1>4
  <2>2. ASSUME NEW s \in RowNumbers, s >= r  PROVE <<s, NextTarget>> \notin links
    <3>1. CASE s = r
      BY <1>2, <2>1, <3>1
    <3>2. CASE s # r
      <4>1. ~(s <= row)
        BY Rows, <2>2, <3>2 DEF RowNumbers
      <4>2. <<s, NextTarget>>[1] = s
        OBVIOUS
      <4> QED
        BY <4>1, <4>2 DEF AttachInv, DoneInv
    <3> QED
      BY <3>1, <3>2
  <2>3. ASSUME NEW p \in pids, <<r, p>> \notin links  PROVE Stuck(r, p)
    <3>1. NextTarget <= p
      BY <1>1, <1>2, <2>1, <2>3
    <3> QED
      BY <1>4, <2>1, <2>2, <3>1 DEF Stuck
  <2> QED
    BY <1>4, <2>1, <2>3 DEF AttachedUpTo, Stuck
<1> QED
  BY <1>3, <1>4

LEMMA AttachKeepsInv == AttachInv /\ attach_probe => AttachInv'
<1> SUFFICES ASSUME AttachInv, attach_probe  PROVE AttachInv'
  OBVIOUS
<1>1. /\ row \in RowNumbers /\ UNCHANGED <<pids, probe_mode, alive, started>>
      /\ \/ /\ links' = links \cup {<<row, NextTarget>>}
            /\ RowOver /\ attached' = attached + 1 /\ pids \subseteq done \cup {NextTarget}
         \/ /\ links' = links \cup {<<row, NextTarget>>}
            /\ row' = row /\ done' = done \cup {NextTarget} /\ attached' = attached
            /\ ~(pids \subseteq done \cup {NextTarget})
         \/ /\ links' = links /\ RowOver /\ attached' = attached
            /\ \/ ATTACH_LIST[row].func \in Missing
               \/ NextTarget # AnyProcess /\ NextTarget \notin alive
      /\ links' # links => NextTarget = AnyProcess \/ NextTarget \in alive
  BY AttachCases
<1>2. row \in Nat /\ attached \in Nat /\ attached < row /\ AnyProcess \notin pids
  <2>1. row \in Nat
    BY <1>1, Rows DEF RowNumbers
  <2>2. attached \in Nat /\ attached < row
    BY DEF AttachInv, CountInv
  <2>3. AnyProcess \notin pids
    BY TracerAssumption DEF AttachInv, TargetsInv, TracerAssumption
  <2> QED
    BY <2>1, <2>2, <2>3
<1>3. IF pids = {} THEN NextTarget = AnyProcess
      ELSE NextTarget \in pids \ done /\ \A q \in pids \ done : NextTarget <= q
  BY NextTargetIs DEF AttachInv
<1>4. RowInv'
  BY AttachKeepsRows DEF AttachInv
<1>5. TargetsInv'
  BY <1>1 DEF AttachInv, TargetsInv
<1>6. RowOver => row' \in Nat /\ row < row'
                /\ \A i \in RowNumbers : i < row' => i < row \/ i = row \/ ~Enabled(i)
  BY <1>1, RowOverSkips
<1>7. CountInv'
  <2>1. attached' = attached \/ (RowOver /\ attached' = attached + 1)
    BY <1>1
  <2>2. row' = row \/ RowOver
    BY <1>1
  <2> QED
    BY <1>2, <1>6, <2>1, <2>2 DEF CountInv
<1>8. \/ links' = links
      \/ links' = links \cup {<<row, NextTarget>>} /\ PrefixInv'
         /\ \A p \in pids : p \in done \cup {NextTarget} <=> <<row, p>> \in links'
  BY <1>1, LinkKeepsPrefix
<1>9. /\ PrefixInv'
      /\ \A l \in links' : l[1] <= row
                         /\ (IF pids = {} THEN l[2] = AnyProcess ELSE l[2] \in pids)
  <2>1. CASE links' = links
    BY <1>1, <2>1 DEF AttachInv, PrefixInv, DoneInv
  <2>2. CASE links' = links \cup {<<row, NextTarget>>}
    BY <1>1, <2>2, LinkKeepsPrefix
  <2> QED
    BY <1>8, <2>1, <2>2
<1>10. DoneInv'
  <2>1. CASE RowOver
    <3>1. \A l \in links' : l[1] < row' /\ l[1] <= row'
      <4> SUFFICES ASSUME NEW l \in links'  PROVE l[1] < row' /\ l[1] <= row'
        OBVIOUS
      <4>1. l[1] <= row /\ row < row' /\ row' \in Nat /\ row \in Nat
        BY <1>2, <1>6, <1>9, <2>1
      <4>2. l[1] \in Nat
        <5>1. (\A k \in links : k[1] \in RowNumbers)'
          BY <1>4 DEF RowInv
        <5> QED
          BY <5>1, Rows DEF RowNumbers
      <4> QED
        BY <4>1, <4>2
    <3>2. \A p : <<row', p>> \notin links'
      <4> SUFFICES ASSUME NEW p, <<row', p>> \in links'  PROVE FALSE
        OBVIOUS
      <4>1. <<row', p>>[1] < row'
        BY <3>1
      <4> QED
        BY <1>6, <2>1, <4>1
    <3> QED
      BY <1>1, <1>9, <2>1, <3>1, <3>2 DEF RowOver, DoneInv
  <2>2. CASE /\ links' = links \cup {<<row, NextTarget>>}
             /\ row' = row /\ done' = done \cup {NextTarget}
             /\ ~(pids \subseteq done \cup {NextTarget})
    <3>1. \A p \in pids : p \in done \cup {NextTarget} <=> <<row, p>> \in links'
      BY <1>1, <2>2, LinkKeepsPrefix
    <3>2. pids # {} /\ NextTarget \in pids
      BY <1>3, <2>2
    <3> QED
      BY <1>1, <1>9, <2>2, <3>1, <3>2 DEF AttachInv, DoneInv
  <2> QED
    BY <1>1, <2>1, <2>2
<1>11. ASSUME NEW r \in RowNumbers, r < row', Enabled(r)', ATTACH_LIST[r].func \notin Missing
       PROVE  AttachedUpTo(r)'
  <2>1. Enabled(r)
    BY <1>1, <1>11 DEF Enabled
  <2>2. r < row \/ (r = row /\ RowOver)
    BY <1>1, <1>6, <1>11, <2>1
  <2>3. CASE r < row
    <3>1. AttachedUpTo(r)
      BY <1>11, <2>1, <2>3 DEF AttachInv, PassedInv
    <3>2. \A l \in links' \ links : l[2] \notin pids \/ l[2] \in alive
      BY <1>1, <1>2
    <3> QED
      BY <1>1, <3>1, <3>2, AttachedStays
  <2>4. CASE r = row /\ RowOver
    <3>1. \/ links' = links \cup {<<r, NextTarget>>} /\ pids \subseteq done \cup {NextTarget}
          \/ links' = links /\ NextTarget # AnyProcess /\ NextTarget \notin alive
      <4>1. row' # row
        BY <1>2, <1>6, <2>4
      <4> QED
        BY <1>1, <1>11, <2>4, <4>1
    <3> QED
      BY <1>1, <1>11, <2>4, <3>1, RowIsAttached
  <2> QED
    BY <2>2, <2>3, <2>4
<1>12. PassedInv'
  BY <1>11 DEF PassedInv
<1>13. LinksTyped'
  <2>1. NextTarget \in Pid \cup {AnyProcess} /\ links \subseteq RowNumbers \X (Pid \cup {AnyProcess})
    BY <1>3 DEF AttachInv, TargetsInv, LinksTyped
  <2>2. <<row, NextTarget>> \in RowNumbers \X (Pid \cup {AnyProcess})
    BY <1>1, <2>1
  <2> QED
    BY <1>1, <2>1, <2>2 DEF LinksTyped
<1> QED
  BY <1>4, <1>5, <1>7, <1>9, <1>10, <1>12, <1>13 DEF AttachInv

\* Nothing else links a probe, and a process that has run does not run again.
LEMMA OthersKeepAttached ==
  ASSUME [Next]_vars, ~attach_probe, PrintedInv
  PROVE  /\ UNCHANGED <<probe_mode, timeout, pids, row, done, attached, links>>
         /\ started \subseteq started'
         /\ \A q \in started : q \notin alive => q \notin alive'
<1>1. CASE Consume \/ Start \/ Loop \/ Return \/ LastReturn \/ Exit
  BY <1>1 DEF Consume, Start, Loop, Return, LastReturn, Exit, options, attaching, env
<1>2. CASE \E p \in Pid, kind \in {"op", "bluestore"} : Submit(p, kind)
  BY <1>2 DEF Submit, options, attaching
<1>3. CASE signal_handler \/ timeout_handler
  BY <1>3 DEF signal_handler, timeout_handler, options, attaching, env
<1>4. CASE (\E p \in Pid : ProcessExits(p) \/ ProcessStarts(p)) \/ UNCHANGED vars
  BY <1>4 DEF ProcessExits, ProcessStarts, vars, options, attaching, env
<1> QED
  BY <1>1, <1>2, <1>3, <1>4, Cases

LEMMA AttachInvNext == AllInv /\ AttachInv /\ [Next]_vars => AttachInv'
<1> SUFFICES ASSUME AllInv, AttachInv, [Next]_vars, ~attach_probe  PROVE AttachInv'
  BY AttachKeepsInv
<1>1. /\ UNCHANGED <<probe_mode, pids, row, done, attached, links>>
      /\ started \subseteq started'
      /\ \A q \in started : q \notin alive => q \notin alive'
  BY OthersKeepAttached DEF AllInv
<1>2. RowInv'
  BY RowInvNext DEF AttachInv
<1>3. pids \subseteq started
  BY DEF AttachInv, TargetsInv
<1>4. ASSUME NEW r \in RowNumbers, r < row, Enabled(r), ATTACH_LIST[r].func \notin Missing
      PROVE  AttachedUpTo(r)'
  <2>1. AttachedUpTo(r)
    BY <1>4 DEF AttachInv, PassedInv
  <2> QED
    BY <1>1, <1>3, <2>1, AttachedStays
<1>5. PassedInv'
  BY <1>1, <1>4 DEF PassedInv, Enabled
<1>6. TargetsInv' /\ LinksTyped' /\ CountInv' /\ DoneInv' /\ PrefixInv'
  BY <1>1 DEF AttachInv, TargetsInv, LinksTyped, CountInv, DoneInv, PrefixInv
<1> QED
  BY <1>2, <1>5, <1>6 DEF AttachInv

LEMMA AttachInvInit == Init => AttachInv
<1> SUFFICES ASSUME Init  PROVE AttachInv
  OBVIOUS
<1>1. row = RowFrom(1) /\ links = {} /\ done = {} /\ attached = 0 /\ pids \in Selections
      /\ started = Running
  BY DEF Init
<1>2. Len(ATTACH_LIST) \in Nat
  BY Rows
<1>3. 1 \in Nat \ {0} /\ 1 <= Len(ATTACH_LIST) + 1
  BY <1>2
<1>4. /\ row \in 1 .. Len(ATTACH_LIST) + 1
      /\ \A i \in RowNumbers : 1 <= i /\ i < row => ~Enabled(i)
  BY <1>1, <1>3, RowFromSkips
<1>5. PassedInv
  BY <1>2, <1>4 DEF PassedInv, RowNumbers
<1>6. CountInv
  BY <1>1, <1>2, <1>4 DEF CountInv
<1>7. TargetsInv
  BY <1>1, TracerAssumption DEF TargetsInv, TracerAssumption
<1>8. LinksTyped /\ DoneInv /\ PrefixInv
  BY <1>1 DEF LinksTyped, DoneInv, PrefixInv
<1> QED
  BY <1>5, <1>6, <1>7, <1>8, RowInvInit DEF AttachInv

\* OSD::enqueue_op comes after the other functions of full mode (osdtrace.cc:1603).
LEMMA EnqueueLast ==
  /\ \A i \in 1 .. 14 :
       i + 1 \in RowNumbers /\ ATTACH_LIST[i + 1] = Full(FullModeFirst[i])
  /\ \A r \in RowNumbers :
       ATTACH_LIST[r].func = "OSD::enqueue_op" => \A i \in 1 .. 14 : i + 1 < r
<1> DEFINE functions == Append(FullModeFirst, "OSD::enqueue_op")
           single == Row("PrimaryLogPG::log_op_stats", "SINGLE", TRUE)
           full == [i \in 1 .. Len(functions) |-> Full(functions[i])]
           latency == Row("BlueStore::log_latency", "BLUESTORE", FALSE)
           latency_fn == Row("BlueStore::log_latency_fn", "BLUESTORE", FALSE)
<1>1. /\ FullModeFirst \in Seq(RowFunctions) /\ Len(FullModeFirst) = 14
      /\ \A i \in 1 .. 14 : FullModeFirst[i] # "OSD::enqueue_op"
  BY DEF FullModeFirst, RowFunctions
<1> HIDE DEF functions
<1>2. /\ Len(functions) = 15 /\ \A i \in 1 .. 14 : functions[i] = FullModeFirst[i]
      /\ functions \in Seq(RowFunctions)
  <2> DEFINE last == "OSD::enqueue_op"
  <2>1. last \in RowFunctions
    BY DEF RowFunctions
  <2>2. functions = Append(FullModeFirst, last)
    BY DEF functions
  <2> HIDE DEF last
  <2> DEFINE first == FullModeFirst
  <2>3. first \in Seq(RowFunctions) /\ Len(first) = 14 /\ functions = Append(first, last)
    BY <1>1, <2>2
  <2> HIDE DEF first
  <2>4. functions \in Seq(RowFunctions)
    BY <2>1, <2>3
  <2>5. Len(functions) = 15
    <3>1. Len(functions) = Len(first) + 1
      BY <2>1, <2>3, AppendProperties
    <3> QED
      BY <2>3, <3>1
  <2>6. \A i \in 1 .. 14 : functions[i] = first[i]
    BY <2>3
  <2> QED
    BY <2>4, <2>5, <2>6 DEF first
<1>3. Len(full) = 15 /\ \A i \in 1 .. 14 : full[i] = Full(FullModeFirst[i])
  BY <1>2
<1>4. full \in Seq(AttachEntry)
  <2>1. \A i \in 1 .. 15 : functions[i] \in RowFunctions
    <3>1. functions \in Seq(RowFunctions) /\ Len(functions) = 15
      BY <1>2
    <3>2. \A i \in 1 .. Len(functions) : functions[i] \in RowFunctions
      BY <3>1, ElementOfSeq, Zenon
    <3> QED
      BY <3>1, <3>2
  <2>2. \A i \in 1 .. 15 : Full(functions[i]) \in AttachEntry
    BY <2>1 DEF Full, Row, AttachEntry
  <2> QED
    BY <1>2, <2>2
<1>5. single \in AttachEntry /\ latency \in AttachEntry /\ latency_fn \in AttachEntry
  BY DEF Row, AttachEntry, RowFunctions
<1>6. ATTACH_LIST = << single >> \o full \o << latency, latency_fn >>
  BY DEF ATTACH_LIST, RowsWith, functions
<1>7. single.func # "OSD::enqueue_op"
  BY DEF Row
<1> HIDE DEF single, full, latency, latency_fn
<1>8. << single >> \in Seq(AttachEntry) /\ << latency, latency_fn >> \in Seq(AttachEntry)
  BY <1>5
<1> DEFINE front == << single >> \o full
           back == << latency, latency_fn >>
           one == << single >>
<1>9. ATTACH_LIST = front \o back /\ front = one \o full
  BY <1>6
<1>10. Len(one) = 1 /\ one[1] = single /\ one \in Seq(AttachEntry) /\ Len(back) = 2
       /\ back \in Seq(AttachEntry)
  BY <1>8
<1> HIDE DEF one, back, front, full
<1>11. /\ front \in Seq(AttachEntry) /\ Len(front) = 16 /\ front[1] = single
       /\ \A i \in 1 .. 14 : front[i + 1] = full[i]
  <2>1. \A i \in 1 .. Len(one) + Len(full) :
          front[i] = IF i <= Len(one) THEN one[i] ELSE full[i - Len(one)]
    BY <1>4, <1>9, <1>10, ConcatProperties
  <2>2. \A i \in 1 .. 14 : i + 1 \in 1 .. 16 /\ ~(i + 1 <= 1) /\ (i + 1) - 1 = i
    OBVIOUS
  <2>3. front \in Seq(AttachEntry) /\ Len(front) = 16
    <3>1. front \in Seq(AttachEntry) /\ Len(front) = Len(one) + Len(full)
      BY <1>4, <1>9, <1>10, ConcatProperties, Zenon
    <3> QED
      BY <1>3, <1>10, <3>1
  <2>4. front[1] = single
    BY <1>3, <1>10, <2>1
  <2>5. \A i \in 1 .. 14 : front[i + 1] = full[i]
    BY <1>3, <1>10, <2>1, <2>2
  <2> QED
    BY <2>3, <2>4, <2>5
<1>12. /\ Len(ATTACH_LIST) = 18 /\ ATTACH_LIST[1] = single
       /\ \A i \in 1 .. 14 : ATTACH_LIST[i + 1] = full[i]
  <2>1. Len(ATTACH_LIST) = 18
    <3>1. Len(ATTACH_LIST) = Len(front) + Len(back)
      BY <1>9, <1>10, <1>11, ConcatProperties, Zenon
    <3> QED
      BY <1>10, <1>11, <3>1
  <2>2. \A i \in 1 .. 16 : ATTACH_LIST[i] = front[i]
    <3>1. \A i \in 1 .. Len(front) + Len(back) :
            ATTACH_LIST[i] = IF i <= Len(front) THEN front[i] ELSE back[i - Len(front)]
      BY <1>9, <1>10, <1>11, ConcatProperties, Zenon
    <3>2. \A i \in 1 .. 16 : i \in 1 .. 18 /\ i <= 16
      OBVIOUS
    <3>3. Len(front) = 16 /\ Len(back) = 2
      BY <1>10, <1>11
    <3>4. \A i \in 1 .. 18 : ATTACH_LIST[i] = IF i <= 16 THEN front[i] ELSE back[i - 16]
      BY <3>1, <3>3
    <3> QED
      BY <3>2, <3>4
  <2>3. \A i \in 1 .. 14 : i + 1 \in 1 .. 16
    OBVIOUS
  <2> QED
    BY <1>11, <2>1, <2>2, <2>3
<1>13. \A i \in 1 .. 14 : i + 1 \in RowNumbers /\ ATTACH_LIST[i + 1] = Full(FullModeFirst[i])
  BY <1>3, <1>12 DEF RowNumbers
<1>14. ASSUME NEW r \in RowNumbers, ATTACH_LIST[r].func = "OSD::enqueue_op"
       PROVE  r > 15
  <2>1. r # 1
    BY <1>7, <1>12, <1>14
  <2>2. ASSUME r \in 2 .. 15  PROVE FALSE
    <3>1. r - 1 \in 1 .. 14 /\ (r - 1) + 1 = r
      BY <2>2
    <3>2. ATTACH_LIST[r] = Full(FullModeFirst[r - 1])
      BY <1>13, <3>1
    <3>3. ATTACH_LIST[r].func = FullModeFirst[r - 1]
      BY <3>2 DEF Full, Row
    <3> QED
      BY <1>1, <1>14, <3>1, <3>3
  <2>3. r \in 1 .. 18
    BY <1>12 DEF RowNumbers
  <2> QED
    BY <2>1, <2>2, <2>3
<1>15. \A r \in RowNumbers : r > 15 => \A i \in 1 .. 14 : i + 1 < r
  BY <1>12 DEF RowNumbers
<1> QED
  BY <1>13, <1>14, <1>15

\* A request is only tracked in a process all of whose probes are attached, even
\* if other processes exit while they are (attach_probes, osdtrace.cc:1216-1226).
THEOREM TrackedByAllProbes == Spec => []TrackedCompletely
<1>1. ASSUME AttachInv, NEW p \in Pid, Linked("OSD::enqueue_op", "FULL", p),
             NEW i \in 1 .. Len(FullModeFirst), FullModeFirst[i] \notin Missing
      PROVE  Linked(FullModeFirst[i], "FULL", p)
  <2>1. i \in 1 .. 14
    BY DEF FullModeFirst
  <2>2. PICK r \in RowNumbers :
          /\ ATTACH_LIST[r].func = "OSD::enqueue_op" /\ ATTACH_LIST[r].mode = "FULL"
          /\ <<r, p>> \in links \/ <<r, AnyProcess>> \in links
    BY <1>1 DEF Linked, RowNumbers
  <2> DEFINE t == IF pids = {} THEN AnyProcess ELSE p
             f == i + 1
  <2>3. <<r, t>> \in links /\ (pids # {} => p \in pids)
    <3>1. \A l \in links : IF pids = {} THEN l[2] = AnyProcess ELSE l[2] \in pids
      BY <1>1 DEF AttachInv, DoneInv
    <3>2. <<r, p>>[2] = p /\ <<r, AnyProcess>>[2] = AnyProcess
      OBVIOUS
    <3>3. AnyProcess \notin Pid /\ AnyProcess \notin pids
      BY <1>1, TracerAssumption DEF AttachInv, TargetsInv, TracerAssumption
    <3> QED
      BY <2>2, <3>1, <3>2, <3>3
  <2>4. /\ f \in RowNumbers /\ f < r
        /\ ATTACH_LIST[f].func = FullModeFirst[i] /\ ATTACH_LIST[f].mode = "FULL"
        /\ ATTACH_LIST[f].exact = FALSE
    <3>1. f \in RowNumbers /\ f < r /\ ATTACH_LIST[f] = Full(FullModeFirst[i])
      BY <2>1, <2>2, EnqueueLast
    <3> HIDE DEF f
    <3> QED
      BY <3>1 DEF Full, Row
  <2> HIDE DEF f, t
  <2>5. r <= row /\ Enabled(r)
    <3>1. \A l \in links : l[1] <= row /\ Enabled(l[1])
      BY <1>1 DEF AttachInv, DoneInv, RowInv
    <3>2. <<r, t>>[1] = r
      OBVIOUS
    <3> QED
      BY <2>3, <3>1, <3>2
  <2>6. f < row
    <3>1. row \in Nat /\ r \in Nat /\ f \in Nat
      BY <1>1, <2>4, Rows DEF AttachInv, RowInv, RowNumbers
    <3> QED
      BY <2>4, <2>5, <3>1
  <2>7. Enabled(f)
    <3>1. "FULL" \in probe_mode
      BY <2>2, <2>5 DEF Enabled
    <3> QED
      BY <2>4, <3>1 DEF Enabled
  <2>8. AttachedUpTo(f)
    BY <1>1, <2>4, <2>6, <2>7 DEF AttachInv, PassedInv
  <2>9. <<f, t>> \in links
    <3>1. CASE pids = {}
      BY <2>8, <3>1 DEF AttachedUpTo, t
    <3>2. CASE pids # {}
      <4>1. t = p /\ p \in pids
        BY <2>3, <3>2 DEF t
      <4>2. ~Stuck(f, p)
        <5> SUFFICES ASSUME NEW q \in pids, q <= p,
                            \A s \in RowNumbers : s >= f => <<s, q>> \notin links
                     PROVE  FALSE
          BY DEF Stuck
        <5>1. <<r, q>> \in links
          BY <1>1, <2>3, <4>1 DEF AttachInv, PrefixInv
        <5>2. r >= f
          BY <2>4, Rows DEF RowNumbers
        <5> QED
          BY <5>1, <5>2
      <4> QED
        BY <2>8, <3>2, <4>1, <4>2 DEF AttachedUpTo
    <3> QED
      BY <3>1, <3>2
  <2> QED
    BY <2>4, <2>9 DEF Linked, RowNumbers, t
<1>2. AttachInv => TrackedCompletely
  BY <1>1 DEF TrackedCompletely
<1> QED
  BY <1>2, AlwaysAllInv, AttachInvInit, AttachInvNext, PTL DEF Spec

-----------------------------------------------------------------------------
(* Types                                                                   *)

RestTyped ==
  /\ probe_mode \in ProbeModes /\ timeout \in BOOLEAN /\ pc \in PCs
  /\ timeout_occurred \in BOOLEAN
  /\ Len(rb) <= RING_SIZE /\ rb_drops \in Nat
  /\ reported \in Nat \cup {None} /\ mark \in Nat \cup {None}

LEMMA RestTypedNext == EventInv /\ RestTyped /\ [Next]_vars => RestTyped'
<1> SUFFICES ASSUME EventInv, RestTyped, [Next]_vars  PROVE RestTyped'
  OBVIOUS
<1> USE DEF RestTyped
<1>1. Len(rb) \in Nat /\ rb \in Seq(Event) /\ RING_SIZE \in Nat /\ Len(eventOf) \in Nat
  BY TracerAssumption DEF EventInv, TracerAssumption
<1>2. CASE Consume
  <2>1. Len(rb') = Len(rb) - 1
    BY <1>1, <1>2 DEF Consume
  <2> QED
    BY <1>1, <1>2, <2>1 DEF Consume, options, PCs
<1>3. CASE \E p \in Pid, kind \in {"op", "bluestore"} : Submit(p, kind)
  <2>1. PICK p \in Pid, kind \in {"op", "bluestore"} : Submit(p, kind)
    BY <1>3
  <2>2. \/ Len(rb) < RING_SIZE /\ rb' = Append(rb, Len(eventOf) + 1) /\ rb_drops' = rb_drops
        \/ rb' = rb /\ rb_drops' = rb_drops + 1
    BY <2>1 DEF Submit, RingRoom, count_rb_drop
  <2>3. UNCHANGED <<probe_mode, timeout, pc, timeout_occurred, reported, mark>>
    BY <2>1 DEF Submit, options, output
  <2>4. Len(rb') <= RING_SIZE /\ rb_drops' \in Nat
    BY <1>1, <2>2
  <2> QED
    BY <2>3, <2>4
<1>4. CASE attach_probe \/ Start \/ Loop \/ Return \/ LastReturn
  BY <1>4 DEF attach_probe, Start, Loop, Return, LastReturn, options, ring, output, PCs
<1>5. CASE Exit \/ signal_handler
  BY <1>5 DEF Exit, signal_handler, options, ring, PCs
<1>6. CASE timeout_handler
  BY <1>1, <1>6 DEF timeout_handler, options, ring, output
<1>7. CASE (\E p \in Pid : ProcessExits(p) \/ ProcessStarts(p)) \/ UNCHANGED vars
  BY <1>7 DEF ProcessExits, ProcessStarts, vars, options, ring, output
<1> QED
  BY <1>2, <1>3, <1>4, <1>5, <1>6, <1>7, Cases

\* The ring stays within its size, the count of attached rows within the list, and
\* the row being attached in it or one past it (attach_probes, run_tracer).
THEOREM TypeCorrect == Spec => []TypeOK
<1>1. ASSUME Init  PROVE RestTyped
  <2>1. Len(rb) <= RING_SIZE /\ timeout \in BOOLEAN
    BY <1>1, TracerAssumption DEF Init, TracerAssumption
  <2> QED
    BY <1>1, <2>1 DEF Init, RestTyped, PCs
<1>2. ASSUME AllInv, AttachInv, RestTyped  PROVE TypeOK
  <2>1. row \in 1 .. Len(ATTACH_LIST) + 1 /\ attached \in 0 .. Len(ATTACH_LIST)
    <3>1. Len(ATTACH_LIST) \in Nat
      BY Rows
    <3>2. row \in 1 .. Len(ATTACH_LIST) + 1 /\ attached \in Nat /\ attached < row
      BY <1>2 DEF AttachInv, RowInv, CountInv
    <3> QED
      BY <3>1, <3>2
  <2>2. links \subseteq RowNumbers \X (Pid \cup {AnyProcess})
    BY <1>2 DEF AttachInv, LinksTyped
  <2>3. done \subseteq pids /\ pids \subseteq Pid
    BY <1>2 DEF AttachInv, DoneInv, TargetsInv
  <2> QED
    BY <1>2, <2>1, <2>2, <2>3
       DEF TypeOK, RestTyped, AllInv, EventInv, PrintedInv, RowNumbers
<1> QED
  BY <1>1, <1>2, AlwaysAllInv, AttachInvInit, AttachInvNext, EventInvInit, EventInvNext,
     RestTypedNext, PTL DEF Spec
=============================================================================
