-------------------------- MODULE RadosTraceProofs --------------------------
(***************************************************************************)
(* Proofs about radostrace: what was answered before the stop is printed   *)
(* before the walk, complete rows are right and printed once, an answer is *)
(* printed or accounted for, entries end with their requests, and the walk *)
(* lists every request that stays in flight under it.                      *)
(***************************************************************************)
EXTENDS RadosTrace, FiniteSetTheorems, NaturalsInduction, SequenceTheorems,
        WellFoundedInduction, TLAPS

Events == [op : OpV, late : BOOLEAN]
Row == [op : OpV, complete : BOOLEAN]

Typed ==
  /\ ops \in [Key -> OpV \cup {None}] /\ sends \in [Req -> 0 .. MaxSends]
  /\ rb \in Seq(Events) /\ rows \in Seq(Row)
  /\ timeout_occurred \in BOOLEAN /\ got_sigint \in BOOLEAN

\* The flags are never reset, and the loop is only left for the last drain.
StopInv ==
  /\ Typed
  /\ pc \in {"last", "walk", "look", "exited"} => Stopped
  /\ StopLosesNothing

\* Every request has its key in the hash (radostrace.bpf.c, struct client_op_k).
LEMMA KeyTyped == \A r \in Req : KeyOf(r) \in Key
  BY DEF KeyOf, Key, Cids, Tids

\* The handlers put whole records into hash and ring, the main thread into the rows.
LEMMA TypedNext == Typed /\ [Next]_vars => Typed'
<1> SUFFICES ASSUME Typed, [Next]_vars  PROVE Typed'
  OBVIOUS
<1>1. ASSUME NEW r \in Req, Send(r)  PROVE Typed'
  <2>1. sends' \in [Req -> 0 .. MaxSends]
    <3>1. MaxSends \in Nat
      BY RadosAssumption DEF RadosAssumption
    <3>2. sends \in [Req -> 0 .. MaxSends]
      BY DEF Typed
    <3>3. sends[r] < MaxSends /\ sends' = [sends EXCEPT ![r] = @ + 1]
      BY <1>1 DEF Send
    <3>4. sends[r] \in 0 .. MaxSends
      BY <3>2
    <3>5. sends[r] + 1 \in 0 .. MaxSends
      BY <3>1, <3>3, <3>4
    <3> QED
      BY <3>2, <3>3, <3>5
  <2>2. [req |-> r, sent |-> 0] \in OpV
    BY RadosAssumption DEF OpV, RadosAssumption
  <2>3. ops' \in [Key -> OpV \cup {None}]
    BY <1>1, <2>2, KeyTyped DEF Send, initialize_value, Typed
  <2> QED
    BY <1>1, <2>1, <2>3 DEF Send, Typed, flags
<1>2. ASSUME NEW r \in Req, SendStamped(r)  PROVE Typed'
  <2>1. ops[KeyOf(r)] \in OpV /\ sends[r] \in 0 .. MaxSends
    BY <1>2, KeyTyped DEF SendStamped, Typed
  <2>2. [ops[KeyOf(r)] EXCEPT !.sent = sends[r]] \in OpV
    BY <2>1 DEF OpV
  <2>3. ops' \in [Key -> OpV \cup {None}]
    BY <1>2, <2>2, KeyTyped DEF SendStamped, Typed
  <2> QED
    BY <1>2, <2>3 DEF SendStamped, Typed, flags
<1>3. ASSUME NEW k \in Key  PROVE delete_elem(k) \in [Key -> OpV \cup {None}]
  BY DEF delete_elem, Typed
<1>4. ASSUME NEW r \in Req, Finish(r)  PROVE Typed'
  <2>1. ops' \in [Key -> OpV \cup {None}]
    BY <1>3, <1>4, KeyTyped DEF Finish, DroppedWhenFull, Typed
  <2>2. \/ rb' = rb
        \/ ops[KeyOf(r)] # None /\ rb' = Append(rb, [op |-> ops[KeyOf(r)], late |-> Stopped])
    BY <1>4 DEF Finish
  <2>3. rb' \in Seq(Events)
    <3>1. CASE rb' = rb
      BY <3>1 DEF Typed
    <3>2. CASE ops[KeyOf(r)] # None /\ rb' = Append(rb, [op |-> ops[KeyOf(r)], late |-> Stopped])
      <4>1. Stopped \in BOOLEAN
        BY DEF Stopped
      <4>2. [op |-> ops[KeyOf(r)], late |-> Stopped] \in Events
        BY <3>2, <4>1, KeyTyped DEF Typed, Events
      <4> QED
        BY <3>2, <4>2 DEF Typed
    <3> QED
      BY <2>2, <3>1, <3>2
  <2> QED
    BY <1>4, <2>1, <2>3 DEF Finish, Typed, flags
<1>5. ASSUME NEW r \in Req, FinishDeletes(r)  PROVE Typed'
  <2>1. ops' \in [Key -> OpV \cup {None}]
    BY <1>3, <1>5, KeyTyped DEF FinishDeletes
  <2> QED
    BY <1>5, <2>1 DEF FinishDeletes, Typed, flags
<1>6. CASE Consume
  <2>1. rb # << >> /\ Head(rb) \in Events
    BY <1>6 DEF Consume, Typed
  <2>2. [op |-> Head(rb).op, complete |-> TRUE] \in Row
    BY <2>1 DEF Events, Row
  <2> QED
    BY <1>6, <2>1, <2>2 DEF Consume, print_event, Typed, flags, clients
<1>7. CASE lookup_elem
  <2>1. \/ rows' = rows
        \/ cursor \in Present /\ rows' = Append(rows, [op |-> ops[cursor], complete |-> FALSE])
    BY <1>7 DEF lookup_elem, print_event
  <2>2. ASSUME cursor \in Present  PROVE [op |-> ops[cursor], complete |-> FALSE] \in Row
    BY <2>2 DEF Present, Typed, Row
  <2>3. rows' \in Seq(Row)
    <3>1. rows \in Seq(Row)
      BY DEF Typed
    <3>2. CASE rows' = rows
      BY <3>1, <3>2
    <3>3. CASE cursor \in Present
               /\ rows' = Append(rows, [op |-> ops[cursor], complete |-> FALSE])
      <4> DEFINE row == [op |-> ops[cursor], complete |-> FALSE]
      <4>1. row \in Row /\ rows' = Append(rows, row)
        BY <2>2, <3>3
      <4> HIDE DEF row
      <4> QED
        BY <3>1, <4>1
    <3> QED
      BY <2>1, <3>2, <3>3
  <2> QED
    BY <1>7, <2>3 DEF lookup_elem, Typed, flags, clients
<1>8. CASE attach_uprobe \/ Start \/ Loop \/ Return \/ LastReturn \/ get_next_key
  BY <1>8 DEF attach_uprobe, Start, Loop, Return, LastReturn, get_next_key, Typed,
              flags, clients
<1>9. CASE timeout_handler \/ signal_handler \/ UNCHANGED vars
  BY <1>9 DEF timeout_handler, signal_handler, vars, Typed, flags, clients
<1> QED
  BY <1>1, <1>2, <1>4, <1>5, <1>6, <1>7, <1>8, <1>9 DEF Next, MainStep

\* Only Finish adds to the ring, and after the loop only late events.
LEMMA StopInvNext == StopInv /\ [Next]_vars => StopInv'
<1> SUFFICES ASSUME StopInv, [Next]_vars
             PROVE  /\ pc' \in {"last", "walk", "look", "exited"} => Stopped'
                    /\ StopLosesNothing'
  BY TypedNext DEF StopInv
<1> USE DEF StopInv, StopLosesNothing, Stopped
<1>1. ASSUME NEW r \in Req, Finish(r)
      PROVE  /\ pc' \in {"last", "walk", "look", "exited"} => Stopped'
             /\ StopLosesNothing'
  <2>1. UNCHANGED <<pc, timeout_occurred, got_sigint>>
    BY <1>1 DEF Finish, flags
  <2>2. rb \in Seq(Events)
    BY DEF Typed
  <2>3. CASE rb' = rb
    BY <2>1, <2>3
  <2>4. CASE rb' = Append(rb, [op |-> ops[KeyOf(r)], late |-> Stopped])
    <3> SUFFICES ASSUME pc \in {"walk", "look", "exited"}, NEW i \in 1 .. Len(rb')
                 PROVE  rb'[i].late
      BY <2>1
    <3>1. CASE i \in 1 .. Len(rb)
      BY <2>2, <2>4, <3>1
    <3>2. CASE i = Len(rb) + 1
      <4>1. rb'[i] = [op |-> ops[KeyOf(r)], late |-> Stopped]
        BY <2>2, <2>4, <3>2
      <4>2. Stopped = TRUE
        BY DEF Typed
      <4>3. rb'[i] = [op |-> ops[KeyOf(r)], late |-> TRUE]
        BY <4>1, <4>2
      <4> QED
        BY <4>3
    <3> QED
      BY <2>2, <2>4, <3>1, <3>2
  <2> QED
    BY <1>1, <2>3, <2>4 DEF Finish
<1>2. ASSUME NEW r \in Req, Send(r) \/ SendStamped(r) \/ FinishDeletes(r)
      PROVE  /\ pc' \in {"last", "walk", "look", "exited"} => Stopped'
             /\ StopLosesNothing'
  BY <1>2 DEF Send, SendStamped, FinishDeletes, flags
<1>3. CASE Loop
  BY <1>3 DEF Loop, KeepsGoing, AfterLoop, flags
<1>4. CASE Consume
  BY <1>4 DEF Consume, flags
<1>5. CASE LastReturn
  BY <1>5 DEF LastReturn, flags
<1>6. CASE get_next_key \/ lookup_elem
  BY <1>6 DEF get_next_key, lookup_elem, flags
<1>7. CASE attach_uprobe \/ Start \/ Return
  BY <1>7 DEF attach_uprobe, Start, Return, flags
<1>8. CASE timeout_handler \/ signal_handler \/ UNCHANGED vars
  BY <1>8 DEF timeout_handler, signal_handler, vars, flags
<1> QED
  BY <1>1, <1>2, <1>3, <1>4, <1>5, <1>6, <1>7, <1>8 DEF Next, MainStep

\* Whatever was answered before the timeout or SIGINT has been printed when the
\* walk begins (radostrace.cc:1033).
THEOREM StopComplete == Spec => []StopLosesNothing
<1>1. ASSUME Init  PROVE StopInv
  <2>1. sends \in [Req -> 0 .. MaxSends]
    BY <1>1, RadosAssumption DEF Init, RadosAssumption
  <2>2. ops \in [Key -> OpV \cup {None}] /\ rb \in Seq(Events) /\ rows \in Seq(Row)
    BY <1>1 DEF Init
  <2> QED
    BY <1>1, <2>1, <2>2 DEF Init, StopInv, Typed, StopLosesNothing
<1>2. StopInv => StopLosesNothing
  BY DEF StopInv
<1> QED
  BY <1>1, <1>2, StopInvNext, PTL DEF Spec
-----------------------------------------------------------------------------
(* Types                                                                   *)

MainTyped ==
  /\ pc \in PCs /\ attached \in 0 .. 2 * Len(Libraries)
  /\ cursor \in Key \cup {None}

ClientsTyped ==
  /\ handler \in [Req -> {"none", "filling", "submitted"}]
  /\ stage \in [Req -> {"new", "flying", "done"}]
  /\ excuse \in [Req -> {"none", "no probe", "map full", "ring full"}]
  /\ standing \subseteq Req

TypeInv ==
  /\ Typed /\ MainTyped /\ ClientsTyped
  /\ IsFiniteSet(Present) /\ Cardinality(Present) <= MAX_ENTRIES
  /\ Len(rb) <= RING_SIZE

\* Only an entry made in uprobe_send_op can exceed what the hash holds.
LEMMA PresentNext ==
  ASSUME TypeInv, Next
  PROVE  IsFiniteSet(Present)' /\ (Cardinality(Present) <= MAX_ENTRIES)'
<1>1. ASSUME Present' \subseteq Present
      PROVE  IsFiniteSet(Present)' /\ (Cardinality(Present) <= MAX_ENTRIES)'
  <2>1. IsFiniteSet(Present) /\ Cardinality(Present) <= MAX_ENTRIES
    BY DEF TypeInv
  <2>2. IsFiniteSet(Present') /\ Cardinality(Present') <= Cardinality(Present)
    BY <1>1, <2>1, FS_Subset
  <2>3. Cardinality(Present) \in Nat /\ Cardinality(Present') \in Nat /\ MAX_ENTRIES \in Nat
    BY <2>1, <2>2, FS_CardinalityType, RadosAssumption DEF RadosAssumption
  <2>4. Cardinality(Present') <= MAX_ENTRIES
    BY <2>1, <2>2, <2>3
  <2> QED
    BY <2>2, <2>4
<1>2. ASSUME ops' = ops  PROVE Present' \subseteq Present
  BY <1>2 DEF Present
<1>3. ASSUME NEW k \in Key, ops' = delete_elem(k)  PROVE Present' \subseteq Present
  BY <1>3 DEF Present, delete_elem, TypeInv, Typed
<1>4. ASSUME NEW r \in Req, Send(r)
      PROVE  IsFiniteSet(Present)' /\ (Cardinality(Present) <= MAX_ENTRIES)'
  <2>1. CASE ops' = ops
    BY <1>1, <1>2, <2>1
  <2>2. CASE HasRoom(KeyOf(r)) /\ ops' = [ops EXCEPT ![KeyOf(r)] = [req |-> r, sent |-> 0]]
    <3> DEFINE k == KeyOf(r)
    <3>1. k \in Key
      BY KeyTyped
    <3>2. Present' \subseteq Present \cup {k}
      BY <2>2, <3>1 DEF Present, TypeInv, Typed
    <3>3. CASE k \in Present
      BY <1>1, <3>2, <3>3
    <3>4. CASE k \notin Present
      <4>1. IsFiniteSet(Present)
        BY DEF TypeInv
      <4>2. IsFiniteSet(Present \cup {k}) /\ Cardinality(Present \cup {k}) = Cardinality(Present) + 1
        BY <3>4, <4>1, FS_AddElement
      <4>3. IsFiniteSet(Present') /\ Cardinality(Present') <= Cardinality(Present \cup {k})
        BY <3>2, <4>2, FS_Subset
      <4>4. Cardinality(Present) < MAX_ENTRIES
        BY <2>2, <3>4 DEF HasRoom
      <4>5. /\ Cardinality(Present) \in Nat /\ Cardinality(Present') \in Nat
            /\ MAX_ENTRIES \in Nat
        BY <4>1, <4>3, FS_CardinalityType, RadosAssumption DEF RadosAssumption
      <4>6. Cardinality(Present') <= MAX_ENTRIES
        BY <4>2, <4>3, <4>4, <4>5
      <4> QED
        BY <4>3, <4>6
    <3> QED
      BY <3>3, <3>4
  <2> QED
    BY <1>4, <2>1, <2>2 DEF Send, initialize_value
<1>5. ASSUME NEW r \in Req, SendStamped(r)  PROVE Present' \subseteq Present
  BY <1>5, KeyTyped DEF SendStamped, Present, TypeInv, Typed
<1>6. ASSUME NEW r \in Req, Finish(r)  PROVE Present' \subseteq Present
  BY <1>2, <1>3, <1>6, KeyTyped DEF Finish, DroppedWhenFull
<1>7. ASSUME NEW r \in Req, FinishDeletes(r)  PROVE Present' \subseteq Present
  BY <1>3, <1>7, KeyTyped DEF FinishDeletes
<1>8. ASSUME MainStep \/ timeout_handler \/ signal_handler  PROVE ops' = ops
  BY <1>8 DEF MainStep, attach_uprobe, Start, Loop, Consume, Return, LastReturn, get_next_key,
              lookup_elem, timeout_handler, signal_handler
<1> QED
  BY <1>1, <1>2, <1>4, <1>5, <1>6, <1>7, <1>8 DEF Next

\* The ring is not written to when it is full.
LEMMA RingNext ==
  ASSUME TypeInv, Next
  PROVE  Len(rb') <= RING_SIZE
<1>0. rb \in Seq(Events) /\ Len(rb) <= RING_SIZE /\ RING_SIZE \in Nat
  BY RadosAssumption DEF TypeInv, Typed, RadosAssumption
<1>1. rb \in Seq(Events) /\ Len(rb) \in Nat /\ Len(rb) <= RING_SIZE /\ RING_SIZE \in Nat
  BY <1>0
<1>2. CASE rb' = rb
  BY <1>1, <1>2
<1>3. ASSUME NEW r \in Req, Finish(r)  PROVE Len(rb') <= RING_SIZE
  <2>1. CASE rb' = rb
    BY <1>1, <2>1
  <2>2. CASE Len(rb) # RING_SIZE
             /\ rb' = Append(rb, [op |-> ops[KeyOf(r)], late |-> Stopped])
    <3> DEFINE e == [op |-> ops[KeyOf(r)], late |-> Stopped]
    <3>1. rb' = Append(rb, e)
      BY <2>2
    <3> HIDE DEF e
    <3>2. Len(rb') = Len(rb) + 1
      BY <1>1, <3>1
    <3> QED
      BY <1>1, <2>2, <3>2
  <2> QED
    BY <1>3, <2>1, <2>2 DEF Finish
<1>4. CASE Consume
  <2>1. rb # << >> /\ rb' = Tail(rb)
    BY <1>4 DEF Consume
  <2>2. Len(rb') = Len(rb) - 1
    BY <1>1, <2>1
  <2> QED
    BY <1>1, <2>2
<1> QED
  BY <1>2, <1>3, <1>4 DEF Next, MainStep, Send, SendStamped, FinishDeletes, attach_uprobe, Start,
     Loop, Return, LastReturn, get_next_key, lookup_elem, timeout_handler, signal_handler

\* The walk only looks at keys of the hash.
LEMMA AheadTyped == Ahead \subseteq Key
  BY DEF Ahead, Present

\* The place of the smallest key of a set of keys exists, for places are numbers.
LEMMA FirstKey ==
  ASSUME NEW S \in SUBSET Key, S # {}
  PROVE  \E k \in S : \A l \in S : Slot[k] <= Slot[l]
<1> DEFINE places == {Slot[k] : k \in S}
<1>1. places \subseteq Nat /\ places # {}
  BY RadosAssumption DEF RadosAssumption
<1> DEFINE less == {ss \in Nat \X Nat : ss[1] < ss[2]}
<1>2. PICK x \in places : \A y \in places : <<y, x>> \notin less
  <2> HIDE DEF places
  <2> QED
    BY <1>1, NatLessThanWellFounded, WFMin DEF OpToRel
<1>3. ASSUME NEW y \in places  PROVE x <= y
  <2>1. x \in Nat /\ y \in Nat /\ <<y, x>> \notin less
    BY <1>1, <1>2
  <2>2. <<y, x>> \in Nat \X Nat /\ <<y, x>>[1] = y /\ <<y, x>>[2] = x
    BY <2>1
  <2>3. ~ (y < x)
    BY <2>1, <2>2, Zenon
  <2> QED
    BY <2>1, <2>3
<1> QED
  BY <1>3

\* There is a call of attach_uprobe left when fewer were made than there are.
LEMMA Twice == \A n \in Nat : 2 * n \in Nat
  OBVIOUS

LEMMA OneMore == \A n \in Nat : \A a \in 0 .. n : a < n => a + 1 \in 0 .. n
  OBVIOUS

LEMMA TypeInvNext == TypeInv /\ [Next]_vars => TypeInv'
<1> SUFFICES ASSUME TypeInv, Next  PROVE TypeInv'
  <2>1. ASSUME TypeInv, UNCHANGED vars  PROVE TypeInv'
    BY <2>1 DEF TypeInv, MainTyped, ClientsTyped, Typed, vars, clients, flags, Present
  <2> QED
    BY <2>1
<1>1. Typed'
  BY TypedNext DEF TypeInv
<1>2. IsFiniteSet(Present)' /\ (Cardinality(Present) <= MAX_ENTRIES)' /\ Len(rb') <= RING_SIZE
  BY PresentNext, RingNext
<1>3. MainTyped /\ ClientsTyped
  BY DEF TypeInv
<1> SUFFICES MainTyped' /\ ClientsTyped'
  BY <1>1, <1>2 DEF TypeInv
<1> USE <1>3 DEF MainTyped, ClientsTyped
<1>4. ASSUME NEW r \in Req, Send(r)  PROVE MainTyped' /\ ClientsTyped'
  BY <1>4 DEF Send, initialize_value
<1>5. ASSUME NEW r \in Req, SendStamped(r) \/ FinishDeletes(r)  PROVE MainTyped' /\ ClientsTyped'
  BY <1>5 DEF SendStamped, FinishDeletes
<1>6. ASSUME NEW r \in Req, Finish(r)  PROVE MainTyped' /\ ClientsTyped'
  BY <1>6 DEF Finish
<1>7. CASE attach_uprobe
  <2>1. Len(Libraries) \in Nat
    BY RadosAssumption DEF RadosAssumption
  <2>2. 2 * Len(Libraries) \in Nat
    BY <2>1, Twice
  <2>3. attached' \in 0 .. 2 * Len(Libraries)
    BY <1>7, <2>2, OneMore, Zenon DEF attach_uprobe
  <2> QED
    BY <1>7, <2>3 DEF attach_uprobe, clients
<1>8. CASE Start \/ Loop \/ Consume \/ Return \/ timeout_handler \/ signal_handler
  BY <1>8 DEF Start, Loop, AfterLoop, Consume, Return, timeout_handler, signal_handler,
                    clients, PCs
<1>9. CASE LastReturn \/ lookup_elem
  BY <1>9 DEF LastReturn, lookup_elem, clients, PCs
<1>10. CASE get_next_key
  <2>1. cursor' \in Key \cup {None}
    <3>1. CASE Ahead = {}
      BY <1>10, <3>1 DEF get_next_key
    <3>2. CASE Ahead # {}
      <4>1. cursor' = CHOOSE k \in Ahead : \A l \in Ahead : Slot[k] <= Slot[l]
        BY <1>10, <3>2 DEF get_next_key
      <4>2. \E k \in Ahead : \A l \in Ahead : Slot[k] <= Slot[l]
        BY <3>2, AheadTyped, FirstKey
      <4>3. cursor' \in Ahead
        BY <4>1, <4>2
      <4> QED
        BY <4>3, AheadTyped
    <3> QED
      BY <3>1, <3>2
  <2> QED
    BY <1>10, <2>1 DEF get_next_key, clients, PCs
<1> QED
  BY <1>4, <1>5, <1>6, <1>7, <1>8, <1>9, <1>10 DEF Next, MainStep

LEMMA TypeInvInit == Init => TypeInv
<1> SUFFICES ASSUME Init  PROVE TypeInv
  OBVIOUS
<1>1. sends \in [Req -> 0 .. MaxSends]
  BY RadosAssumption DEF Init, RadosAssumption
<1>2. ops \in [Key -> OpV \cup {None}] /\ rb \in Seq(Events) /\ rows \in Seq(Row)
  BY DEF Init
<1>3. Typed
  BY <1>1, <1>2 DEF Init, Typed
<1>4. Present = {}
  BY DEF Init, Present
<1>5. IsFiniteSet(Present) /\ Cardinality(Present) = 0
  BY <1>4, FS_EmptySet
<1>6. Cardinality(Present) <= MAX_ENTRIES /\ Len(rb) <= RING_SIZE
  BY <1>5, RadosAssumption DEF RadosAssumption, Init
<1>7. attached \in 0 .. 2 * Len(Libraries)
  BY RadosAssumption DEF RadosAssumption, Init
<1> QED
  BY <1>3, <1>5, <1>6, <1>7 DEF Init, TypeInv, MainTyped, ClientsTyped, PCs

\* Hash and ring stay within max_entries and the ring's size, and the walk's
\* cursor is a key (radostrace.bpf.c, report_hung_ops).
THEOREM TypeCorrect == Spec => []TypeOK
<1>1. TypeInv => TypeOK
  BY DEF TypeInv, MainTyped, ClientsTyped, Typed, TypeOK, Present, Events, Row
<1> QED
  BY <1>1, TypeInvInit, TypeInvNext, PTL DEF Spec

-----------------------------------------------------------------------------
(* Entries of the hash                                                     *)

SendProbed(r) ==
  \E i \in 1 .. Len(Libraries) :
    /\ Libraries[i] = LibOf[r] /\ LibOf[r] \in Carriers /\ attached >= 2 * i - 1

\* The entry a request has, and why it has none when it is in flight.  A request
\* sent again finds its entry, whose stamp is 0 until uprobe_send_op is over.
Entry(r) ==
  /\ ops[KeyOf(r)] # None =>
       /\ ops[KeyOf(r)].req = r /\ SendProbed(r)
       /\ ops[KeyOf(r)].sent = IF handler[r] = "filling" THEN 0 ELSE sends[r]
       /\ stage[r] = "done" => handler[r] = "submitted" \/ excuse[r] = "no probe"
  /\ handler[r] = "filling" => ops[KeyOf(r)] # None /\ stage[r] = "flying"
  /\ handler[r] = "submitted" => stage[r] = "done"
  /\ stage[r] = "new" => ops[KeyOf(r)] = None
  /\ stage[r] = "flying" =>
       sends[r] # 0 /\ (excuse[r] = "none" => ops[KeyOf(r)] # None)

EntryInv == TypeInv /\ \A r \in Req : Entry(r)

ClientStep(r) == Send(r) \/ SendStamped(r) \/ Finish(r) \/ FinishDeletes(r)

\* Two requests have different keys: a client does not use a number twice.
LEMMA KeysDiffer == \A r, s \in Req : r # s => KeyOf(r) # KeyOf(s)
  BY RadosAssumption DEF RadosAssumption, KeyOf

\* A handler touches the entry of its own request only.
LEMMA OthersUntouched ==
  ASSUME TypeInv, NEW r \in Req, ClientStep(r), NEW s \in Req, s # r
  PROVE  /\ ops'[KeyOf(s)] = ops[KeyOf(s)] /\ handler'[s] = handler[s]
         /\ stage'[s] = stage[s] /\ sends'[s] = sends[s] /\ excuse'[s] = excuse[s]
         /\ s \in standing' => s \in standing
<1>1. KeyOf(s) # KeyOf(r) /\ KeyOf(s) \in Key /\ KeyOf(r) \in Key
  BY KeysDiffer, KeyTyped
<1>2. /\ ops \in [Key -> OpV \cup {None}] /\ sends \in [Req -> 0 .. MaxSends]
      /\ handler \in [Req -> {"none", "filling", "submitted"}]
      /\ stage \in [Req -> {"new", "flying", "done"}]
      /\ excuse \in [Req -> {"none", "no probe", "map full", "ring full"}]
  BY DEF TypeInv, Typed, ClientsTyped
<1>3. CASE Send(r)
  BY <1>1, <1>2, <1>3 DEF Send, initialize_value
<1>4. CASE SendStamped(r)
  BY <1>1, <1>2, <1>4 DEF SendStamped
<1>5. delete_elem(KeyOf(r))[KeyOf(s)] = ops[KeyOf(s)]
  BY <1>1 DEF delete_elem, DeletedWith
<1>6. CASE Finish(r)
  <2>1. ops' = ops \/ ops' = delete_elem(KeyOf(r))
    BY <1>6 DEF Finish, DroppedWhenFull
  <2>2. ops'[KeyOf(s)] = ops[KeyOf(s)]
    BY <1>5, <2>1
  <2> QED
    BY <1>1, <1>2, <1>6, <2>2 DEF Finish
<1>7. CASE FinishDeletes(r)
  BY <1>1, <1>2, <1>5, <1>7 DEF FinishDeletes
<1> QED
  BY <1>3, <1>4, <1>6, <1>7 DEF ClientStep

\* The main thread and the signal handlers leave the hash and the clients alone.
LEMMA MainFrame ==
  ASSUME MainStep \/ timeout_handler \/ signal_handler
  PROVE  UNCHANGED <<ops, clients>>
  BY DEF MainStep, attach_uprobe, Start, Loop, Consume, Return, LastReturn, get_next_key,
         lookup_elem, timeout_handler, signal_handler

\* Links are never destroyed: a probed function stays probed.
LEMMA ProbesStay ==
  ASSUME TypeInv, Next, NEW r \in Req, SendProbed(r)
  PROVE  SendProbed(r)'
<1>1. attached \in Nat /\ (attached' = attached \/ attached' = attached + 1)
  <2>1. Len(Libraries) \in Nat /\ attached \in 0 .. 2 * Len(Libraries)
    BY RadosAssumption DEF RadosAssumption, TypeInv, MainTyped
  <2>2. attached \in Nat
    BY <2>1, Twice
  <2>3. attached' = attached \/ attached' = attached + 1
    BY DEF Next, MainStep, attach_uprobe, Start, Loop, Consume, Return, LastReturn, get_next_key,
         lookup_elem, timeout_handler, signal_handler, Send, SendStamped, Finish, FinishDeletes
  <2> QED
    BY <2>2, <2>3
<1>2. PICK i \in 1 .. Len(Libraries) :
        Libraries[i] = LibOf[r] /\ LibOf[r] \in Carriers /\ attached >= 2 * i - 1
  BY DEF SendProbed
<1>3. Len(Libraries) \in Nat
  BY RadosAssumption DEF RadosAssumption
<1>4. attached' >= 2 * i - 1
  BY <1>1, <1>2, <1>3
<1> QED
  BY <1>2, <1>4 DEF SendProbed

\* A handler keeps the entry of its request as Entry says.
LEMMA OwnEntry ==
  ASSUME EntryInv, NEW r \in Req, ClientStep(r), SendProbed(r) => SendProbed(r)'
  PROVE  Entry(r)'
<1>1. KeyOf(r) \in Key
  BY KeyTyped
<1>2. /\ ops \in [Key -> OpV \cup {None}] /\ sends \in [Req -> 0 .. MaxSends]
      /\ handler \in [Req -> {"none", "filling", "submitted"}]
      /\ stage \in [Req -> {"new", "flying", "done"}]
      /\ excuse \in [Req -> {"none", "no probe", "map full", "ring full"}]
  BY DEF EntryInv, TypeInv, Typed, ClientsTyped
<1>3. Entry(r)
  BY DEF EntryInv
<1>4. [req |-> r, sent |-> 0] # None
  BY RadosAssumption DEF RadosAssumption
<1>5. delete_elem(KeyOf(r))[KeyOf(r)] = None
  BY <1>1 DEF delete_elem, DeletedWith
<1>6. CASE Send(r)
  <2>1. /\ pc # "exited" /\ stage[r] # "done" /\ handler[r] = "none" /\ sends[r] < MaxSends
        /\ stage'[r] = "flying" /\ sends'[r] = sends[r] + 1
    BY <1>2, <1>6 DEF Send
  <2>2. sends'[r] # 0
    <3>1. sends[r] \in 0 .. MaxSends /\ MaxSends \in Nat
      BY <1>2, RadosAssumption DEF RadosAssumption
    <3> QED
      BY <2>1, <3>1
  <2>3. Probed(r, "_send_op") <=> SendProbed(r)
    BY <2>1 DEF Probed, SendProbed
  <2>4. CASE SendProbed(r) /\ HasRoom(KeyOf(r))
    <3>1. /\ ops'[KeyOf(r)] = [req |-> r, sent |-> 0]
          /\ handler'[r] = "filling" /\ excuse'[r] = "none"
      BY <1>1, <1>2, <1>6, <2>3, <2>4 DEF Send, initialize_value
    <3>2. ops'[KeyOf(r)].req = r /\ ops'[KeyOf(r)].sent = 0
      BY <3>1
    <3> QED
      BY <1>4, <2>1, <2>2, <2>4, <3>1, <3>2 DEF Entry
  <2>5. CASE SendProbed(r) /\ ~HasRoom(KeyOf(r))
    <3>1. ops' = ops /\ handler' = handler /\ excuse'[r] = "map full"
      BY <1>2, <1>6, <2>3, <2>5 DEF Send, initialize_value
    <3>2. ops[KeyOf(r)] = None
      BY <1>1, <2>5 DEF HasRoom, Present
    <3> QED
      BY <2>1, <2>2, <3>1, <3>2 DEF Entry
  <2>6. CASE ~SendProbed(r)
    <3>1. ops' = ops /\ handler' = handler /\ excuse'[r] = "no probe"
      BY <1>2, <1>6, <2>3, <2>6 DEF Send
    <3>2. ops[KeyOf(r)] = None
      BY <1>3, <2>6 DEF Entry
    <3> QED
      BY <2>1, <2>2, <3>1, <3>2 DEF Entry
  <2> QED
    BY <2>4, <2>5, <2>6
<1>7. CASE SendStamped(r)
  <2>1. /\ handler[r] = "filling" /\ ops[KeyOf(r)] # None /\ handler'[r] = "none"
        /\ UNCHANGED <<stage, sends, excuse>>
    BY <1>2, <1>7 DEF SendStamped
  <2>2. ops'[KeyOf(r)] = [ops[KeyOf(r)] EXCEPT !.sent = sends[r]]
    BY <1>1, <1>2, <1>7 DEF SendStamped
  <2>3. ops[KeyOf(r)] \in OpV /\ sends[r] \in 0 .. MaxSends
    BY <1>1, <1>2, <2>1
  <2>4. ops'[KeyOf(r)] \in OpV /\ ops'[KeyOf(r)].req = ops[KeyOf(r)].req
        /\ ops'[KeyOf(r)].sent = sends[r]
    BY <2>2, <2>3 DEF OpV
  <2>5. ops'[KeyOf(r)] # None
    BY <2>4, RadosAssumption DEF RadosAssumption, OpV
  <2> QED
    BY <1>3, <2>1, <2>4, <2>5 DEF Entry
<1>8. CASE Finish(r)
  <2>1. /\ stage[r] = "flying" /\ handler[r] = "none" /\ stage'[r] = "done" /\ sends' = sends
    BY <1>2, <1>8 DEF Finish
  <2>2. CASE ops' = ops /\ handler' = handler /\ excuse'[r] = "no probe"
    BY <1>3, <2>1, <2>2 DEF Entry
  <2>3. CASE ops' = ops /\ handler' = handler /\ ops[KeyOf(r)] = None
    BY <1>3, <2>1, <2>3 DEF Entry
  <2>4. CASE ops' = delete_elem(KeyOf(r)) /\ handler' = handler
    BY <1>5, <2>1, <2>4 DEF Entry
  <2>5. CASE ops' = ops /\ handler'[r] = "submitted"
    BY <1>3, <2>1, <2>5 DEF Entry
  <2> QED
    BY <1>2, <1>8, <2>2, <2>3, <2>4, <2>5 DEF Finish, DroppedWhenFull
<1>9. CASE FinishDeletes(r)
  <2>1. /\ handler[r] = "submitted" /\ handler'[r] = "none" /\ ops'[KeyOf(r)] = None
        /\ UNCHANGED <<stage, sends, excuse>>
    BY <1>2, <1>5, <1>9 DEF FinishDeletes
  <2> QED
    BY <1>3, <2>1 DEF Entry
<1> QED
  BY <1>6, <1>7, <1>8, <1>9 DEF ClientStep

LEMMA EntryInvNext == EntryInv /\ [Next]_vars => EntryInv'
<1> SUFFICES ASSUME EntryInv, [Next]_vars, NEW s \in Req  PROVE Entry(s)'
  BY TypeInvNext DEF EntryInv
<1>1. TypeInv /\ Entry(s)
  BY DEF EntryInv
<1>2. CASE UNCHANGED vars
  BY <1>1, <1>2 DEF vars, clients, Entry, SendProbed
<1>3. CASE Next
  <2>1. SendProbed(s) => SendProbed(s)'
    BY <1>1, <1>3, ProbesStay
  <2>2. ASSUME NEW r \in Req, ClientStep(r)  PROVE Entry(s)'
    <3>1. CASE r = s
      BY <2>1, <2>2, <3>1, OwnEntry
    <3>2. CASE r # s
      <4>1. /\ ops'[KeyOf(s)] = ops[KeyOf(s)] /\ handler'[s] = handler[s]
            /\ stage'[s] = stage[s] /\ sends'[s] = sends[s] /\ excuse'[s] = excuse[s]
        BY <1>1, <2>2, <3>2, OthersUntouched
      <4> QED
        BY <1>1, <2>1, <4>1 DEF Entry
    <3> QED
      BY <3>1, <3>2
  <2>3. CASE MainStep \/ timeout_handler \/ signal_handler
    <3>1. UNCHANGED <<ops, clients>>
      BY <2>3, MainFrame
    <3> QED
      BY <1>1, <2>1, <3>1 DEF Entry, clients
  <2> QED
    BY <1>3, <2>2, <2>3 DEF Next, ClientStep
<1> QED
  BY <1>2, <1>3

LEMMA EntryInvInit == Init => EntryInv
  BY TypeInvInit, KeyTyped DEF Init, EntryInv, Entry

\* An entry of the hash ends with its request, unless _finish_op was not probed
\* yet when the request was answered (uprobe_finish_op).
THEOREM EntriesEnd == Spec => []EntriesReleased
<1>1. EntryInv => EntriesReleased
  BY KeyTyped DEF EntryInv, Entry, EntriesReleased, Present
<1> QED
  BY <1>1, EntryInvInit, EntryInvNext, PTL DEF Spec

-----------------------------------------------------------------------------
(* Answers                                                                 *)

\* An event shows a request that was answered, as it was last sent.
Right(op) == stage[op.req] = "done" /\ op.sent = sends[op.req]
RightAfter(op) == stage'[op.req] = "done" /\ op.sent = sends'[op.req]

AllRight ==
  /\ \A i \in 1 .. Len(rb) : Right(rb[i].op)
  /\ \A i \in 1 .. Len(rows) : rows[i].complete => Right(rows[i].op)

\* A request is in the ring or among the complete rows once.
Once ==
  /\ \A i, j \in 1 .. Len(rb) : rb[i].op.req = rb[j].op.req => i = j
  /\ \A i, j \in 1 .. Len(rows) :
       rows[i].complete /\ rows[j].complete /\ rows[i].op.req = rows[j].op.req => i = j
  /\ \A i \in 1 .. Len(rows), j \in 1 .. Len(rb) :
       rows[i].complete => rows[i].op.req # rb[j].op.req

InRing(r) == \E i \in 1 .. Len(rb) : rb[i].op.req = r
Printed(r) == \E i \in 1 .. Len(rows) : rows[i].complete /\ rows[i].op.req = r

Answered == \A r \in Req : stage[r] = "done" /\ excuse[r] = "none" => Printed(r) \/ InRing(r)

ReportInv == EntryInv /\ AllRight /\ Once /\ Answered

LEMMA EventTyped ==
  ASSUME Typed, NEW i \in 1 .. Len(rb)
  PROVE  rb[i] \in Events /\ rb[i].op \in OpV /\ rb[i].op.req \in Req
<1>1. rb \in Seq(Events)
  BY DEF Typed
<1>2. rb[i] \in Events
  BY <1>1
<1> QED
  BY <1>2 DEF Events, OpV

LEMMA RowTyped ==
  ASSUME Typed, NEW i \in 1 .. Len(rows)
  PROVE  /\ rows[i] \in Row /\ rows[i].op \in OpV /\ rows[i].op.req \in Req
         /\ rows[i].complete \in BOOLEAN
<1>1. rows \in Seq(Row)
  BY DEF Typed
<1>2. rows[i] \in Row
  BY <1>1
<1> QED
  BY <1>2 DEF Row, OpV

\* After its answer a request is not sent again: what an event says of it stays true.
LEMMA RightStays ==
  ASSUME EntryInv, [Next]_vars, NEW op \in OpV, Right(op)
  PROVE  RightAfter(op)
<1>1. TypeInv /\ op.req \in Req /\ Entry(op.req)
  BY DEF EntryInv, OpV
<1>2. ASSUME UNCHANGED clients  PROVE RightAfter(op)
  BY <1>2 DEF clients, Right, RightAfter
<1>3. ASSUME NEW r \in Req, ClientStep(r)  PROVE RightAfter(op)
  <2>1. CASE op.req # r
    <3>1. stage'[op.req] = stage[op.req] /\ sends'[op.req] = sends[op.req]
      BY <1>1, <1>3, <2>1, OthersUntouched
    <3> QED
      BY <3>1 DEF Right, RightAfter
  <2>2. CASE op.req = r
    <3>1. SendStamped(r) \/ FinishDeletes(r)
      BY <1>3, <2>2 DEF ClientStep, Right, Send, Finish
    <3> QED
      BY <3>1 DEF SendStamped, FinishDeletes, Right, RightAfter
  <2> QED
    BY <2>1, <2>2
<1> QED
  BY <1>2, <1>3, MainFrame DEF Next, ClientStep, vars, clients

\* What a step does to the ring and the rows.
RingKept == rb' = rb /\ rows' = rows
Submits(r) ==
  /\ stage[r] = "flying" /\ handler[r] = "none" /\ ops[KeyOf(r)] # None
  /\ stage'[r] = "done" /\ sends' = sends /\ rows' = rows
  /\ rb' = Append(rb, [op |-> ops[KeyOf(r)], late |-> Stopped])
Prints(op, complete) == rows' = Append(rows, [op |-> op, complete |-> complete])

LEMMA OutputFrame ==
  ASSUME EntryInv, [Next]_vars
  PROVE  \/ RingKept
         \/ \E r \in Req : Finish(r) /\ Submits(r)
         \/ rb # << >> /\ Prints(Head(rb).op, TRUE) /\ rb' = Tail(rb) /\ UNCHANGED clients
         \/ cursor \in Present /\ Prints(ops[cursor], FALSE) /\ rb' = rb /\ UNCHANGED clients
<1>1. ASSUME NEW r \in Req, Finish(r)  PROVE RingKept \/ Submits(r)
  <2>1. stage \in [Req -> {"new", "flying", "done"}]
    BY DEF EntryInv, TypeInv, ClientsTyped
  <2> QED
    BY <1>1, <2>1 DEF Finish, RingKept, Submits
<1>2. ASSUME NEW r \in Req, Send(r) \/ SendStamped(r) \/ FinishDeletes(r)  PROVE RingKept
  BY <1>2 DEF Send, SendStamped, FinishDeletes, RingKept
<1>3. CASE attach_uprobe \/ Start \/ Loop \/ Return \/ LastReturn \/ get_next_key
           \/ timeout_handler \/ signal_handler \/ UNCHANGED vars
  BY <1>3 DEF attach_uprobe, Start, Loop, Return, LastReturn, get_next_key, timeout_handler,
              signal_handler, vars, RingKept
<1>4. CASE Consume \/ lookup_elem
  BY <1>4 DEF Consume, lookup_elem, print_event, Prints, RingKept
<1> QED
  BY <1>1, <1>2, <1>3, <1>4 DEF Next, MainStep

\* A submitted event is the first of its request.
LEMMA SubmitKeepsReports ==
  ASSUME ReportInv, [Next]_vars, NEW r \in Req, Finish(r), Submits(r)
  PROVE  (AllRight /\ Once /\ Answered)'
<1> DEFINE e == [op |-> ops[KeyOf(r)], late |-> Stopped]
           n == Len(rb)
<1>1. rb' = Append(rb, e) /\ rows' = rows
  BY DEF Submits
<1>2. EntryInv /\ TypeInv /\ Typed /\ Entry(r)
  BY DEF ReportInv, EntryInv, TypeInv
<1>3. e.op \in OpV /\ e.op.req = r /\ e.op.sent = sends[r]
  BY <1>2, KeyTyped DEF Typed, Submits, Entry
<1>4. rb \in Seq(Events)
  BY <1>2 DEF Typed
<1> HIDE DEF e
<1>5. n \in Nat /\ Len(rb') = n + 1 /\ rb'[n + 1] = e /\ \A i \in 1 .. n : rb'[i] = rb[i]
  BY <1>1, <1>4
<1> HIDE DEF n
<1>6. \A i \in 1 .. Len(rb') : i = n + 1 \/ i \in 1 .. n
  BY <1>5
<1>7. \A i \in 1 .. n : rb[i].op \in OpV /\ Right(rb[i].op)
  BY <1>2, EventTyped DEF ReportInv, AllRight, n
<1>8. \A i \in 1 .. Len(rows) : rows[i].op \in OpV /\ (rows[i].complete => Right(rows[i].op))
  BY <1>2, RowTyped DEF ReportInv, AllRight
<1>9. \A i \in 1 .. n : rb[i].op.req # r
  BY <1>7 DEF Right, Submits
<1>10. \A i \in 1 .. Len(rows) : rows[i].complete => rows[i].op.req # r
  BY <1>8 DEF Right, Submits
<1>11. RightAfter(e.op)
  BY <1>3 DEF RightAfter, Submits
<1>12. AllRight'
  <2>1. \A i \in 1 .. Len(rb') : RightAfter(rb'[i].op)
    BY <1>2, <1>5, <1>6, <1>7, <1>11, RightStays
  <2>2. \A i \in 1 .. Len(rows) : rows[i].complete => RightAfter(rows[i].op)
    BY <1>2, <1>8, RightStays
  <2> QED
    BY <1>1, <2>1, <2>2 DEF AllRight, Right, RightAfter
<1>13. Once'
  <2>1. \A i, j \in 1 .. n : rb[i].op.req = rb[j].op.req => i = j
    BY DEF ReportInv, Once, n
  <2>2. \A i, j \in 1 .. Len(rb') : rb'[i].op.req = rb'[j].op.req => i = j
    BY <1>3, <1>5, <1>6, <1>9, <2>1
  <2>3. \A i \in 1 .. Len(rows), j \in 1 .. n : rows[i].complete => rows[i].op.req # rb[j].op.req
    BY DEF ReportInv, Once, n
  <2>4. \A i \in 1 .. Len(rows), j \in 1 .. Len(rb') :
          rows[i].complete => rows[i].op.req # rb'[j].op.req
    BY <1>3, <1>5, <1>6, <1>10, <2>3
  <2> QED
    BY <1>1, <2>2, <2>4 DEF ReportInv, Once
<1>14. Answered'
  <2> SUFFICES ASSUME NEW s \in Req, stage'[s] = "done", excuse'[s] = "none"
               PROVE  Printed(s)' \/ InRing(s)'
    BY DEF Answered
  <2>1. CASE s = r
    <3>1. n + 1 \in 1 .. Len(rb')
      BY <1>5
    <3> QED
      BY <1>3, <1>5, <2>1, <3>1 DEF InRing
  <2>2. CASE s # r
    <3>1. stage[s] = "done" /\ excuse[s] = "none"
      BY <1>2, <2>2, OthersUntouched DEF ClientStep
    <3>2. Printed(s) \/ InRing(s)
      BY <3>1 DEF ReportInv, Answered
    <3>3. Printed(s) => Printed(s)'
      BY <1>1 DEF Printed
    <3>4. InRing(s) => InRing(s)'
      <4> SUFFICES ASSUME NEW i \in 1 .. n, rb[i].op.req = s  PROVE InRing(s)'
        BY DEF InRing, n
      <4>1. i \in 1 .. Len(rb') /\ rb'[i] = rb[i]
        BY <1>5
      <4> QED
        BY <4>1 DEF InRing
    <3> QED
      BY <3>2, <3>3, <3>4
  <2> QED
    BY <2>1, <2>2
<1> QED
  BY <1>12, <1>13, <1>14

\* handle_event prints the oldest event, and the ring forgets it.
LEMMA ConsumeKeepsReports ==
  ASSUME ReportInv, [Next]_vars, rb # << >>, Prints(Head(rb).op, TRUE), rb' = Tail(rb),
         UNCHANGED clients
  PROVE  (AllRight /\ Once /\ Answered)'
<1> DEFINE row == [op |-> Head(rb).op, complete |-> TRUE]
           m == Len(rows)
           n == Len(rb)
<1>1. EntryInv /\ Typed
  BY DEF ReportInv, EntryInv, TypeInv
<1>2. rb \in Seq(Events) /\ rows \in Seq(Row)
  BY <1>1 DEF Typed
<1>3. n \in Nat /\ n > 0 /\ Head(rb) = rb[1] /\ 1 \in 1 .. n
  BY <1>2
<1>4. row.op = rb[1].op /\ row.complete
  BY <1>3
<1>5. rows' = Append(rows, row)
  BY DEF Prints
<1> HIDE DEF row
<1>6. m \in Nat /\ Len(rows') = m + 1 /\ rows'[m + 1] = row /\ \A i \in 1 .. m : rows'[i] = rows[i]
  BY <1>2, <1>5
<1>7. Len(rb') = n - 1 /\ \A i \in 1 .. Len(rb') : rb'[i] = rb[i + 1]
  BY <1>2, HeadTailProperties
<1> HIDE DEF m, n
<1>8. \A i \in 1 .. Len(rows') : i = m + 1 \/ i \in 1 .. m
  BY <1>6
<1>9. \A i \in 1 .. Len(rb') : i + 1 \in 1 .. n /\ i + 1 # 1 /\ i \in Nat
  BY <1>3, <1>7
<1>10. \A i \in 1 .. n : rb[i].op \in OpV /\ Right(rb[i].op)
  BY <1>1, EventTyped DEF ReportInv, AllRight, n
<1>11. \A i \in 1 .. m : rows[i].op \in OpV /\ (rows[i].complete => Right(rows[i].op))
  BY <1>1, RowTyped DEF ReportInv, AllRight, m
<1>12. /\ \A i, j \in 1 .. n : rb[i].op.req = rb[j].op.req => i = j
       /\ \A i, j \in 1 .. m :
            rows[i].complete /\ rows[j].complete /\ rows[i].op.req = rows[j].op.req => i = j
       /\ \A i \in 1 .. m, j \in 1 .. n : rows[i].complete => rows[i].op.req # rb[j].op.req
  BY DEF ReportInv, Once, m, n
<1>13. AllRight'
  <2>1. \A i \in 1 .. Len(rb') : RightAfter(rb'[i].op)
    BY <1>1, <1>7, <1>9, <1>10, RightStays
  <2>2. RightAfter(row.op)
    BY <1>1, <1>3, <1>4, <1>10, RightStays
  <2>3. \A i \in 1 .. m : rows[i].complete => RightAfter(rows[i].op)
    BY <1>1, <1>11, RightStays
  <2>4. \A i \in 1 .. Len(rows') : rows'[i].complete => RightAfter(rows'[i].op)
    BY <1>6, <1>8, <2>2, <2>3
  <2> QED
    BY <2>1, <2>4 DEF AllRight, Right, RightAfter
<1>14. Once'
  <2>1. \A i, j \in 1 .. Len(rb') : rb'[i].op.req = rb'[j].op.req => i = j
    <3> SUFFICES ASSUME NEW i \in 1 .. Len(rb'), NEW j \in 1 .. Len(rb'),
                        rb'[i].op.req = rb'[j].op.req
                 PROVE  i = j
      OBVIOUS
    <3>1. i + 1 = j + 1
      BY <1>7, <1>9, <1>12
    <3> QED
      BY <1>9, <3>1
  <2>2. \A i, j \in 1 .. Len(rows') :
          rows'[i].complete /\ rows'[j].complete /\ rows'[i].op.req = rows'[j].op.req => i = j
    BY <1>3, <1>4, <1>6, <1>8, <1>12
  <2>3. \A i \in 1 .. Len(rows'), j \in 1 .. Len(rb') :
          rows'[i].complete => rows'[i].op.req # rb'[j].op.req
    <3> SUFFICES ASSUME NEW i \in 1 .. Len(rows'), NEW j \in 1 .. Len(rb'), rows'[i].complete
                 PROVE  rows'[i].op.req # rb'[j].op.req
      OBVIOUS
    <3>1. j + 1 \in 1 .. n /\ j + 1 # 1 /\ rb'[j] = rb[j + 1]
      BY <1>7, <1>9
    <3>2. CASE i = m + 1
      BY <1>3, <1>4, <1>6, <1>12, <3>1, <3>2
    <3>3. CASE i \in 1 .. m
      BY <1>6, <1>12, <3>1, <3>3
    <3> QED
      BY <1>8, <3>2, <3>3
  <2> QED
    BY <2>1, <2>2, <2>3 DEF Once
<1>15. Answered'
  <2> SUFFICES ASSUME NEW s \in Req, Printed(s) \/ InRing(s)  PROVE Printed(s)' \/ InRing(s)'
    BY DEF ReportInv, Answered, clients
  <2>1. CASE Printed(s)
    <3>1. PICK i \in 1 .. m : rows[i].complete /\ rows[i].op.req = s
      BY <2>1 DEF Printed, m
    <3>2. i \in 1 .. Len(rows') /\ rows'[i] = rows[i]
      BY <1>6
    <3> QED
      BY <3>1, <3>2 DEF Printed
  <2>2. CASE InRing(s)
    <3>1. PICK i \in 1 .. n : rb[i].op.req = s
      BY <2>2 DEF InRing, n
    <3>2. CASE i = 1
      <4>1. m + 1 \in 1 .. Len(rows')
        BY <1>6
      <4> QED
        BY <1>4, <1>6, <3>1, <3>2, <4>1 DEF Printed
    <3>3. CASE i # 1
      <4>1. i - 1 \in 1 .. Len(rb') /\ (i - 1) + 1 = i
        BY <1>3, <1>7, <3>3
      <4>2. rb'[i - 1] = rb[i]
        BY <1>7, <4>1
      <4> QED
        BY <3>1, <4>1, <4>2 DEF InRing
    <3> QED
      BY <3>2, <3>3
  <2> QED
    BY <2>1, <2>2
<1> QED
  BY <1>13, <1>14, <1>15

\* report_hung_ops prints rows with Complete=0.
LEMMA WalkKeepsReports ==
  ASSUME ReportInv, [Next]_vars, cursor \in Present, Prints(ops[cursor], FALSE), rb' = rb,
         UNCHANGED clients
  PROVE  (AllRight /\ Once /\ Answered)'
<1> DEFINE row == [op |-> ops[cursor], complete |-> FALSE]
           m == Len(rows)
<1>1. EntryInv /\ Typed
  BY DEF ReportInv, EntryInv, TypeInv
<1>2. rows \in Seq(Row)
  BY <1>1 DEF Typed
<1>3. ~row.complete /\ rows' = Append(rows, row)
  BY DEF Prints
<1> HIDE DEF row
<1>4. m \in Nat /\ Len(rows') = m + 1 /\ rows'[m + 1] = row /\ \A i \in 1 .. m : rows'[i] = rows[i]
  BY <1>2, <1>3
<1> HIDE DEF m
<1>5. \A i \in 1 .. Len(rows') : rows'[i].complete => i \in 1 .. m /\ rows'[i] = rows[i]
  BY <1>3, <1>4
<1>6. /\ \A i \in 1 .. Len(rb) : rb[i].op \in OpV /\ Right(rb[i].op)
      /\ \A i \in 1 .. m : rows[i].op \in OpV /\ (rows[i].complete => Right(rows[i].op))
  BY <1>1, EventTyped, RowTyped DEF ReportInv, AllRight, m
<1>7. AllRight'
  BY <1>1, <1>5, <1>6, RightStays DEF AllRight, Right, RightAfter
<1>8. Once'
  BY <1>5 DEF ReportInv, Once, m
<1>9. \A s \in Req : Printed(s) => Printed(s)'
  <2> SUFFICES ASSUME NEW s \in Req, NEW i \in 1 .. m, rows[i].complete, rows[i].op.req = s
               PROVE  Printed(s)'
    BY DEF Printed, m
  <2>1. i \in 1 .. Len(rows') /\ rows'[i] = rows[i]
    BY <1>4
  <2> QED
    BY <2>1 DEF Printed
<1>10. Answered'
  BY <1>9 DEF ReportInv, Answered, InRing, clients
<1> QED
  BY <1>7, <1>8, <1>10

\* A handler that puts nothing in the ring answers nothing without an excuse.
LEMMA KeptKeepsReports ==
  ASSUME ReportInv, [Next]_vars, RingKept
  PROVE  (AllRight /\ Once /\ Answered)'
<1>1. EntryInv /\ Typed /\ TypeInv
  BY DEF ReportInv, EntryInv, TypeInv
<1>2. /\ \A i \in 1 .. Len(rb) : rb[i].op \in OpV /\ Right(rb[i].op)
      /\ \A i \in 1 .. Len(rows) : rows[i].op \in OpV /\ (rows[i].complete => Right(rows[i].op))
  BY <1>1, EventTyped, RowTyped DEF ReportInv, AllRight
<1>3. AllRight'
  BY <1>1, <1>2, RightStays DEF AllRight, RingKept, Right, RightAfter
<1>4. Once'
  BY DEF ReportInv, Once, RingKept
<1>5. Answered'
  <2> SUFFICES ASSUME NEW s \in Req, stage'[s] = "done", excuse'[s] = "none"
               PROVE  stage[s] = "done" /\ excuse[s] = "none"
    BY DEF ReportInv, Answered, Printed, InRing, RingKept
  <2>1. CASE UNCHANGED clients
    BY <2>1 DEF clients
  <2>2. ASSUME NEW r \in Req, ClientStep(r)  PROVE stage[s] = "done" /\ excuse[s] = "none"
    <3>1. CASE s # r
      BY <1>1, <2>2, <3>1, OthersUntouched
    <3>2. CASE s = r
      <4>1. Entry(r) /\ rb \in Seq(Events)
        BY <1>1 DEF EntryInv, Typed
      <4>2. /\ stage \in [Req -> {"new", "flying", "done"}]
            /\ excuse \in [Req -> {"none", "no probe", "map full", "ring full"}]
        BY <1>1 DEF TypeInv, ClientsTyped
      <4>3. ~Send(r)
        BY <3>2, <4>2 DEF Send
      <4>4. CASE SendStamped(r) \/ FinishDeletes(r)
        BY <3>2, <4>4 DEF SendStamped, FinishDeletes
      <4>5. CASE Finish(r)
        <5>1. stage[r] = "flying"
          BY <4>5 DEF Finish
        <5>2. CASE excuse' = [excuse EXCEPT ![r] = "no probe"]
                   \/ excuse' = [excuse EXCEPT ![r] = "ring full"]
          BY <3>2, <4>2, <5>2
        <5>3. CASE ops[KeyOf(r)] = None /\ excuse' = excuse
          BY <3>2, <4>1, <5>1, <5>3 DEF Entry
        <5>4. CASE rb' = Append(rb, [op |-> ops[KeyOf(r)], late |-> Stopped])
          <6> DEFINE e == [op |-> ops[KeyOf(r)], late |-> Stopped]
          <6>1. rb' = Append(rb, e)
            BY <5>4
          <6> HIDE DEF e
          <6>2. Len(rb) \in Nat /\ Len(rb') = Len(rb) + 1
            BY <4>1, <6>1
          <6> QED
            BY <6>2 DEF RingKept
        <5> QED
          BY <4>5, <5>2, <5>3, <5>4 DEF Finish
      <4> QED
        BY <2>2, <4>3, <4>4, <4>5 DEF ClientStep
    <3> QED
      BY <3>1, <3>2
  <2> QED
    BY <2>1, <2>2, MainFrame DEF Next, ClientStep, vars, clients
<1> QED
  BY <1>3, <1>4, <1>5

LEMMA ReportInvNext == ReportInv /\ [Next]_vars => ReportInv'
<1> SUFFICES ASSUME ReportInv, [Next]_vars  PROVE ReportInv'
  OBVIOUS
<1>1. EntryInv /\ EntryInv'
  BY EntryInvNext DEF ReportInv
<1>2. (AllRight /\ Once /\ Answered)'
  BY <1>1, OutputFrame, SubmitKeepsReports, ConsumeKeepsReports, WalkKeepsReports, KeptKeepsReports
<1> QED
  BY <1>1, <1>2 DEF ReportInv

LEMMA ReportInvInit == Init => ReportInv
  BY EntryInvInit DEF Init, ReportInv, AllRight, Once, Answered

\* A row with Complete=1 is about a request that was answered, shows it as it
\* was last sent, and is printed once (uprobe_finish_op, handle_event).
THEOREM CompleteRows == Spec => []CompleteRowsRight
<1>1. ASSUME ReportInv, NEW r \in Req  PROVE Cardinality(RowsOf(r, TRUE)) <= 1
  <2>1. \A i, j \in RowsOf(r, TRUE) : i = j
    BY <1>1 DEF ReportInv, Once, RowsOf
  <2>2. RowsOf(r, TRUE) = {} \/ \E i : RowsOf(r, TRUE) = {i}
    BY <2>1
  <2> DEFINE n == Cardinality(RowsOf(r, TRUE))
  <2>3. n = 0 \/ n = 1
    BY <2>2, FS_EmptySet, FS_Singleton, Zenon
  <2> HIDE DEF n
  <2>4. n <= 1
    BY <2>3
  <2> QED
    BY <2>4 DEF n
<1>2. ASSUME ReportInv, NEW r \in Req, NEW i \in RowsOf(r, TRUE)
      PROVE  stage[r] = "done" /\ rows[i].op.sent = sends[r]
  BY <1>2 DEF ReportInv, AllRight, Right, RowsOf
<1>3. ReportInv => CompleteRowsRight
  BY <1>1, <1>2 DEF CompleteRowsRight
<1> QED
  BY <1>3, ReportInvInit, ReportInvNext, PTL DEF Spec

\* An answered request is printed or on its way, or the hash or the ring had no
\* room for it, or a function was not probed yet (uprobe_send_op, uprobe_finish_op).
THEOREM AnswersAccountedFor == Spec => []AnswersReported
<1>1. ASSUME Typed, NEW r \in Req, Printed(r)  PROVE RowsOf(r, TRUE) # {}
  BY <1>1, RowTyped DEF Printed, RowsOf
<1>2. ReportInv => AnswersReported
  BY <1>1 DEF ReportInv, EntryInv, TypeInv, Answered, AnswersReported, InRing
<1> QED
  BY <1>2, ReportInvInit, ReportInvNext, PTL DEF Spec

-----------------------------------------------------------------------------
(* The walk                                                                *)

Listed(r) == \E i \in 1 .. Len(rows) :
  rows[i].op.req = r /\ ~rows[i].complete /\ rows[i].op.sent = sends[r]

Before(k, l) == Slot[k] < Slot[l]

\* A request standing since the walk began keeps its entry, and is listed once
\* the cursor has passed its place: wherever get_next_key starts over, it skips
\* no key that is there.
WalkInv ==
  /\ EntryInv
  /\ pc \notin {"walk", "look", "exited"} => cursor = None
  /\ pc = "look" => cursor # None
  /\ \A r \in standing :
       /\ stage[r] = "flying" /\ handler[r] = "none" /\ ops[KeyOf(r)] # None
       /\ pc = "walk" /\ cursor # None => Before(cursor, KeyOf(r)) \/ Listed(r)
       /\ pc = "look" /\ Before(KeyOf(r), cursor) => Listed(r)
       /\ pc = "exited" => Listed(r)

\* Keys have places of their own.
LEMMA Places ==
  /\ \A k \in Key : Slot[k] \in Nat
  /\ \A k, l \in Key : k # l => Before(k, l) \/ Before(l, k)
  BY RadosAssumption DEF RadosAssumption, Before

\* Rows are only added.
LEMMA ListedStays ==
  ASSUME EntryInv, [Next]_vars, NEW r \in Req, sends'[r] = sends[r], Listed(r)
  PROVE  Listed(r)'
<1>1. rows \in Seq(Row)
  BY DEF EntryInv, TypeInv, Typed
<1>2. PICK i \in 1 .. Len(rows) :
        rows[i].op.req = r /\ ~rows[i].complete /\ rows[i].op.sent = sends[r]
  BY DEF Listed
<1>3. rows' = rows \/ \E op, complete : Prints(op, complete)
  BY OutputFrame DEF RingKept, Submits
<1>4. i \in 1 .. Len(rows') /\ rows'[i] = rows[i]
  <2>1. ASSUME NEW row, rows' = Append(rows, row)  PROVE i \in 1 .. Len(rows') /\ rows'[i] = rows[i]
    BY <1>1, <2>1
  <2> QED
    BY <1>3, <2>1 DEF Prints
<1> QED
  BY <1>2, <1>4 DEF Listed

\* lookup_elem prints the request the cursor is at.
LEMMA LookLists ==
  ASSUME WalkInv, lookup_elem, NEW r \in standing, cursor = KeyOf(r)
  PROVE  Listed(r)'
<1>1. EntryInv /\ r \in Req /\ Entry(r) /\ KeyOf(r) \in Key
  BY KeyTyped DEF WalkInv, EntryInv, TypeInv, ClientsTyped
<1>2. ops[cursor].req = r /\ ops[cursor].sent = sends[r] /\ sends[r] # 0 /\ cursor \in Present
  BY <1>1 DEF WalkInv, Entry, Present
<1> DEFINE row == [op |-> ops[cursor], complete |-> FALSE]
<1>3. rows' = Append(rows, row) /\ sends' = sends
  BY <1>2 DEF lookup_elem, print_event, clients
<1>4. row.op.req = r /\ ~row.complete /\ row.op.sent = sends[r]
  BY <1>2
<1>5. rows \in Seq(Row)
  BY <1>1 DEF EntryInv, TypeInv, Typed
<1> HIDE DEF row
<1>6. Len(rows') = Len(rows) + 1 /\ rows'[Len(rows) + 1] = row /\ Len(rows) \in Nat
  BY <1>3, <1>5
<1>7. Len(rows) + 1 \in 1 .. Len(rows')
  BY <1>6
<1> QED
  BY <1>3, <1>4, <1>6, <1>7 DEF Listed

\* What get_next_key passes over is listed already.
LEMMA NextKeySkipsNone ==
  ASSUME WalkInv, get_next_key, NEW r \in standing
  PROVE  /\ Ahead = {} => Listed(r)
         /\ Ahead # {} => /\ cursor' \in Key
                          /\ Before(KeyOf(r), cursor') => Listed(r)
<1>1. EntryInv /\ TypeInv /\ r \in Req /\ KeyOf(r) \in Key /\ cursor \in Key \cup {None}
  BY KeyTyped DEF WalkInv, EntryInv, TypeInv, ClientsTyped, MainTyped
<1>2. KeyOf(r) \in Present /\ None \notin Key /\ Present \subseteq Key
  BY <1>1, RadosAssumption DEF WalkInv, Present, RadosAssumption
<1>3. cursor \in Present => Before(cursor, KeyOf(r)) \/ Listed(r)
  BY <1>2 DEF WalkInv, get_next_key
<1>4. KeyOf(r) \in Ahead \/ Listed(r)
  BY <1>2, <1>3, Places DEF Ahead, Before
<1>5. ASSUME Ahead # {}
      PROVE  cursor' \in Key /\ (Before(KeyOf(r), cursor') => Listed(r))
  <2>1. cursor' = CHOOSE k \in Ahead : \A l \in Ahead : Slot[k] <= Slot[l]
    BY <1>5 DEF get_next_key
  <2>2. \E k \in Ahead : \A l \in Ahead : Slot[k] <= Slot[l]
    BY <1>5, AheadTyped, FirstKey
  <2>3. cursor' \in Ahead /\ \A l \in Ahead : Slot[cursor'] <= Slot[l]
    BY <2>1, <2>2
  <2>4. cursor' \in Key
    BY <2>3, AheadTyped
  <2>5. Slot[cursor'] \in Nat /\ Slot[KeyOf(r)] \in Nat
    BY <1>1, <2>4, Places
  <2>6. KeyOf(r) \in Ahead => ~Before(KeyOf(r), cursor')
    BY <2>3, <2>5 DEF Before
  <2> QED
    BY <1>4, <2>4, <2>6
<1> QED
  BY <1>4, <1>5

\* A handler leaves the standing requests alone, or the request stands no more.
LEMMA StandingKept ==
  ASSUME WalkInv, NEW r \in Req, ClientStep(r), NEW s \in standing'
  PROVE  /\ s \in standing /\ s \in Req /\ sends'[s] = sends[s]
         /\ stage'[s] = "flying" /\ handler'[s] = "none" /\ ops'[KeyOf(s)] # None
<1>1. EntryInv /\ TypeInv /\ standing \subseteq Req
  BY DEF WalkInv, EntryInv, TypeInv, ClientsTyped
<1>2. standing' = standing \/ standing' = standing \ {r}
  BY DEF ClientStep, Send, SendStamped, Finish, FinishDeletes
<1>3. s \in standing /\ s \in Req /\ stage[s] = "flying" /\ handler[s] = "none"
      /\ ops[KeyOf(s)] # None
  BY <1>1, <1>2 DEF WalkInv
<1>4. CASE s # r
  BY <1>1, <1>3, <1>4, OthersUntouched
<1>5. CASE s = r
  <2>1. Send(r) \/ Finish(r)
    BY <1>3, <1>5 DEF ClientStep, SendStamped, FinishDeletes
  <2> QED
    BY <1>5, <2>1 DEF Send, Finish
<1> QED
  BY <1>4, <1>5

LEMMA WalkInvNext == WalkInv /\ [Next]_vars => WalkInv'
<1> SUFFICES ASSUME WalkInv, [Next]_vars  PROVE WalkInv'
  OBVIOUS
<1>1. EntryInv /\ EntryInv' /\ TypeInv /\ standing \subseteq Req
      /\ cursor \in Key \cup {None} /\ None \notin Key /\ pc \in PCs
  BY EntryInvNext, RadosAssumption
     DEF WalkInv, EntryInv, TypeInv, ClientsTyped, MainTyped, RadosAssumption
<1> DEFINE
  Cursor == /\ pc \notin {"walk", "look", "exited"} => cursor = None
            /\ pc = "look" => cursor # None
  Stands(r) == /\ stage[r] = "flying" /\ handler[r] = "none" /\ ops[KeyOf(r)] # None
               /\ pc = "walk" /\ cursor # None => Before(cursor, KeyOf(r)) \/ Listed(r)
               /\ pc = "look" /\ Before(KeyOf(r), cursor) => Listed(r)
               /\ pc = "exited" => Listed(r)
<1>2. Cursor /\ \A r \in standing : Stands(r)
  BY DEF WalkInv
<1> SUFFICES Cursor' /\ \A s \in standing' : Stands(s)'
  BY <1>1 DEF WalkInv
<1>3. ASSUME NEW r \in Req, ClientStep(r)  PROVE Cursor' /\ \A s \in standing' : Stands(s)'
  <2>1. pc' = pc /\ cursor' = cursor
    BY <1>3 DEF ClientStep, Send, SendStamped, Finish, FinishDeletes
  <2>2. ASSUME NEW s \in standing'  PROVE Stands(s)'
    <3>1. /\ s \in standing /\ s \in Req /\ sends'[s] = sends[s]
          /\ stage'[s] = "flying" /\ handler'[s] = "none" /\ ops'[KeyOf(s)] # None
      BY <1>3, <2>2, StandingKept
    <3>2. Listed(s) => Listed(s)'
      BY <1>1, <3>1, ListedStays
    <3> QED
      BY <1>2, <2>1, <3>1, <3>2 DEF Before
  <2> QED
    BY <1>2, <2>1, <2>2
<1>4. ASSUME MainStep \/ timeout_handler \/ signal_handler \/ UNCHANGED vars,
             NEW s \in standing
      PROVE  s \in Req /\ (Listed(s) => Listed(s)') /\ UNCHANGED <<ops, clients>>
  <2>1. UNCHANGED <<ops, clients>>
    BY <1>4, MainFrame DEF vars
  <2>2. Listed(s) => Listed(s)'
    BY <1>1, <2>1, ListedStays DEF clients
  <2> QED
    BY <1>1, <2>1, <2>2
<1>5. CASE attach_uprobe \/ Start \/ Loop \/ Consume \/ Return \/ timeout_handler
           \/ signal_handler \/ UNCHANGED vars
  <2>1. cursor' = cursor /\ standing' = standing
    BY <1>5 DEF attach_uprobe, Start, Loop, Consume, Return, timeout_handler, signal_handler, vars
  <2>2. pc' = pc \/ {pc, pc'} \cap {"walk", "look", "exited"} = {}
    BY <1>5 DEF attach_uprobe, Start, Loop, Consume, Return, timeout_handler, signal_handler, vars,
                AfterLoop
  <2>3. ASSUME NEW s \in standing'  PROVE Stands(s)'
    <3>1. s \in standing /\ (Listed(s) => Listed(s)') /\ UNCHANGED <<ops, clients>>
      BY <1>4, <1>5, <2>1, <2>3 DEF MainStep
    <3> QED
      BY <1>2, <2>1, <2>2, <3>1 DEF clients, Before
  <2> QED
    BY <1>2, <2>1, <2>2, <2>3
<1>6. CASE LastReturn
  <2>1. pc = "last" /\ pc' = "walk" /\ cursor' = cursor /\ UNCHANGED <<ops, clients>>
    BY <1>6 DEF LastReturn
  <2>2. cursor' = None
    BY <1>2, <2>1
  <2>3. ASSUME NEW s \in standing'  PROVE Stands(s)'
    <3>1. s \in Req /\ stage[s] = "flying" /\ ops[KeyOf(s)] # None /\ ops[KeyOf(s)].sent # 0
      BY <1>6, <2>3 DEF LastReturn, Present
    <3>2. Entry(s) /\ handler[s] \in {"none", "filling", "submitted"}
      BY <1>1, <3>1 DEF EntryInv, TypeInv, ClientsTyped
    <3>3. handler[s] = "none"
      BY <3>1, <3>2 DEF Entry
    <3> QED
      BY <2>1, <2>2, <3>1, <3>3 DEF clients
  <2> QED
    BY <2>1, <2>3
<1>7. CASE get_next_key
  <2>1. pc = "walk" /\ standing' = standing /\ UNCHANGED <<ops, clients>>
    BY <1>7 DEF get_next_key
  <2>2. \/ Ahead = {} /\ pc' = "exited"
        \/ Ahead # {} /\ pc' = "look"
    BY <1>7 DEF get_next_key
  <2>3. ASSUME NEW s \in standing'  PROVE Stands(s)'
    <3>1. s \in standing /\ (Listed(s) => Listed(s)')
      BY <1>4, <1>7, <2>1, <2>3 DEF MainStep
    <3>2. /\ Ahead = {} => Listed(s)
          /\ Ahead # {} => (Before(KeyOf(s), cursor') => Listed(s))
      BY <1>7, <3>1, NextKeySkipsNone
    <3> QED
      BY <1>2, <2>1, <2>2, <3>1, <3>2 DEF clients, Before
  <2>4. ASSUME Ahead # {}  PROVE cursor' # None
    <3>1. cursor' = CHOOSE k \in Ahead : \A l \in Ahead : Slot[k] <= Slot[l]
      BY <1>7, <2>4 DEF get_next_key
    <3>2. \E k \in Ahead : \A l \in Ahead : Slot[k] <= Slot[l]
      BY <2>4, AheadTyped, FirstKey
    <3> QED
      BY <1>1, <3>1, <3>2, AheadTyped
  <2> QED
    BY <2>2, <2>3, <2>4
<1>8. CASE lookup_elem
  <2>1. /\ pc = "look" /\ pc' = "walk" /\ cursor' = cursor /\ standing' = standing
        /\ UNCHANGED <<ops, clients>>
    BY <1>8 DEF lookup_elem
  <2>2. cursor \in Key
    BY <1>1, <1>2, <2>1
  <2>3. ASSUME NEW s \in standing'  PROVE Stands(s)'
    <3>1. s \in standing /\ (Listed(s) => Listed(s)') /\ s \in Req
      BY <1>4, <1>8, <2>1, <2>3 DEF MainStep
    <3>2. KeyOf(s) \in Key
      BY <3>1, KeyTyped
    <3>3. \/ KeyOf(s) = cursor
          \/ Before(cursor, KeyOf(s))
          \/ Before(KeyOf(s), cursor)
      BY <2>2, <3>2, Places
    <3>4. Before(cursor, KeyOf(s)) \/ Listed(s)'
      BY <1>2, <1>8, <2>1, <3>1, <3>3, LookLists
    <3> QED
      BY <1>2, <2>1, <3>1, <3>4 DEF clients, Before
  <2> QED
    BY <1>2, <2>1, <2>3
<1> HIDE DEF Cursor, Stands
<1> QED
  BY <1>3, <1>5, <1>6, <1>7, <1>8 DEF Next, MainStep, ClientStep

LEMMA WalkInvInit == Init => WalkInv
  BY EntryInvInit DEF Init, WalkInv

\* A request that stays in flight during the walk is printed, although other
\* entries come and go under the walk (report_hung_ops).
THEOREM StandingListed == Spec => []StandingReported
<1>1. ASSUME WalkInv, pc = "exited", NEW r \in standing
      PROVE  \E i \in RowsOf(r, FALSE) : rows[i].op.sent = sends[r]
  <2>1. PICK i \in 1 .. Len(rows) :
          rows[i].op.req = r /\ ~rows[i].complete /\ rows[i].op.sent = sends[r]
    BY <1>1 DEF WalkInv, Listed
  <2>2. rows[i].complete \in BOOLEAN
    BY <1>1, RowTyped DEF WalkInv, EntryInv, TypeInv
  <2>3. rows[i].complete = FALSE
    BY <2>1, <2>2
  <2> QED
    BY <2>1, <2>3 DEF RowsOf
<1>2. WalkInv => StandingReported
  BY <1>1 DEF StandingReported
<1> QED
  BY <1>2, WalkInvInit, WalkInvNext, PTL DEF Spec
=============================================================================
