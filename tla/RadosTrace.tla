----------------------------- MODULE RadosTrace -----------------------------
(***************************************************************************)
(* radostrace: the two probes in librados clients, the drain loop, and the *)
(* walk over the requests still in flight when it is told to stop.         *)
(*                                                                         *)
(* A time stamp is the number of the send it was taken at.  The probe      *)
(* handlers run in the clients while the main thread drains and walks, so  *)
(* each is split where the other can see the difference.                   *)
(***************************************************************************)
EXTENDS Naturals, Sequences, FiniteSets

CONSTANTS
  Req,         \* requests of all clients
  CidOf, TidOf, LibOf,  \* a request's client, its number there, and the library
                        \* its client sends through
  Libraries,   \* the traced libraries, in the order of rados_lib_paths
  Carriers,    \* those that contain Objecter's functions
  Slot,        \* Slot[k]: the place of a key in the hash
  MAX_ENTRIES, \* max_entries of ops
  RING_SIZE,
  None,
  MaxSends     \* bound: how often a request is sent

Cids == {CidOf[r] : r \in Req}
Tids == {TidOf[r] : r \in Req}
Key == [cid : Cids, tid : Tids]

TidOnly(r) == [cid |-> CHOOSE c \in Cids : TRUE, tid |-> TidOf[r]]   \* mutant
KeyOf(r) == [cid |-> CidOf[r], tid |-> TidOf[r]]

\* A client does not use a number twice; keys have places of their own.
ASSUME RadosAssumption ==
  /\ \A r, s \in Req : CidOf[r] = CidOf[s] /\ TidOf[r] = TidOf[s] => r = s
  /\ \A k \in Key : Slot[k] \in Nat
  /\ \A k, l \in Key : Slot[k] = Slot[l] => k = l
  /\ MAX_ENTRIES \in Nat /\ RING_SIZE \in Nat /\ MaxSends \in Nat
  /\ Len(Libraries) \in Nat
  /\ None \notin Key /\ None \notin [req : Req, sent : 0 .. MaxSends]

VARIABLES
  pc,        \* where the main thread is
  attached,  \* attach_uprobe calls made
  timeout_occurred, got_sigint,
  ops,       \* the hash: a record or None for each key
  rb,        \* the ring; late tells whether the event followed the stop
  rows,      \* rows printed
  cursor,    \* key_ptr of the walk
  handler,   \* what of a request's handler is still to do
  stage, sends,  \* the clients: state of a request, times it was sent
  excuse,    \* why a request is not reported
  standing   \* requests in flight since the walk began

clients == <<handler, stage, sends, excuse>>
flags == <<timeout_occurred, got_sigint>>
vars == <<pc, attached, flags, ops, rb, rows, cursor, clients, standing>>

OpV == [req : Req, sent : 0 .. MaxSends]
PCs == {"attach", "loop", "drain", "drained", "sleep", "last", "walk", "look",
        "exited"}

TypeOK ==
  /\ pc \in PCs /\ attached \in 0 .. 2 * Len(Libraries)
  /\ timeout_occurred \in BOOLEAN /\ got_sigint \in BOOLEAN
  /\ ops \in [Key -> OpV \cup {None}]
  /\ Cardinality({k \in Key : ops[k] # None}) <= MAX_ENTRIES
  /\ rb \in Seq([op : OpV, late : BOOLEAN]) /\ Len(rb) <= RING_SIZE
  /\ rows \in Seq([op : OpV, complete : BOOLEAN])
  /\ cursor \in Key \cup {None}
  /\ handler \in [Req -> {"none", "filling", "submitted"}]
  /\ stage \in [Req -> {"new", "flying", "done"}] /\ sends \in [Req -> 0 .. MaxSends]
  /\ excuse \in [Req -> {"none", "no probe", "map full", "ring full"}]
  /\ standing \subseteq Req

Init ==
  /\ pc = "attach" /\ attached = 0
  /\ timeout_occurred = FALSE /\ got_sigint = FALSE
  /\ ops = [k \in Key |-> None] /\ rb = << >> /\ rows = << >> /\ cursor = None
  /\ handler = [r \in Req |-> "none"] /\ stage = [r \in Req |-> "new"]
  /\ sends = [r \in Req |-> 0] /\ excuse = [r \in Req |-> "none"]
  /\ standing = {}

Stopped == timeout_occurred \/ got_sigint

-----------------------------------------------------------------------------
(* The probes                                                              *)

\* The calls of attach_uprobe alternate: _send_op, then _finish_op, for each
\* library.  One without the symbol is skipped.
Probed(r, func) ==
  /\ pc # "exited"
  /\ \E i \in 1 .. Len(Libraries) :
       /\ Libraries[i] = LibOf[r] /\ LibOf[r] \in Carriers
       /\ attached >= 2 * i - (IF func = "_send_op" THEN 1 ELSE 0)

Present == {k \in Key : ops[k] # None}
NoLimit(k) == TRUE   \* mutant
HasRoom(k) == k \in Present \/ Cardinality(Present) < MAX_ENTRIES

\* uprobe_send_op until the stamp: whatever the key had is replaced.
initialize_value(r) ==
  IF HasRoom(KeyOf(r))
    THEN /\ ops' = [ops EXCEPT ![KeyOf(r)] = [req |-> r, sent |-> 0]]
         /\ handler' = [handler EXCEPT ![r] = "filling"]
         /\ excuse' = [excuse EXCEPT ![r] = "none"]
    ELSE /\ excuse' = [excuse EXCEPT ![r] = "map full"]
         /\ UNCHANGED <<ops, handler>>

\* A client sends a request, for the first time or, when the map of the OSDs
\* changes, again.
Send(r) ==
  /\ pc # "exited" /\ stage[r] # "done" /\ handler[r] = "none" /\ sends[r] < MaxSends
  /\ stage' = [stage EXCEPT ![r] = "flying"] /\ sends' = [sends EXCEPT ![r] = @ + 1]
  /\ standing' = standing \ {r}
  /\ IF Probed(r, "_send_op")
       THEN initialize_value(r)
       ELSE /\ excuse' = [excuse EXCEPT ![r] = "no probe"]
            /\ UNCHANGED <<ops, handler>>
  /\ UNCHANGED <<pc, attached, flags, rb, rows, cursor>>

\* The rest of uprobe_send_op.
SendStamped(r) ==
  /\ handler[r] = "filling" /\ ops[KeyOf(r)] # None
  /\ ops' = [ops EXCEPT ![KeyOf(r)].sent = sends[r]]
  /\ handler' = [handler EXCEPT ![r] = "none"]
  /\ UNCHANGED <<pc, attached, flags, rb, rows, cursor, stage, sends, excuse, standing>>

SameTid(k) == {l \in Key : l.tid = k.tid}   \* mutant
DeletedWith(k) == {k}
delete_elem(k) == [l \in Key |-> IF l \in DeletedWith(k) THEN None ELSE ops[l]]

KeptWhenFull(r) == ops   \* mutant
DroppedWhenFull(r) == delete_elem(KeyOf(r))

\* uprobe_finish_op until the submission.
Finish(r) ==
  /\ pc # "exited" /\ stage[r] = "flying" /\ handler[r] = "none"
  /\ stage' = [stage EXCEPT ![r] = "done"] /\ standing' = standing \ {r}
  /\ CASE ~Probed(r, "_finish_op") ->
            /\ excuse' = [excuse EXCEPT ![r] = "no probe"]
            /\ UNCHANGED <<ops, rb, handler>>
       [] Probed(r, "_finish_op") /\ ops[KeyOf(r)] = None ->
            UNCHANGED <<ops, rb, handler, excuse>>
       [] Probed(r, "_finish_op") /\ ops[KeyOf(r)] # None /\ Len(rb) = RING_SIZE ->
            /\ ops' = DroppedWhenFull(r)
            /\ excuse' = [excuse EXCEPT ![r] = "ring full"]
            /\ UNCHANGED <<rb, handler>>
       [] OTHER ->
            /\ rb' = Append(rb, [op |-> ops[KeyOf(r)], late |-> Stopped])
            /\ handler' = [handler EXCEPT ![r] = "submitted"]
            /\ UNCHANGED <<ops, excuse>>
  /\ UNCHANGED <<pc, attached, flags, rows, cursor, sends>>

\* The rest of it.
FinishDeletes(r) ==
  /\ handler[r] = "submitted"
  /\ ops' = delete_elem(KeyOf(r))
  /\ handler' = [handler EXCEPT ![r] = "none"]
  /\ UNCHANGED <<pc, attached, flags, rb, rows, cursor, stage, sends, excuse, standing>>

-----------------------------------------------------------------------------
(* The main thread                                                         *)

attach_uprobe ==
  /\ pc = "attach" /\ attached < 2 * Len(Libraries)
  /\ attached' = attached + 1
  /\ UNCHANGED <<pc, flags, ops, rb, rows, cursor, clients, standing>>

Start ==
  /\ pc = "attach" /\ attached = 2 * Len(Libraries) /\ pc' = "loop"
  /\ UNCHANGED <<attached, flags, ops, rb, rows, cursor, clients, standing>>

OnlyTimeout == ~timeout_occurred   \* mutant
KeepsGoing == ~got_sigint /\ ~timeout_occurred

NoLastDrain == "walk"   \* mutant
AfterLoop == "last"

\* detach, called after the loop, finds no link in the skeleton: attach_uprobe
\* keeps none.  The probes stay.
Loop ==
  /\ pc \in {"loop", "sleep"}
  /\ pc' = IF KeepsGoing THEN "drain" ELSE AfterLoop
  /\ UNCHANGED <<attached, flags, ops, rb, rows, cursor, clients, standing>>

print_event(op, complete) == rows' = Append(rows, [op |-> op, complete |-> complete])

Consume ==
  /\ pc \in {"drain", "drained", "last"} /\ rb # << >>
  /\ print_event(Head(rb).op, TRUE)
  /\ rb' = Tail(rb) /\ pc' = IF pc = "drain" THEN "drained" ELSE pc
  /\ UNCHANGED <<attached, flags, ops, cursor, clients, standing>>

Return ==
  /\ pc \in {"drain", "drained"} /\ rb = << >>
  /\ pc' = IF pc = "drain" THEN "sleep" ELSE "loop"
  /\ UNCHANGED <<attached, flags, ops, rb, rows, cursor, clients, standing>>

\* The last drain is over and report_hung_ops begins.
LastReturn ==
  /\ pc = "last" /\ rb = << >> /\ pc' = "walk"
  /\ standing' = {r \in Req : stage[r] = "flying" /\ KeyOf(r) \in Present
                                /\ ops[KeyOf(r)].sent # 0}
  /\ UNCHANGED <<attached, flags, ops, rb, rows, cursor, clients>>

EndsWhenGone ==   \* mutant
  IF cursor = None THEN Present
  ELSE IF cursor \in Present THEN {k \in Present : Slot[k] > Slot[cursor]} ELSE {}

\* get_next_key starts over when the key it is given is no longer there.
Ahead ==
  IF cursor \in Present THEN {k \in Present : Slot[k] > Slot[cursor]} ELSE Present

get_next_key ==
  /\ pc = "walk"
  /\ IF Ahead = {} THEN pc' = "exited" /\ UNCHANGED cursor
     ELSE /\ pc' = "look"
          /\ cursor' = CHOOSE k \in Ahead : \A l \in Ahead : Slot[k] <= Slot[l]
  /\ UNCHANGED <<attached, flags, ops, rb, rows, clients, standing>>

lookup_elem ==
  /\ pc = "look" /\ pc' = "walk"
  /\ IF cursor \in Present /\ ops[cursor].sent # 0
       THEN print_event(ops[cursor], FALSE)
       ELSE UNCHANGED rows
  /\ UNCHANGED <<attached, flags, ops, rb, cursor, clients, standing>>

MainStep ==
  attach_uprobe \/ Start \/ Loop \/ Consume \/ Return \/ LastReturn \/ get_next_key
  \/ lookup_elem

\* The alarm is armed when the loop begins; SIGINT is caught from the start.
timeout_handler ==
  /\ pc \notin {"attach", "exited"} /\ ~timeout_occurred /\ timeout_occurred' = TRUE
  /\ UNCHANGED <<pc, attached, got_sigint, ops, rb, rows, cursor, clients, standing>>

signal_handler ==
  /\ pc # "exited" /\ ~got_sigint /\ got_sigint' = TRUE
  /\ UNCHANGED <<pc, attached, timeout_occurred, ops, rb, rows, cursor, clients,
                 standing>>

Next ==
  \/ MainStep \/ timeout_handler \/ signal_handler
  \/ \E r \in Req : Send(r) \/ SendStamped(r) \/ Finish(r) \/ FinishDeletes(r)

Spec == Init /\ [][Next]_vars /\ WF_vars(MainStep)

-----------------------------------------------------------------------------
(* Properties                                                              *)

RowsOf(r, complete) ==
  {i \in 1 .. Len(rows) : rows[i].op.req = r /\ rows[i].complete = complete}

\* A row with Complete=1 is about a request that was answered, shows it as it
\* was last sent, and is printed once (uprobe_finish_op, handle_event).
CompleteRowsRight ==
  \A r \in Req :
    /\ Cardinality(RowsOf(r, TRUE)) <= 1
    /\ \A i \in RowsOf(r, TRUE) : stage[r] = "done" /\ rows[i].op.sent = sends[r]

\* An answered request is printed or on its way, or the hash had no room for it
\* when it was last sent, the ring had none when it was answered, or the one
\* or the other was not probed yet.
AnswersReported ==
  \A r \in Req : stage[r] = "done" /\ excuse[r] = "none" =>
    \/ RowsOf(r, TRUE) # {}
    \/ \E i \in 1 .. Len(rb) : rb[i].op.req = r

\* An entry of the hash, which evicts nothing, ends with its request, unless
\* _finish_op was not probed yet when the request was answered.
EntriesReleased ==
  \A r \in Req : stage[r] = "done" /\ KeyOf(r) \in Present =>
    handler[r] = "submitted" \/ excuse[r] = "no probe"

\* Whatever was answered before the timeout or SIGINT has been printed when
\* the walk begins: the last drain (radostrace.cc:1033).
StopLosesNothing ==
  pc \in {"walk", "look", "exited"} => \A i \in 1 .. Len(rb) : rb[i].late

\* A request that stays in flight during the walk is printed, although other
\* entries come and go under the walk (report_hung_ops).
StandingReported ==
  pc = "exited" => \A r \in standing :
    \E i \in RowsOf(r, FALSE) : rows[i].op.sent = sends[r]

\* A timeout or SIGINT ends radostrace.
Stops == Stopped ~> pc = "exited"

\* "Detach first so no new finish events race with the map walk"
\* (radostrace.cc:1029): the walk lists a request once.
ListedOnce == \A r \in Req : Cardinality(RowsOf(r, FALSE)) <= 1
=============================================================================
