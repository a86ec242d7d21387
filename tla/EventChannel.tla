---------------------------- MODULE EventChannel ----------------------------
(***************************************************************************)
(* What a tracer promises about the events its probes produce: each is     *)
(* delivered once and in the order of production, or is counted as lost    *)
(* the moment it is produced.  Nothing is delivered that was not produced. *)
(***************************************************************************)
EXTENDS Naturals, Sequences

CONSTANT Event

VARIABLES produced,   \* number of events produced
          pending,    \* produced and not delivered yet, oldest first
          delivered,  \* in order of delivery
          lost        \* number of events lost

channel == <<produced, pending, delivered, lost>>

Init == produced = 0 /\ pending = << >> /\ delivered = << >> /\ lost = 0

Produce(e) ==
  /\ produced' = produced + 1
  /\ pending' = Append(pending, e)
  /\ UNCHANGED <<delivered, lost>>

Lose ==
  /\ produced' = produced + 1
  /\ lost' = lost + 1
  /\ UNCHANGED <<pending, delivered>>

Deliver ==
  /\ pending # << >>
  /\ pending' = Tail(pending)
  /\ delivered' = Append(delivered, Head(pending))
  /\ UNCHANGED <<produced, lost>>

Next == (\E e \in Event : Produce(e)) \/ Lose \/ Deliver

Spec == Init /\ [][Next]_channel
=============================================================================
