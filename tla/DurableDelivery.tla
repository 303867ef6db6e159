-------------------------- MODULE DurableDelivery --------------------------
(***************************************************************************)
(* What the delivery pipeline promises, without queues, copies, handlers,  *)
(* or crashes: at-least-once delivery.  A message becomes durable at most  *)
(* once and is then outstanding until it has been delivered, buried in a   *)
(* dead-letter queue, or lost in an unconfirmed transfer of the broker;    *)
(* only a durable message is ever reported as accepted.  Delivered is not  *)
(* exclusive: a message may be delivered again while it is outstanding,    *)
(* and may be both delivered and buried.                                   *)
(***************************************************************************)
CONSTANT Message

VARIABLES
  durable,      \* messages the broker has taken
  accepted,     \* messages reported as accepted to the browser
  outstanding,  \* durable messages still on their way
  delivered,    \* messages OpenObserve has stored
  buried,       \* messages in a dead-letter queue
  lost          \* messages that lost a copy in a broker transfer

vars == <<durable, accepted, outstanding, delivered, buried, lost>>

Init ==
  /\ durable = {}
  /\ accepted = {}
  /\ outstanding = {}
  /\ delivered = {}
  /\ buried = {}
  /\ lost = {}

MakeDurable(m) ==
  /\ m \notin durable
  /\ durable' = durable \cup {m}
  /\ outstanding' = outstanding \cup {m}
  /\ UNCHANGED <<accepted, delivered, buried, lost>>

Accept(m) ==
  /\ m \in durable
  /\ accepted' = accepted \cup {m}
  /\ UNCHANGED <<durable, outstanding, delivered, buried, lost>>

Deliver(m) ==
  /\ m \in outstanding
  /\ delivered' = delivered \cup {m}
  /\ UNCHANGED <<durable, accepted, outstanding, buried, lost>>

(* A message stops being outstanding only once its fate is settled.        *)
MayFinish(m) == outstanding' \in {outstanding, outstanding \ {m}}

Bury(m) ==
  /\ m \in outstanding
  /\ buried' = buried \cup {m}
  /\ MayFinish(m)
  /\ UNCHANGED <<durable, accepted, delivered, lost>>

Lose(m) ==
  /\ m \in outstanding
  /\ lost' = lost \cup {m}
  /\ MayFinish(m)
  /\ UNCHANGED <<durable, accepted, delivered, buried>>

Finish(m) ==
  /\ m \in outstanding
  /\ m \in delivered \cup buried \cup lost
  /\ outstanding' = outstanding \ {m}
  /\ UNCHANGED <<durable, accepted, delivered, buried, lost>>

Next ==
  \E m \in Message :
    \/ MakeDurable(m)
    \/ Accept(m)
    \/ Deliver(m)
    \/ Bury(m)
    \/ Lose(m)
    \/ Finish(m)

Spec == Init /\ [][Next]_vars
=============================================================================
