--------------------------- MODULE TelemetryIngest ---------------------------
(***************************************************************************)
(* The admission service, apps/telemetry-ingest/src/server.js: one HTTP    *)
(* request after another is checked against the runtime control document,  *)
(* turned into a durable message, published to RabbitMQ with a publisher   *)
(* confirm, and answered 202 only once the broker confirmed it.            *)
(*                                                                         *)
(* Requests run concurrently: every await of the handler is a point where  *)
(* other requests, broker events, operators and crashes get in between.    *)
(***************************************************************************)
EXTENDS Broker

VARIABLES
  ingest,    \* the process: "up", "closing" after SIGTERM, or "down"
  ready,     \* the AMQP channel is usable (module variable ready)
  blocked,   \* the last blocked/unblocked event seen
  phase,     \* where each request's handler stands
  wire,      \* what became of each request's publish
  response,  \* the HTTP answer of each request
  control,   \* what the control plane would answer now
  sawOpen    \* history: the control was open at some time since the arrival

ingestVars == <<ingest, ready, blocked, phase, wire, response, control, sawOpen>>

Phase == {"idle", "checking", "cleared", "confirming", "answered"}
Wire == {"none", "sent", "enqueued", "refused", "lost"}

(* "failed" is every other answer, 4xx or 503, and a reset connection.     *)
Response == {"none", "202", "failed"}

(* "closed" is every answer the guard turns into a 503: an active kill      *)
(* switch, an invalid or expired document, a control plane out of reach.   *)
Control == {"open", "closed"}

InFlight(m) == phase[m] \in {"checking", "cleared", "confirming"}

Answer(m, status) ==
  /\ phase' = [phase EXCEPT ![m] = "answered"]
  /\ response' = [response EXCEPT ![m] = status]

(* A wrong route, method, content type or length: 4xx.                     *)
RejectRequest(m) == Answer(m, "failed")

(* sanitizeBrowserBatch throws over a payload: 400.                        *)
RejectPayload(m) == Answer(m, "failed")

(***************************************************************************)
(* The request is read, validated and passes or fails the connection       *)
(* guard, all in one turn of the event loop.  The admitted request then    *)
(* waits for the control document.                                         *)
(***************************************************************************)
Arrive(m) ==
  /\ ingest = "up"
  /\ phase[m] = "idle"
  /\ \/ RejectRequest(m) /\ UNCHANGED sawOpen
     \/ Answer(m, "failed") /\ UNCHANGED sawOpen    \* the guard's 503
     \/ /\ ready /\ ~ blocked
        /\ phase' = [phase EXCEPT ![m] = "checking"]
        /\ sawOpen' = [sawOpen EXCEPT ![m] = (control = "open")]
        /\ UNCHANGED response
  /\ UNCHANGED <<ingest, ready, blocked, wire, control>>

(* A plausible bug: the guard fails open.                                  *)
CheckControlFailOpen(m) ==
  /\ phase[m] = "checking"
  /\ phase' = [phase EXCEPT ![m] = "cleared"]
  /\ UNCHANGED <<ingest, ready, blocked, wire, response, control, sawOpen>>

(* assertRuntimeControlOpen: the control plane reads its document now; a   *)
(* kill switch, an invalid or expired document, a failure or a timeout is  *)
(* a 503.                                                                  *)
CheckControl(m) ==
  /\ phase[m] = "checking"
  /\ \/ /\ control = "open"
        /\ phase' = [phase EXCEPT ![m] = "cleared"]
        /\ UNCHANGED response
     \/ Answer(m, "failed")
  /\ UNCHANGED <<ingest, ready, blocked, wire, control, sawOpen>>

(* The handler resumes: buildDurableMessage either rejects the payload or  *)
(* the message goes to the channel.  Nothing looks at ready or blocked     *)
(* again; publishing on a closed channel throws.                           *)
Publish(m) ==
  /\ phase[m] = "cleared"
  /\ \/ RejectPayload(m) /\ UNCHANGED wire
     \/ Answer(m, "failed") /\ UNCHANGED wire       \* the channel's throw
     \/ /\ ready
        /\ phase' = [phase EXCEPT ![m] = "confirming"]
        /\ wire' = [wire EXCEPT ![m] = "sent"]
        /\ UNCHANGED response
  /\ UNCHANGED <<ingest, ready, blocked, control, sawOpen>>

(* The broker stores the message, or rejects it because the queue is full. *)
BrokerStoresPublish(m, c) ==
  /\ wire[m] = "sent"
  /\ Enqueue(c, MainCopy(m, 0))
  /\ wire' = [wire EXCEPT ![m] = "enqueued"]
  /\ UNCHANGED <<ingest, ready, blocked, phase, response, control, sawOpen>>

BrokerRefusesPublish(m) ==
  /\ wire[m] = "sent"
  /\ Refuses(MainCopy(m, 0))
  /\ wire' = [wire EXCEPT ![m] = "refused"]
  /\ UNCHANGED <<ingest, ready, blocked, phase, response, control, sawOpen>>

(* A plausible bug: the confirm callback ignores its error argument.       *)
ConfirmIgnoresNack(m) ==
  /\ phase[m] = "confirming"
  /\ wire[m] \in {"enqueued", "refused"}
  /\ Answer(m, "202")
  /\ UNCHANGED <<ingest, ready, blocked, wire, control, sawOpen>>

(* The publisher confirm or nack arrives before the timer.  A channel that *)
(* closes fails every publish it has no confirm for, stored or not.        *)
Confirm(m) ==
  /\ phase[m] = "confirming"
  /\ \/ ready /\ wire[m] = "enqueued" /\ Answer(m, "202")
     \/ (~ ready \/ wire[m] = "refused") /\ Answer(m, "failed")
  /\ UNCHANGED <<ingest, ready, blocked, wire, control, sawOpen>>

(* A plausible bug: no timer runs while the connection is blocked.         *)
ConfirmTimeoutUnlessBlocked(m) ==
  /\ phase[m] = "confirming"
  /\ ~ blocked
  /\ Answer(m, "failed")
  /\ UNCHANGED <<ingest, ready, blocked, wire, control, sawOpen>>

(* The confirm timer fires first.  The publish itself is not withdrawn.    *)
ConfirmTimeout(m) ==
  /\ phase[m] = "confirming"
  /\ Answer(m, "failed")
  /\ UNCHANGED <<ingest, ready, blocked, wire, control, sawOpen>>

(* A blocked or unblocked event of the connection reaches the process.     *)
ObserveAlarm ==
  /\ ready
  /\ blocked # alarm
  /\ blocked' = alarm
  /\ UNCHANGED <<ingest, ready, phase, wire, response, control, sawOpen>>

(***************************************************************************)
(* The process ends: open requests are reset, publishes the broker has not *)
(* taken are lost with the connection.                                     *)
(***************************************************************************)
ProcessEnds ==
  /\ ingest' = "down"
  /\ ready' = FALSE
  /\ blocked' = FALSE
  /\ wire' = [m \in Message |-> IF wire[m] = "sent" THEN "lost" ELSE wire[m]]
  /\ phase' = [m \in Message |-> IF InFlight(m) THEN "answered" ELSE phase[m]]
  /\ response' = [m \in Message |-> IF InFlight(m) THEN "failed" ELSE response[m]]
  /\ UNCHANGED <<control, sawOpen>>

(* A crash, or a closed connection or channel while serving: exit(1).      *)
IngestCrash ==
  /\ ingest # "down"
  /\ Fault
  /\ ProcessEnds

(* A connection lost while shutting down does not exit: ready is cleared   *)
(* and the publishes without a confirm fail.                               *)
ConnectionLostWhileClosing ==
  /\ ingest = "closing"
  /\ ready
  /\ Fault
  /\ ready' = FALSE
  /\ wire' = [m \in Message |-> IF wire[m] = "sent" THEN "lost" ELSE wire[m]]
  /\ UNCHANGED <<ingest, blocked, phase, response, control, sawOpen>>

(* SIGTERM: the server takes no new connections and waits for the open     *)
(* requests, at most until the shutdown timer.                             *)
Shutdown ==
  /\ ingest = "up"
  /\ ingest' = "closing"
  /\ UNCHANGED <<ready, blocked, phase, wire, response, control, sawOpen>>

ShutdownCompletes ==
  /\ ingest = "closing"
  /\ \A m \in Message : ~ InFlight(m)
  /\ ProcessEnds

ShutdownTimeout ==
  /\ ingest = "closing"
  /\ ProcessEnds

(* The container restarts; the server listens once the channel is open.    *)
IngestStart ==
  /\ ingest = "down"
  /\ ingest' = "up"
  /\ ready' = TRUE
  /\ UNCHANGED <<blocked, phase, wire, response, control, sawOpen>>

(* The operators publish control documents, or the control plane fails.    *)
ControlChanges ==
  /\ control' \in Control \ {control}
  /\ sawOpen' = [m \in Message |-> sawOpen[m] \/ (InFlight(m) /\ control' = "open")]
  /\ UNCHANGED <<ingest, ready, blocked, phase, wire, response>>

IngestInit ==
  /\ ingest = "up"
  /\ ready = TRUE
  /\ blocked = FALSE
  /\ phase = [m \in Message |-> "idle"]
  /\ wire = [m \in Message |-> "none"]
  /\ response = [m \in Message |-> "none"]
  /\ control \in Control
  /\ sawOpen = [m \in Message |-> FALSE]

IngestTypeOK ==
  /\ ingest \in {"up", "closing", "down"}
  /\ ready \in BOOLEAN
  /\ blocked \in BOOLEAN
  /\ phase \in [Message -> Phase]
  /\ wire \in [Message -> Wire]
  /\ response \in [Message -> Response]
  /\ control \in Control
  /\ sawOpen \in [Message -> BOOLEAN]
=============================================================================
