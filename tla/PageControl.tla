----------------------------- MODULE PageControl -----------------------------
(***************************************************************************)
(* Runtime control in the browser page                                     *)
(* (packages/browser-observability/src/runtime-control): a registry that   *)
(* lives as long as the page, one fetch at a time, a refresh loop driven   *)
(* by a timer and by visibility and online events, and the collection      *)
(* gate, computed from the registry whenever it is asked for.              *)
(*                                                                         *)
(* Delays and back-off are left out: the timer fires at any time.          *)
(***************************************************************************)
EXTENDS ControlPlane

CONSTANT PageScope   \* the scope whose documents the page is served

ASSUME PageScopeAssumption == PageScope \in Scope

VARIABLES
  current,   \* registry.currentDocument
  latched,   \* registry.killSwitchLatched
  outcome,   \* registry.lastOutcomeState
  flight,    \* the fetch in progress
  loop,      \* registry.loopStarted, with the event listeners
  timer      \* registry.timerHandle is set

pageVars == <<current, latched, outcome, flight, loop, timer>>

(* "again": a tick or an event of the loop awaits the fetch, and will      *)
(* schedule the next one.  "since" is the time validation compares with.   *)
NoFlight == [step |-> "none", document |-> NoDocument, since |-> 0, again |-> FALSE]

Asked(again) == [step |-> "asked", document |-> NoDocument, since |-> now, again |-> again]

Refreshing == flight.step # "none"

(* isCollectionGateOpen                                                    *)
GateOpen == current # NoDocument /\ ~ latched /\ current.expires > now

(* computeRuntimeControlState                                              *)
PageState ==
  CASE latched -> "kill-switched"
    [] ~ latched /\ current = NoDocument -> IF outcome = "none" THEN "expired" ELSE outcome
    [] ~ latched /\ current # NoDocument /\ current.expires <= now -> "expired"
    [] OTHER -> IF Refreshing THEN "refreshing" ELSE outcome

(***************************************************************************)
(* The loop and its triggers.                                              *)
(***************************************************************************)

(* performInitialControlFetch, once per page unless it fails.  Joining a   *)
(* fetch in progress changes nothing.                                      *)
InitialFetch ==
  /\ current = NoDocument
  /\ ~ Refreshing
  /\ flight' = Asked(FALSE)
  /\ UNCHANGED <<current, latched, outcome, loop, timer>>

(* startRuntimeControlLoop, after a successful initial fetch.              *)
StartLoop ==
  /\ current # NoDocument
  /\ ~ loop
  /\ loop' = TRUE
  /\ timer' = TRUE
  /\ UNCHANGED <<current, latched, outcome, flight>>

(* What an aborted fetch still does: its end may schedule the next one.    *)
Aborted == [NoFlight EXCEPT !.step = "aborted", !.again = flight.again]

(* stopRuntimeControlLoop, on shutdown or a failed initialization.         *)
StopLoop ==
  /\ loop \/ flight.step \in {"asked", "answered"}
  /\ loop' = FALSE
  /\ timer' = FALSE
  /\ flight' = IF Refreshing THEN Aborted ELSE flight
  /\ UNCHANGED <<current, latched, outcome>>

(* tick: runRefreshCycle starts a fetch or hands out the one in progress.  *)
TimerFires ==
  /\ timer
  /\ timer' = FALSE
  /\ flight' = IF Refreshing THEN [flight EXCEPT !.again = TRUE] ELSE Asked(TRUE)
  /\ UNCHANGED <<current, latched, outcome, loop>>

(* triggerImmediateRefresh: the page becomes visible or online.  With a    *)
(* fetch in progress it leaves the rescheduling to whoever awaits it.      *)
Wakeup ==
  /\ loop
  /\ timer' = FALSE
  /\ flight' = IF Refreshing THEN flight ELSE Asked(TRUE)
  /\ UNCHANGED <<current, latched, outcome, loop>>

(***************************************************************************)
(* The answer.  Between the control plane's reading of the files and the   *)
(* page's reading of the body, more documents can be published.            *)
(***************************************************************************)
ServeDocument ==
  /\ flight.step = "asked"
  /\ flight' = [flight EXCEPT !.step = "answered", !.document = Resolve(PageScope)]
  /\ UNCHANGED <<current, latched, outcome, loop, timer>>

(* The fetch settles: the loop's continuation schedules the next one.      *)
FlightEnds ==
  /\ flight' = NoFlight
  /\ timer' = (timer \/ (flight.again /\ loop))
  /\ UNCHANGED loop

(* handleFailure: a document that is still live carries the page on.       *)
FailureState ==
  IF current # NoDocument /\ current.expires > now THEN "degraded" ELSE "expired"

(* A plausible bug: only a fetch that succeeds schedules the next one.     *)
FetchFailsSilently ==
  /\ Refreshing
  /\ outcome' = FailureState
  /\ flight' = NoFlight
  /\ UNCHANGED <<current, latched, loop, timer>>

(* No answer, one with another status or type, too long or not JSON, a     *)
(* timeout or an abort.                                                    *)
FetchFails ==
  /\ Refreshing
  /\ outcome' = FailureState
  /\ FlightEnds
  /\ UNCHANGED <<current, latched>>

(* A plausible bug: the registry is updated, the latch is not.             *)
ApplyWithoutLatch ==
  /\ flight.step = "answered"
  /\ ValidAt(flight.document, flight.since)
  /\ FlightEnds
  /\ IF flight.document.revision <= current.revision
     THEN outcome' = "fresh" /\ UNCHANGED current
     ELSE outcome' = "fresh" /\ current' = flight.document
  /\ UNCHANGED latched

(* A document that is not valid (any more) is rejected.                    *)
RejectInvalid ==
  /\ flight.step = "answered"
  /\ ~ ValidAt(flight.document, flight.since)
  /\ outcome' = "invalid"
  /\ FlightEnds
  /\ UNCHANGED <<current, latched>>

(* applyFetchOutcome: an older revision is refused, the same revision is   *)
(* taken as seen, and a newer one is applied; a kill latches.              *)
Apply ==
  /\ flight.step = "answered"
  /\ ValidAt(flight.document, flight.since)
  /\ FlightEnds
  /\ \/ /\ flight.document.revision < current.revision
        /\ outcome' = "rollback-rejected"
        /\ UNCHANGED <<current, latched>>
     \/ /\ flight.document.revision = current.revision
        /\ outcome' = "fresh"
        /\ UNCHANGED <<current, latched>>
     \/ /\ flight.document.revision > current.revision
        /\ outcome' = "fresh"
        /\ current' = flight.document
        /\ latched' = (latched \/ flight.document.active)

(* Only a reload clears the registry.                                      *)
Reload ==
  /\ current # NoDocument
  /\ current' = NoDocument
  /\ latched' = FALSE
  /\ outcome' = "none"
  /\ flight' = NoFlight
  /\ loop' = FALSE
  /\ timer' = FALSE

PageStep ==
  \/ InitialFetch
  \/ StartLoop
  \/ StopLoop
  \/ TimerFires
  \/ Wakeup
  \/ ServeDocument
  \/ FetchFails
  \/ RejectInvalid
  \/ Apply
  \/ Reload

PageInit ==
  /\ current = NoDocument
  /\ latched = FALSE
  /\ outcome = "none"
  /\ flight = NoFlight
  /\ loop = FALSE
  /\ timer = FALSE

PageTypeOK ==
  /\ current \in Document \cup {NoDocument}
  /\ latched \in BOOLEAN
  /\ outcome \in {"none", "fresh", "degraded", "expired", "invalid", "rollback-rejected"}
  /\ flight \in [step : {"none", "asked", "answered", "aborted"},
                 document : Document \cup {NoDocument},
                 since : 0 .. Horizon,
                 again : BOOLEAN]
  /\ loop \in BOOLEAN
  /\ timer \in BOOLEAN
=============================================================================
