------------------------------ MODULE LabChecks ------------------------------
(***************************************************************************)
(* The verification scripts of the lab, as the steps they take.            *)
(***************************************************************************)
EXTENDS LabScripts

Hold == Set("hold", TRUE)
Resume == Set("hold", FALSE)
OpenObserve == {"openobserve"}

PurgeQueues == <<Purge("main"), Purge("retry")>>

(***************************************************************************)
(* Durable delivery.                                                       *)
(***************************************************************************)
AdmitBatches == <<Publish("first", {"202"}), Probe("unsafe-payload")>>

OutageOfOpenObserve ==
  <<Stop("openobserve"), Await({"rabbitmq", "ingest"}, "ignored"),
    Publish("second", {"202"}), Depth("one", "found"),
    Start(OpenObserve), Await({"openobserve", "worker"}, "ignored"), Depth("none", "found")>>

OutageOfRabbitmq ==
  <<Stop("rabbitmq"), Publish("first", {"503"}),
    Start({"rabbitmq"}), Await({"rabbitmq", "ingest", "worker"}, "ignored")>>

ManagementAndCredentials == <<Probe("management-paths"), Probe("tokens"), Ask>>

(* The accounting only reads the depths again.                             *)
VerifyDurableDelivery ==
  AdmitBatches \o OutageOfOpenObserve \o OutageOfRabbitmq
  \o ManagementAndCredentials \o <<Look("any")>>

(* A plausible bug: the wait is for a main queue that is empty, and nobody *)
(* asks OpenObserve.                                                       *)
DrainedBySubtraction ==
  <<Resume, Depth("none", "found"), Look("any"), Probe("logs"), Probe("canaries")>>

DrainedIntoOpenObserve ==
  <<Resume, Depth("drained", "found"), Look("any"), Probe("logs"), Count("first"),
    Probe("canaries")>>

HeldInItsQueue ==
  <<Look("drained"), Hold, Settle, Publish("first", {"202"}), Probe("sensitive-payloads"),
    Depth("some", "found")>>

OnTheBrokersVolume ==
  <<Stop("rabbitmq"), Probe("volume"), Start({"rabbitmq"}),
    Recreate({"ingest", "worker"}), Await({"rabbitmq", "ingest", "worker"}, "found"),
    Depth("some", "found")>>

VerifyQueueStoragePrivacy ==
  PurgeQueues \o HeldInItsQueue \o OnTheBrokersVolume \o DrainedIntoOpenObserve

VerifyPreAckRedelivery ==
  <<Hold, Stop("worker"), Publish("first", {"202"}), Depth("some", "found"), Resume,
    Harness("first"), Depth("some", "found"), Recreate({"worker"}),
    Await({"worker"}, "ignored"), Resume, Depth("drained", "found"),
    Probe("redelivery-log"), Count("first"), Look("drained")>>

(* An hour of two browsers' traffic while OpenObserve is away.             *)
SoakOutage ==
  <<Resume, Await(Service \ {"http"}, "ignored"), Look("drained"), Ask,
    Stop("openobserve"), Await({"ingest", "rabbitmq", "worker"}, "ignored"),
    Browse, Publish("first", {"202"}), Publish("second", {"202"}), Look("queued")>>

(* Of what was accepted it asks for one row of its kind.                   *)
SoakDrain ==
  <<Start(OpenObserve), Await({"openobserve", "worker"}, "ignored"), Resume,
    Depth("drained", "found"), Look("any"), AwaitAny({"first", "second"}, "found"), Look("any")>>

VerifyRealDurableOutageSoak == SoakOutage \o SoakDrain

(***************************************************************************)
(* Credential rotation.                                                    *)
(***************************************************************************)
RotateRabbitmqCredential(service) ==
  <<Probe("rabbitmq"), Rotate(service), Probe("old-and-new-credential")>>

RotateRabbitmqCredentials ==
  <<Hold, Settle, Publish("first", {"202"}), BlindDepth("one")>>
  \o RotateRabbitmqCredential("ingest") \o RotateRabbitmqCredential("worker") \o
  <<Await({"ingest", "worker"}, "found"), Resume, BlindDepth("none"),
    Publish("second", {"202"}), BlindDepth("none")>>

DisableAndEnableToken == <<Ask, Probe("probe-token"), Probe("production-token")>>

VerifyTokenRotation == RotateRabbitmqCredentials \o DisableAndEnableToken

(***************************************************************************)
(* Runtime control.                                                        *)
(***************************************************************************)
KillSwitchOn == <<Set("gate", TRUE), Reload, Set("document", "kill"), Hold>>
(* A plausible bug: the hold is not released.                              *)
KillSwitchOffKeepsHold == <<Set("document", "open"), Set("gate", FALSE), Reload>>

KillSwitchOff == <<Set("document", "open"), Resume, Set("gate", FALSE), Reload>>
ResetToCleanState == <<Set("scoped", FALSE)>> \o KillSwitchOff \o <<Set("document", "open")>>
InitializeAndGrant == <<Browse, See({"active"})>>

CheckNormalFlow == ResetToCleanState \o InitializeAndGrant \o <<Probe("telemetry-request")>>

(* The browser's switch alone: it latches, and only a reload lets go.      *)
CheckBrowserKillSwitch ==
  ResetToCleanState \o InitializeAndGrant \o
  <<Set("document", "kill"), See({"latched"}), Set("document", "open"), See({"latched"})>>
  \o InitializeAndGrant \o ResetToCleanState

CheckProxyKillSwitch ==
  ResetToCleanState \o
  <<Set("gate", TRUE), Reload,
    Protect(<<Publish("first", {"410"}), Stop("openobserve"),
              Protect(<<Publish("first", {"410"})>>,
                      <<Start(OpenObserve), Await(OpenObserve, "found")>>),
              Browse, Probe("retry-storm")>>,
            <<Set("gate", FALSE), Reload>>)>>

CheckOperatorCommand ==
  ResetToCleanState \o KillSwitchOn \o <<Publish("first", {"410"})>>
  \o KillSwitchOff \o <<Publish("first", {"202"})>>

CheckExpiry ==
  ResetToCleanState \o InitializeAndGrant \o <<Outlive, See({"blocked"})>> \o ResetToCleanState

CheckInvalidDocuments ==
  ResetToCleanState \o
  <<Set("document", "invalid"), Browse, See({"blocked"}), Probe("query-string"),
    Set("document", "open")>>
  \o InitializeAndGrant \o <<Set("document", "older"), See({"rejected"})>> \o ResetToCleanState

CheckLifecycle ==
  ResetToCleanState \o InitializeAndGrant \o <<Probe("consent-and-shutdown")>>
  \o InitializeAndGrant \o ResetToCleanState

VerifyRuntimeControl ==
  CheckNormalFlow \o CheckBrowserKillSwitch \o CheckProxyKillSwitch \o CheckOperatorCommand
  \o CheckExpiry \o CheckInvalidDocuments \o CheckLifecycle \o ResetToCleanState \o <<Probe("gate")>>

(* The operator's command for the scope of the first origin; it writes the *)
(* document, then the hold.  Nothing enables the scope when a call between *)
(* the two commands throws.                                                *)
PublishScopedControl(active) == <<Set("scoped", active), Derive>>

VerifyServiceScopeIsolation ==
  <<Publish("first", {"202"}), PublishElsewhere("second", {"202"}),
    Ask, AwaitAny({"first"}, "found"), Ask, AwaitAny({"second"}, "found")>>
  \o PublishScopedControl(TRUE)
  \o <<Probe("scopes"), Publish("first", {"410", "502", "503"}),
       PublishElsewhere("second", {"202"}), Probe("hold")>>
  \o PublishScopedControl(FALSE)

(***************************************************************************)
(* Sanitization, correlation and session metadata: what they look at is in *)
(* the rows; that there are rows depends on the lab.                       *)
(***************************************************************************)
VerifyStreamCase(b) == <<Ask, AwaitAny({b}, "found")>>

(* The probe's function and pipeline stay when a call in between throws.   *)
VerifyPipelineFailureBackstop == <<Ask, Probe("stores-nothing"), Ask>>

VerifySanitizationLeakage ==
  <<Publish("first", {"202"}), Publish("second", {"202"})>>
  \o VerifyStreamCase("first") \o VerifyStreamCase("second") \o VerifyPipelineFailureBackstop

(* What the page's own requests are answered is not looked at.             *)
VerifyCorrelation ==
  <<Browse, See({"active"}), Publish("first", {"202", "410", "502", "503"})>>
  \o VerifyStreamCase("first")

VerifySessionMetadata ==
  <<Ask, Probe("two-syncs"), Ask, Probe("rows"), Probe("service-after-its-restart")>>

(***************************************************************************)
(* lab:verify: a phase that throws is recorded and the next one runs.      *)
(***************************************************************************)
CheckPersistence ==
  <<Ask, Recreate(OpenObserve), Await(OpenObserve, "thrown"), Probe("canary")>>

CheckFailureIsolation ==
  <<Stop("openobserve"), Probe("page"), Start(OpenObserve), Await(OpenObserve, "found"),
    Stop("http"), Probe("page"), Start({"http"}), Await({"http"}, "found"),
    Await(Service, "found"), Probe("restart-counts")>>

LabVerify ==
  <<Caught(<<Probe("static")>>), Caught(<<Await(Service, "found")>>),
    Caught(<<Probe("secrets-proxy-containers")>>),
    Caught(CheckPersistence), Caught(CheckFailureIsolation)>>

(***************************************************************************)
(* The proxy's security: run by itself.                                    *)
(***************************************************************************)
MeasureBrowserSdkTraffic == <<Browse, Publish("first", {"202"}), Probe("requests")>>
CheckPositiveAndPolicy == <<Publish("first", {"202"}), Probe("policies")>>
CheckBodyLimits == <<Publish("first", {"202"}), Probe("body-limits")>>

(* The bursts are to be refused; what of them is accepted is not looked at.*)
CheckRateAndConnectionLimits == <<Probe("rate"), Probe("connections")>>
CheckProtocolProbes == <<Probe("protocol"), Publish("first", {"202"})>>

CheckPathIsolation ==
  <<Stop("openobserve"),
    Protect(<<Probe("paths")>>, <<Start(OpenObserve), Await(OpenObserve, "found")>>)>>

CheckOutageIsolation ==
  <<Stop("openobserve"),
    Protect(<<Publish("first", {"202"}), Probe("page")>>,
            <<Start(OpenObserve), Await(OpenObserve, "found")>>)>>

(* Paused, OpenObserve answers nobody; that it cannot be woken shows in    *)
(* the wait.                                                               *)
CheckSlowUpstreamIsolation ==
  <<Stop("openobserve"),
    Protect(<<Caught(<<Publish("second", {"202"})>>), Probe("page")>>,
            <<Caught(<<Start(OpenObserve)>>), Await(OpenObserve, "found")>>)>>

Anything == {"202", "410", "502", "503"}
CheckPrivacyLogs == <<Publish("first", Anything), Probe("logs")>>

VerifyProxySecurity ==
  <<Probe("nginx"), Probe("tmpfs")>> \o MeasureBrowserSdkTraffic \o CheckPositiveAndPolicy
  \o CheckBodyLimits \o CheckRateAndConnectionLimits \o CheckProtocolProbes
  \o CheckPathIsolation \o CheckOutageIsolation \o <<Probe("browser-token")>>
  \o CheckSlowUpstreamIsolation \o CheckPrivacyLogs

(***************************************************************************)
(* Resilience: run by itself.                                              *)
(***************************************************************************)
MeasureBrowserBudgets == <<Browse, Publish("first", Anything), Probe("page-errors")>>

(* A 503 is unexpected, the other refusals are only counted.               *)
MeasureProxyLatency == <<Publish("first", Anything \ {"503"})>>

MeasureIngestionVisibility(otherwise) ==
  <<Publish("second", Anything), AwaitAny({"second"}, otherwise)>>

MeasureQueryCatalogPerformance == <<Probe("openobserve")>>
CheckNotificationReadiness == <<Probe("notifications")>>

(* The switch stays on while the daemon is replaced.                       *)
RestartRuntimeControlAgent ==
  <<Rescue(KillSwitchOn \o <<Probe("daemon")>> \o KillSwitchOff, <<Caught(KillSwitchOff)>>)>>

RestartScenario(service, measurements) ==
  <<Ask, Recreate({service}), Await({service}, "found")>> \o measurements
  \o <<Ask, Probe("drift-and-other-restarts")>>

(* Nothing removes the company's alert when the matrix throws.             *)
RestartMatrix ==
  <<Ask, Set("alert", TRUE)>>
  \o RestartScenario("http", <<>>)
  \o RestartScenario("openobserve", MeasureIngestionVisibility("ignored") \o <<Ask>>)
  \o <<Ask, Probe("alert"), Set("alert", FALSE)>>

NetworkPartition ==
  <<Caught(<<Stop("http"), Start({"http"}), Await({"http"}, "found"), Probe("alias")>>)>>

KillSwitchUnderLoad ==
  <<Publish("first", Anything)>> \o KillSwitchOn \o <<Publish("second", {"410"})>>
  \o KillSwitchOff \o <<Probe("page")>>

MeasureContainerResourceRecovery == <<Publish("first", Anything), Probe("resources")>>

VerifyResilience ==
  <<Probe("unit-coverage")>> \o MeasureBrowserBudgets \o MeasureProxyLatency
  \o MeasureIngestionVisibility("found") \o MeasureQueryCatalogPerformance
  \o CheckNotificationReadiness \o RestartRuntimeControlAgent \o RestartMatrix
  \o NetworkPartition \o KillSwitchUnderLoad \o MeasureContainerResourceRecovery

(***************************************************************************)
(* The resilience soak: run by itself.  Its turns have a fixed order, so   *)
(* one sample stands for those between two of them.                        *)
(***************************************************************************)
RunBrowserWorkload == <<Browse, Publish("first", Anything), Probe("scenarios")>>
SoakSample == <<Probe("containers"), Publish("first", {"202"})>>
RunBurstProbe == <<Publish("second", {"202"})>>

(* Accepted although the switch is on is not counted as a failure.         *)
RunKillSwitchCycle ==
  KillSwitchOn \o <<Protect(<<Publish("first", {"202", "410"})>>, KillSwitchOff)>>

RestartCycle ==
  <<Recreate(OpenObserve), Await(OpenObserve, "found")>> \o MeasureIngestionVisibility("ignored")

RunResilienceSoak ==
  RunBrowserWorkload \o SoakSample \o CheckNotificationReadiness \o RunBurstProbe
  \o RunKillSwitchCycle \o SoakSample \o RestartCycle \o SoakSample \o RunBrowserWorkload
  \o MeasureIngestionVisibility("found") \o <<Probe("leaks")>>
=============================================================================
